------------------------ MODULE ExitProtectionProofs ------------------------
(***************************************************************************)
(* What holds of the protection of a position and of its exits, for any    *)
(* number of lots, rows, SELLs and faults: the types, with the lots that   *)
(* open orders have frozen; that no OCO is ever live unnoticed; that an    *)
(* exit never sells beside another SELL; and that READY means a position   *)
(* somebody looks after.                                                   *)
(***************************************************************************)
EXTENDS ExitProtection, FiniteSetTheorems, WellFoundedInduction, TLAPS

-----------------------------------------------------------------------------
(* The least element of a set of rows or of SELLs is one of them.          *)

LEMMA SmallerWF == IsWellFoundedOn({ss \in Nat \X Nat : ss[1] < ss[2]}, Nat)
BY NatLessThanWellFounded DEF OpToRel

LEMMA MinIn ==
  ASSUME NEW S \in SUBSET Nat, S # {}
  PROVE  Min(S) \in S
<1>1. PICK x \in S : \A y \in S : <<y, x>> \notin {ss \in Nat \X Nat : ss[1] < ss[2]}
  BY SmallerWF, WFMin
<1>2. ASSUME NEW y \in S PROVE x <= y
  <2>1. x \in Nat /\ y \in Nat
    OBVIOUS
  <2>2. <<y, x>> \in {ss \in Nat \X Nat : ss[1] < ss[2]} <=> y < x
    BY <2>1
  <2>3. ~(y < x)
    BY <1>1, <2>2
  <2> QED
    BY <2>1, <2>3
<1> QED
  BY <1>2 DEF Min

LEMMA MinRow ==
  ASSUME NEW S \in SUBSET Prots, S # {}
  PROVE  Min(S) \in S /\ Min(S) \in Prots
<1>1. S \in SUBSET Nat
  BY ExitConstants DEF Prots
<1> QED
  BY <1>1, MinIn

LEMMA MinSell ==
  ASSUME NEW S \in SUBSET Sells, S # {}
  PROVE  Min(S) \in S /\ Min(S) \in Sells
<1>1. S \in SUBSET Nat
  BY ExitConstants DEF Sells
<1> QED
  BY <1>1, MinIn

-----------------------------------------------------------------------------
(* The thread: what it may be, and that it asks for lots while it protects *)
(* or sells.                                                               *)

Threads ==
  [pc : PC, ret : PC, ctx : {"buy", "sell", "rec"}, k : Prots, want : Nat,
   ans : {"ok", "lost", "no"}, todo : SUBSET Prots, left : SUBSET Prots,
   ok : BOOLEAN, free : BOOLEAN, safe : BOOLEAN, by : {"strategy", "task"},
   result : {"none", "open", "filled", "raised", "other"}]

Protecting ==
  {"ensure", "submit", "place", "placed", "amend", "amended", "abort", "aborted", "esell"}

Wanting == Protecting \union {"xsell"}

\* Where a handler or cancel_all may return to.
Rets == {"idle", "xopen", "xsells", "rend", "rremote", "rlocal", "xreturn", "xt1", "xt2", "xcanceled"}

Sound(o) == o \in Threads /\ o.ret \in Rets /\ (o.pc \in Wanting => o.want > 0)

LEMMA IdleSound == Sound(Idle) /\ Idle.pc = "idle" /\ Idle.ret = "idle" /\ Idle.ctx = "buy"
<1>1. 1 \in Prots
  BY ExitConstants DEF Prots
<1> QED
  BY <1>1 DEF Idle, Sound, Threads, PC, Rets, Wanting, Protecting

\* The fields a step may change one by one.
LEMMA SoundPc ==
  ASSUME NEW o \in Threads, o.ret \in Rets, NEW p \in PC, p \in Wanting => o.want > 0
  PROVE  Sound([o EXCEPT !.pc = p])
BY DEF Sound, Threads

LEMMA SoundPcK ==
  ASSUME NEW o \in Threads, o.ret \in Rets, NEW p \in PC, NEW k \in Prots, p \in Wanting => o.want > 0
  PROVE  Sound([o EXCEPT !.pc = p, !.k = k])
BY DEF Sound, Threads

LEMMA SoundAnswer ==
  ASSUME NEW o \in Threads, o.ret \in Rets, NEW p \in PC, NEW k \in Prots, NEW a \in {"ok", "lost", "no"},
         p \in Wanting => o.want > 0
  PROVE  Sound([o EXCEPT !.pc = p, !.k = k, !.ans = a])
BY DEF Sound, Threads

LEMMA SoundEnsure ==
  ASSUME NEW o \in Threads, NEW c \in {"buy", "sell", "rec"}, NEW w \in Nat \ {0}, NEW r \in Rets
  PROVE  Sound([o EXCEPT !.pc = "ensure", !.ctx = c, !.want = w, !.ret = r])
<1> DEFINE e == [o EXCEPT !.pc = "ensure", !.ctx = c, !.want = w, !.ret = r]
<1>1. "ensure" \in PC /\ r \in PC /\ w \in Nat
  BY DEF PC, Rets
<1>2. e \in Threads
  BY <1>1 DEF Threads
<1>3. e.ret = r /\ e.want = w
  BY DEF Threads
<1>4. w > 0
  OBVIOUS
<1> QED
  BY <1>2, <1>3, <1>4 DEF Sound

LEMMA SoundCancel ==
  ASSUME NEW o \in Threads, NEW l \in SUBSET Prots, NEW r \in Rets
  PROVE  Sound([o EXCEPT !.pc = "cancel", !.left = l, !.ok = TRUE, !.ret = r])
<1>1. "cancel" \in PC /\ r \in PC /\ "cancel" \notin Wanting
  BY DEF PC, Rets, Wanting, Protecting
<1> QED
  BY <1>1 DEF Sound, Threads

LEMMA SoundBack ==
  ASSUME NEW o \in Threads, o.ret \in Rets, NEW r \in Rets
  PROVE  Sound(BackTo(o, r)) /\ BackTo(o, r).pc = r
<1>1. CASE r = "idle"
  BY <1>1, IdleSound DEF BackTo
<1>2. CASE r # "idle"
  <2>1. 1 \in Prots /\ r \in PC /\ r \notin Wanting
    BY ExitConstants DEF Prots, Rets, PC, Wanting, Protecting
  <2> DEFINE b == [o EXCEPT !.pc = r, !.k = 1, !.want = 0, !.ans = "ok"]
  <2>2. b \in Threads
    BY <2>1 DEF Threads
  <2>3. b.pc = r /\ b.ret = o.ret
    BY DEF Threads
  <2>4. BackTo(o, r) = b
    BY <1>2 DEF BackTo
  <2> QED
    BY <2>1, <2>2, <2>3, <2>4 DEF Sound
<1> QED
  BY <1>1, <1>2

LEMMA SoundAfterSell ==
  ASSUME NEW o \in Threads, o.ret \in Rets, NEW p \in Nat, NEW r \in Rets
  PROVE  Sound(AfterSell(o, p, r))
<1>1. ActiveOnly \in SUBSET Prots
  BY DEF ActiveOnly
<1>2. CASE p = 0
  BY <1>1, <1>2, SoundCancel DEF AfterSell
<1>3. CASE p # 0 /\ Actives # {}
  BY <1>3, SoundEnsure DEF AfterSell
<1>4. CASE p # 0 /\ Actives = {}
  BY <1>4, SoundBack DEF AfterSell
<1> QED
  BY <1>2, <1>3, <1>4

LEMMA SoundAfterBuy ==
  ASSUME NEW o \in Threads, NEW p \in Nat \ {0}, NEW r \in Rets
  PROVE  Sound(AfterBuy(o, p, r))
BY SoundEnsure DEF AfterBuy

-----------------------------------------------------------------------------
(* The core invariant: types, what the open orders have frozen, and what a *)
(* row and the order of the exchange it stands for have in common.         *)

Faults == faults \in 0..MaxFaults

JournalTypes ==
  /\ mode \in {"ready", "degraded", "emergency"} /\ lease \in {"free", "mine", "left"} /\ position \in Nat
  /\ buy \in [open : BOOLEAN, acc : Nat]
  /\ prot \in [Prots -> [state : ProtectionState \union {"none"}, qty : Nat, id : BOOLEAN]]
  /\ sell \in [Sells -> [state : {"none", "unknown", "live", "filled", "canceled"}, acc : Nat]]
  /\ watch \in [since : BOOLEAN, reported : BOOLEAN, task : BOOLEAN]

ExchangeTypes ==
  /\ base \in Nat
  /\ xbuy \in [qty : Nat, acc : Nat, live : BOOLEAN, asked : Nat]
  /\ algo \in [Prots -> [state : {"none", "live", "canceling", "triggered", "canceled", "failed"},
                         qty : Nat, past : SUBSET Nat, child : Sells \union {0},
                         misread : BOOLEAN]]
  /\ xsell \in [Sells -> [state : {"none", "live", "filled", "canceled"}, qty : Nat, acc : Nat]]

\* What a BUY has filled and may still fill was asked for.
BuyBooked ==
  /\ buy.acc <= xbuy.acc /\ xbuy.acc <= xbuy.qty /\ (xbuy.live => xbuy.acc < xbuy.qty)
  /\ base + (IF xbuy.live THEN xbuy.qty - xbuy.acc ELSE 0) <= xbuy.asked /\ xbuy.asked <= MaxUnits

\* Open orders are for lots that are there, each lot for one of them.
LotsBooked ==
  /\ \A k \in LiveAlgos : algo[k].qty \in 1..MaxUnits
  /\ \A s \in LiveSells : xsell[s].acc < xsell[s].qty /\ xsell[s].qty <= MaxUnits
  /\ Claimed <= base

\* A row that asked for nothing has no OCO, and one that says triggered has a SELL.
RowsBooked ==
  /\ \A k \in Prots : algo[k].state = "triggered" => algo[k].child \in Sells /\ xsell[algo[k].child].state # "none"
  /\ \A k \in Prots : prot[k].state = "triggered" => algo[k].state = "triggered"
  /\ \A k \in Prots : prot[k].state \in {"none", "required"} => algo[k].state = "none"
  /\ op.pc = "submit" => prot[op.k].state = "required"
  /\ op.pc = "place" => prot[op.k].state = "submitting" /\ algo[op.k].state = "none"

CoreInv == Sound(op) /\ Faults /\ JournalTypes /\ ExchangeTypes /\ BuyBooked /\ LotsBooked /\ RowsBooked

-----------------------------------------------------------------------------
(* What one order more, less or changed does to the number of claimed lots. *)

LEMMA CountLots ==
  ASSUME NEW T, IsFiniteSet(T), NEW x, NEW J, IsFiniteSet(J), T \cap ({x} \X J) = {}
  PROVE  Cardinality(T \union ({x} \X J)) = Cardinality(T) + Cardinality(J)
<1> DEFINE L == {x} \X J
<1>1. IsFiniteSet({x}) /\ Cardinality({x}) = 1 /\ Cardinality(J) \in Nat /\ Cardinality(T) \in Nat
  BY FS_Singleton, FS_CardinalityType
<1>2. IsFiniteSet(L) /\ Cardinality(L) = Cardinality({x}) * Cardinality(J)
  BY <1>1, FS_Product
<1>3. Cardinality(T \union L) = Cardinality(T) + Cardinality(L) - Cardinality(T \cap L)
  BY <1>2, FS_Union
<1>4. Cardinality(T \cap L) = 0
  BY FS_EmptySet
<1> QED
  BY <1>1, <1>2, <1>3, <1>4

LEMMA CountInterval ==
  ASSUME NEW a \in Nat, NEW b \in Nat, a <= b
  PROVE  IsFiniteSet((a + 1)..b) /\ Cardinality((a + 1)..b) = b - a
<1>1. a + 1 \in Int /\ b \in Int
  OBVIOUS
<1>2. IsFiniteSet((a + 1)..b) /\ Cardinality((a + 1)..b) = IF a + 1 > b THEN 0 ELSE b - (a + 1) + 1
  BY <1>1, FS_Interval
<1> QED
  BY <1>2

\* The lots an OCO and a SELL have frozen, and those of all OCOs f and SELLs g.
OwnLots(a) == IF a.state \in {"live", "canceling"} THEN a.qty ELSE 0

OpenLots(x) == IF x.state = "live" THEN x.qty - x.acc ELSE 0

AllOwn(f) == {u \in Prots \X (1..MaxUnits) : f[u[1]].state \in {"live", "canceling"} /\ u[2] <= f[u[1]].qty}

AllOpen(g) ==
  {u \in Sells \X (1..MaxUnits) : g[u[1]].state = "live" /\ g[u[1]].acc < u[2] /\ u[2] <= g[u[1]].qty}

LEMMA LotsAre == AlgoLots = AllOwn(algo) /\ SellLots = AllOpen(xsell)
BY DEF AlgoLots, SellLots, AllOwn, AllOpen, LiveAlgos, LiveSells

LEMMA LotsAreNext == AlgoLots' = AllOwn(algo') /\ SellLots' = AllOpen(xsell')
BY DEF AlgoLots, SellLots, AllOwn, AllOpen, LiveAlgos, LiveSells

LEMMA AllFinite ==
  ASSUME NEW f
  PROVE  IsFiniteSet(AllOwn(f)) /\ IsFiniteSet(AllOpen(f))
<1>1. IsFiniteSet(1..MaxProts) /\ IsFiniteSet(1..MaxSells) /\ IsFiniteSet(1..MaxUnits)
  BY ExitConstants, FS_Interval
<1>2. IsFiniteSet((1..MaxProts) \X (1..MaxUnits)) /\ IsFiniteSet((1..MaxSells) \X (1..MaxUnits))
  BY <1>1, FS_Product
<1>3. AllOwn(f) \subseteq (1..MaxProts) \X (1..MaxUnits) /\ AllOpen(f) \subseteq (1..MaxSells) \X (1..MaxUnits)
  BY DEF AllOwn, AllOpen, Prots, Sells
<1> QED
  BY <1>2, <1>3, FS_Subset

LEMMA AlgoCount ==
  ASSUME NEW f, NEW k \in Prots, OwnLots(f[k]) \in Units
  PROVE  Cardinality(AllOwn(f)) = Cardinality({u \in AllOwn(f) : u[1] # k}) + OwnLots(f[k])
<1> DEFINE R == {u \in AllOwn(f) : u[1] # k}
           n == OwnLots(f[k])
<1>1. IsFiniteSet(R)
  BY AllFinite, FS_Subset
<1>2. AllOwn(f) = R \union ({k} \X (1..n))
  <2>1. n \in Nat /\ n <= MaxUnits
    BY ExitConstants DEF Units
  <2>2. ASSUME NEW u \in AllOwn(f), u[1] = k PROVE u \in {k} \X (1..n)
    BY <2>1, <2>2 DEF AllOwn, OwnLots
  <2>3. ASSUME NEW i \in 1..n PROVE <<k, i>> \in AllOwn(f)
    BY <2>1, ExitConstants DEF AllOwn, OwnLots
  <2> QED
    BY <2>2, <2>3
<1>3. n \in Nat
  BY ExitConstants DEF Units
<1>4. R \cap ({k} \X (1..n)) = {}
  OBVIOUS
<1> HIDE DEF R, n
<1>5. IsFiniteSet(1..n) /\ Cardinality(1..n) = n
  BY <1>3, FS_Interval
<1>6. Cardinality(R \union ({k} \X (1..n))) = Cardinality(R) + Cardinality(1..n)
  BY <1>1, <1>4, <1>5, CountLots
<1> QED
  BY <1>2, <1>5, <1>6 DEF R, n

\* What is open of a SELL is there to be asked for.
Open(x) == x.acc \in Nat /\ x.qty \in Nat /\ (x.state = "live" => x.acc < x.qty /\ x.qty <= MaxUnits)

LEMMA SellCount ==
  ASSUME NEW g, NEW s \in Sells, Open(g[s])
  PROVE  Cardinality(AllOpen(g)) = Cardinality({u \in AllOpen(g) : u[1] # s}) + OpenLots(g[s])
<1> DEFINE R == {u \in AllOpen(g) : u[1] # s}
           a == IF g[s].state = "live" THEN g[s].acc ELSE 0
           b == IF g[s].state = "live" THEN g[s].qty ELSE 0
<1>1. IsFiniteSet(R)
  BY AllFinite, FS_Subset
<1>2. a \in Nat /\ b \in Nat /\ a <= b /\ OpenLots(g[s]) = b - a /\ b <= MaxUnits
  BY ExitConstants DEF OpenLots, Open
<1>3. AllOpen(g) = R \union ({s} \X ((a + 1)..b))
  <2>1. ASSUME NEW u \in AllOpen(g), u[1] = s PROVE u \in {s} \X ((a + 1)..b)
    BY <2>1 DEF AllOpen, Open
  <2>2. ASSUME NEW i \in (a + 1)..b PROVE <<s, i>> \in AllOpen(g)
    BY <1>2, ExitConstants DEF AllOpen, Open
  <2> QED
    BY <2>1, <2>2
<1>4. R \cap ({s} \X ((a + 1)..b)) = {}
  OBVIOUS
<1> HIDE DEF R, a, b
<1> DEFINE J == (a + 1)..b
<1>5. IsFiniteSet(J) /\ Cardinality(J) = OpenLots(g[s])
  BY <1>2, CountInterval
<1>6. R \cap ({s} \X J) = {}
  BY <1>4
<1>7. AllOpen(g) = R \union ({s} \X J)
  BY <1>3
<1> HIDE DEF J
<1>8. Cardinality(R \union ({s} \X J)) = Cardinality(R) + Cardinality(J)
  BY <1>1, <1>5, <1>6, CountLots
<1> QED
  BY <1>5, <1>7, <1>8 DEF R

\* One OCO changes, one SELL changes.
LEMMA AlgoMoves ==
  ASSUME NEW k \in Prots, OwnLots(algo[k]) \in Units, OwnLots(algo'[k]) \in Units,
         \A j \in Prots \ {k} : algo'[j] = algo[j]
  PROVE  Cardinality(AlgoLots)' = Cardinality(AlgoLots) - OwnLots(algo[k]) + OwnLots(algo'[k])
<1> DEFINE R == {u \in AllOwn(algo) : u[1] # k}
           n == OwnLots(algo[k])
           m == OwnLots(algo'[k])
<1>1. IsFiniteSet(AllOwn(algo)) /\ IsFiniteSet(R)
  BY AllFinite, FS_Subset
<1>2. Cardinality(R) \in Nat
  BY <1>1, FS_CardinalityType
<1>3. Cardinality(AllOwn(algo)) = Cardinality(R) + n
  BY AlgoCount
<1>4. Cardinality(AllOwn(algo')) = Cardinality(R) + m
  <2>1. {u \in AllOwn(algo') : u[1] # k} = R
    BY DEF AllOwn
  <2>2. Cardinality(AllOwn(algo')) = Cardinality({u \in AllOwn(algo') : u[1] # k}) + m
    BY AlgoCount
  <2> QED
    BY <2>1, <2>2
<1>5. n \in Nat /\ m \in Nat
  BY ExitConstants DEF Units
<1>6. Cardinality(AlgoLots) = Cardinality(AllOwn(algo)) /\ Cardinality(AlgoLots)' = Cardinality(AllOwn(algo'))
  BY LotsAre, LotsAreNext
<1> HIDE DEF R, n, m
<1>7. Cardinality(AlgoLots)' = Cardinality(AlgoLots) - n + m
  BY <1>2, <1>3, <1>4, <1>5, <1>6
<1> QED
  BY <1>7 DEF n, m

LEMMA SellMoves ==
  ASSUME NEW s \in Sells, Open(xsell[s]), Open(xsell'[s]), \A t \in Sells \ {s} : xsell'[t] = xsell[t]
  PROVE  Cardinality(SellLots)' = Cardinality(SellLots) - OpenLots(xsell[s]) + OpenLots(xsell'[s])
<1> DEFINE R == {u \in AllOpen(xsell) : u[1] # s}
           n == OpenLots(xsell[s])
           m == OpenLots(xsell'[s])
<1>1. IsFiniteSet(AllOpen(xsell)) /\ IsFiniteSet(R)
  BY AllFinite, FS_Subset
<1>2. Cardinality(R) \in Nat
  BY <1>1, FS_CardinalityType
<1>3. Cardinality(AllOpen(xsell)) = Cardinality(R) + n
  BY SellCount
<1>4. Cardinality(AllOpen(xsell')) = Cardinality(R) + m
  <2>1. {u \in AllOpen(xsell') : u[1] # s} = R
    BY DEF AllOpen
  <2>2. Cardinality(AllOpen(xsell')) = Cardinality({u \in AllOpen(xsell') : u[1] # s}) + m
    BY SellCount
  <2> QED
    BY <2>1, <2>2
<1>5. n \in Nat /\ m \in Nat
  BY DEF OpenLots, Open
<1>6. Cardinality(SellLots) = Cardinality(AllOpen(xsell)) /\ Cardinality(SellLots)' = Cardinality(AllOpen(xsell'))
  BY LotsAre, LotsAreNext
<1> HIDE DEF R, n, m
<1>7. Cardinality(SellLots)' = Cardinality(SellLots) - n + m
  BY <1>2, <1>3, <1>4, <1>5, <1>6
<1> QED
  BY <1>7 DEF n, m

LEMMA CountsNat == Cardinality(AlgoLots) \in Nat /\ Cardinality(SellLots) \in Nat /\ Claimed \in Nat
<1>1. IsFiniteSet(AlgoLots) /\ IsFiniteSet(SellLots)
  BY LotsAre, AllFinite
<1>2. Cardinality(AlgoLots) \in Nat /\ Cardinality(SellLots) \in Nat
  BY <1>1, FS_CardinalityType
<1> QED
  BY <1>2 DEF Claimed

-----------------------------------------------------------------------------
(* The thread, step by step.                                               *)

\* The steps that do not touch the thread.
Elsewhere ==
  \/ Exchange \/ Watchdog \/ AlgoNews \/ NewBuy \/ Flatten \/ LeaseExpires \/ ExitDeadline

LEMMA ThreadElsewhere == Elsewhere => UNCHANGED op
BY DEF Elsewhere, Exchange, XBuyFill, XBuyEnds, XTrigger, XAlgoEnds, XSellFill, XSellEnds, Watchdog, WatchDetects,
   WatchDeadline, WatchClears, AlgoNews, NewBuy, Flatten, LeaseExpires, ExitDeadline, journal, exchange

LEMMA ThreadReturns == ASSUME Sound(op), Return PROVE Sound(op') /\ op'.pc = op.ret
BY SoundBack DEF Return, Sound

LEMMA ThreadGoes ==
  ASSUME Sound(op), NEW p \in PC, Go(p), p \in Wanting => op.want > 0
  PROVE  Sound(op')
BY SoundPc DEF Go, Sound

LEMMA ThreadRaised == ASSUME Sound(op), op.pc \in Wanting, Raised PROVE Sound(op')
BY ThreadReturns, ThreadGoes DEF Raised, PC, Sound

LEMMA ThreadAnswered ==
  ASSUME Sound(op), NEW k \in Prots, NEW p \in PC, NEW a, NEW d, a \in {"ok", "lost", "no"}, AnswerFor(k, p, a, d),
         p \in Wanting => op.want > 0
  PROVE  Sound(op')
BY SoundAnswer DEF AnswerFor, Sound

LEMMA ThreadCancels ==
  ASSUME Sound(op), NEW k \in Prots, NEW p \in PC, CancelAlgo(k, p), p \in Wanting => op.want > 0
  PROVE  Sound(op')
<1>1. PICK a \in {"ok", "lost", "no"}, d \in {"ok", "no"} : AnswerFor(k, p, a, d)
  BY DEF CancelAlgo, Answered, Unanswered
<1> QED
  BY <1>1, ThreadAnswered

LEMMA ThreadProtects ==
  ASSUME Sound(op), position \in Nat, Protect
  PROVE  Sound(op')
<1>1. op \in Threads /\ op.k \in Prots /\ op.ret \in Rets /\ (op.pc \in Wanting => op.want > 0)
  BY DEF Sound, Threads
<1>2. Protecting \subseteq PC /\ Protecting \subseteq Wanting /\ {"cancel", "canceled"} \subseteq PC \ Wanting
  BY DEF PC, Wanting, Protecting
<1>3. ActiveOnly \in SUBSET Prots /\ Actives \in SUBSET Prots /\ Unsettled \in SUBSET Prots /\ FreeProts \in SUBSET Prots
  BY DEF ActiveOnly, Actives, Unsettled, FreeProts
<1>4. ASSUME NEW k \in Prots, op.pc \in Protecting, StartAmend(k) PROVE Sound(op')
  BY <1>1, <1>2, <1>4, SoundPcK DEF StartAmend, Protecting
<1>5. ASSUME NEW p \in Protecting, op.pc \in Protecting, Go(p) PROVE Sound(op')
  BY <1>1, <1>2, <1>5, ThreadGoes
<1>6. CASE EnsureRefused
  BY <1>2, <1>6, ThreadRaised DEF EnsureRefused, At, Protecting
<1>7. CASE EnsureActive
  <2>1. op.pc \in Protecting /\ (Return \/ \E k \in Prots : StartAmend(k))
    BY <1>3, <1>7, MinRow DEF EnsureActive, At, Protecting
  <2> QED
    BY <1>4, <2>1, ThreadReturns
<1>8. CASE EnsureBlocked
  <2>1. op.pc \in Protecting /\ (Raised \/ Return \/ \E k \in Prots : StartAmend(k))
    BY <1>3, <1>8, MinRow DEF EnsureBlocked, At, Protecting
  <2> QED
    BY <1>2, <1>4, <2>1, ThreadReturns, ThreadRaised
<1>9. CASE EnsureNew
  <2>1. CASE FreeProts = {}
    BY <1>5, <1>9, <2>1 DEF EnsureNew, At, Protecting
  <2>2. CASE FreeProts # {}
    <3>1. PICK k \in Prots : op' = [op EXCEPT !.pc = "submit", !.k = k]
      BY <1>3, <1>9, <2>2, MinRow DEF EnsureNew
    <3>2. op.pc \in Protecting /\ "submit" \in Protecting
      BY <1>9 DEF EnsureNew, At, Protecting
    <3> QED
      BY <1>1, <1>2, <3>1, <3>2, SoundPcK
  <2> QED
    BY <2>1, <2>2
<1>10. CASE MarkSubmitting
  BY <1>5, <1>10 DEF MarkSubmitting, At, Protecting
<1>11. CASE Place \/ Amend
  <2>1. PICK p \in {"placed", "amended"}, a \in {"ok", "lost", "no"}, d \in {"ok", "no"} : Answer(p, a, d)
    BY <1>11 DEF Place, Amend, Answered, Unanswered
  <2>2. op.pc \in Protecting /\ p \in Protecting
    BY <1>11 DEF Place, Amend, At, Protecting
  <2> QED
    BY <1>1, <1>2, <2>1, <2>2, ThreadAnswered DEF Answer
<1>12. CASE PlacedSeen \/ PlacedUnresolved \/ PlacedRefused \/ AmendSeen \/ AmendFailed \/ AbortSeen \/ AbortFailed
            \/ EmergencySell
  <2>1. op.pc \in Protecting
    BY <1>12 DEF PlacedSeen, PlacedUnresolved, PlacedRefused, AmendSeen, AmendFailed, AbortSeen, AbortFailed,
       EmergencySell, At, Protecting
  <2>2. Return \/ Raised \/ \E p \in {"abort", "esell"} : Go(p)
    BY <1>12 DEF PlacedSeen, PlacedUnresolved, PlacedRefused, AmendSeen, AmendFailed, AbortSeen, AbortFailed,
       EmergencySell, GiveUp
  <2> QED
    BY <1>2, <1>5, <2>1, <2>2, ThreadReturns, ThreadRaised DEF Protecting
<1>13. CASE Abort
  BY <1>1, <1>2, <1>13, ThreadCancels DEF Abort, At, Protecting
<1>14. CASE CancelNext
  <2>1. op.left \in SUBSET Prots
    BY <1>1 DEF Threads
  <2>2. CASE op.left = {}
    BY <1>14, <2>2, ThreadReturns DEF CancelNext
  <2>3. CASE op.left # {} /\ CancelAlgo(Min(op.left), "canceled")
    BY <1>2, <2>1, <2>3, MinRow, ThreadCancels
  <2>4. CASE op' = [op EXCEPT !.left = @ \ {Min(op.left)}, !.ok = FALSE]
    BY <1>1, <2>1, <2>4 DEF Sound, Threads
  <2> QED
    BY <1>14, <2>2, <2>3, <2>4 DEF CancelNext
<1>15. CASE CancelAnswered
  <2>1. PICK g : op' = [op EXCEPT !.pc = "cancel", !.left = @ \ {op.k}, !.ok = @ /\ g]
    BY <1>15, Zenon DEF CancelAnswered
  <2>2. op' \in Threads
    <3>1. op.ok \in BOOLEAN /\ (op.ok /\ g) \in BOOLEAN /\ op.left \ {op.k} \in SUBSET Prots
      BY <1>1 DEF Threads
    <3>2. op' = [op EXCEPT !.pc = "cancel", !.left = op.left \ {op.k}, !.ok = op.ok /\ g]
      BY <2>1
    <3> QED
      BY <1>1, <1>2, <3>1, <3>2 DEF Threads
  <2>3. op'.pc = "cancel" /\ op'.ret = op.ret
    BY <1>1, <2>1 DEF Threads
  <2> QED
    BY <1>1, <1>2, <2>2, <2>3 DEF Sound
<1> QED
  BY <1>6, <1>7, <1>8, <1>9, <1>10, <1>11, <1>12, <1>13, <1>14, <1>15 DEF Protect

\* A fill that is stored moves the position by natural numbers.
LEMMA BoughtNat ==
  ASSUME JournalTypes, ExchangeTypes, NEW a \in Nat, a > buy.acc
  PROVE  position + (a - buy.acc) \in Nat \ {0}
<1>1. position \in Nat /\ buy.acc \in Nat
  BY DEF JournalTypes
<1> QED
  BY <1>1

LEMMA SoldNat ==
  ASSUME JournalTypes, ExchangeTypes, NEW s \in Sells, SyncSell(s)
  PROVE  position' \in Nat
<1>1. position \in Nat /\ sell[s].acc \in Nat /\ xsell[s].acc \in Nat
  BY DEF JournalTypes, ExchangeTypes
<1> DEFINE sold == xsell[s].acc - sell[s].acc
<1>2. sold \in Int /\ position' = IF sold < position THEN position - sold ELSE 0
  BY <1>1 DEF SyncSell
<1> HIDE DEF sold
<1> QED
  BY <1>1, <1>2

LEMMA ThreadExits ==
  ASSUME CoreInv, Exit
  PROVE  Sound(op')
<1>1. /\ op \in Threads /\ op.k \in Prots /\ op.ret \in Rets /\ op.todo \in SUBSET Prots /\ Sound(op)
      /\ JournalTypes /\ ExchangeTypes
  BY DEF CoreInv, Sound, Threads
<1>2. {"xopen", "xsells", "xbuycancel", "xt1", "xt2", "xreturn", "xbuyanswer", "cancel"} \subseteq PC \ Wanting
  BY DEF PC, Wanting, Protecting
<1>3. ASSUME NEW p \in PC \ Wanting, Go(p) PROVE Sound(op')
  BY <1>1, <1>3, ThreadGoes
<1>4. ASSUME NEW r \in {"filled", "raised", "other", "open"}, Leave(r) PROVE Sound(op')
  <2>1. op' = [op EXCEPT !.pc = "xreturn", !.result = r]
    BY <1>4 DEF Leave
  <2>2. op' \in Threads /\ op'.pc = "xreturn" /\ op'.ret = op.ret
    BY <1>1, <1>2, <2>1 DEF Threads
  <2> QED
    BY <1>1, <1>2, <2>2 DEF Sound
<1>5. CASE ExitResolvesBuy
  <2>1. \E p \in {"xopen", "xbuycancel", "xsells"} : Go(p)
    BY <1>5 DEF ExitResolvesBuy
  <2> QED
    BY <1>2, <1>3, <2>1
<1>6. CASE ExitCancelsBuy
  <2>1. PICK a \in {"ok", "lost"} : Answer("xbuyanswer", a, "ok")
    BY <1>6 DEF ExitCancelsBuy
  <2> QED
    BY <1>1, <1>2, <2>1, ThreadAnswered DEF Answer
<1>7. CASE ExitBuyAnswered
  <2>1. PICK next \in {"xopen", "xsells"} :
          Go(next) \/ (SyncBuy /\ xbuy.acc > buy.acc /\ op' = AfterBuy(op, position', next))
    BY <1>7 DEF ExitBuyAnswered
  <2>2. CASE Go(next)
    BY <1>2, <1>3, <2>1, <2>2
  <2>3. CASE SyncBuy /\ xbuy.acc > buy.acc /\ op' = AfterBuy(op, position', next)
    <3>1. xbuy.acc \in Nat
      BY <1>1 DEF ExchangeTypes
    <3>2. position' \in Nat \ {0}
      BY <1>1, <2>3, <3>1, BoughtNat DEF SyncBuy
    <3>3. next \in Rets
      BY DEF Rets
    <3> QED
      BY <1>1, <2>3, <3>2, <3>3, SoundAfterBuy
  <2> QED
    BY <2>1, <2>2, <2>3
<1>8. CASE ExitResolvesSells
  <2>1. op' = Settle(op, "xt1") \/ Go("xopen") \/ Leave("filled") \/ UNCHANGED op
    BY <1>8 DEF ExitResolvesSells
  <2>2. CASE op' = Settle(op, "xt1")
    <3>1. Rows \in SUBSET Prots
      BY DEF Rows
    <3>2. op' \in Threads /\ op'.pc = "xt1" /\ op'.ret = op.ret
      BY <1>1, <1>2, <2>2, <3>1 DEF Settle, Threads
    <3> QED
      BY <1>1, <1>2, <3>2 DEF Sound
  <2> QED
    BY <1>1, <1>2, <1>3, <1>4, <2>1, <2>2
<1>9. CASE ExitSkipsRow \/ ExitCancelsAll
  <2>1. CASE ExitSkipsRow
    <3>1. op' = [op EXCEPT !.todo = @ \ {Min(op.todo)}] /\ op.pc \notin Wanting
      BY <1>2, <2>1 DEF ExitSkipsRow
    <3>2. op' \in Threads /\ op'.pc = op.pc /\ op'.ret = op.ret
      BY <1>1, <3>1 DEF Threads
    <3> QED
      BY <1>1, <3>1, <3>2 DEF Sound
  <2>2. CASE ExitCancelsAll
    <3>1. ActiveOnly \in SUBSET Prots /\ "xcanceled" \in Rets
      BY DEF ActiveOnly, Rets
    <3> QED
      BY <1>1, <2>2, <3>1, SoundCancel DEF ExitCancelsAll
  <2> QED
    BY <1>9, <2>1, <2>2
<1>10. CASE ExitSeesTrigger
  BY <1>1, <1>4, <1>10 DEF ExitSeesTrigger
<1>11. CASE ExitSettlesTrigger
  <2> DEFINE k == Min(op.todo)
             s == algo[k].child
             r == IF xsell[s].state = "filled" THEN "filled" ELSE "none"
             on == [op EXCEPT !.todo = @ \ {k}, !.result = r]
             next == IF xsell[s].state = "live" THEN "xopen"
                     ELSE IF xsell[s].state = "filled" THEN "xreturn" ELSE op.pc
  <2>1. k \in Prots /\ s \in Sells
    <3>1. k \in Prots /\ prot[k].state = "triggered"
      BY <1>1, <1>11, MinRow DEF ExitSettlesTrigger
    <3> QED
      BY <3>1 DEF CoreInv, RowsBooked
  <2>2. on \in Threads /\ on.ret = op.ret
    BY <1>1 DEF Threads
  <2>3. next \in Rets /\ next \in PC /\ next \notin Wanting
    BY <1>11 DEF ExitSettlesTrigger, Rets, PC, Wanting, Protecting
  <2>4. Go("xopen") \/ (SyncSell(s) /\ (op' = AfterSell(on, position', next) \/ op' = [on EXCEPT !.pc = next]))
    BY <1>11 DEF ExitSettlesTrigger
  <2> HIDE DEF on, next, s
  <2>5. CASE Go("xopen")
    BY <1>2, <1>3, <2>5
  <2>6. CASE SyncSell(s) /\ op' = AfterSell(on, position', next)
    BY <1>1, <2>1, <2>2, <2>3, <2>6, SoldNat, SoundAfterSell
  <2>7. CASE op' = [on EXCEPT !.pc = next]
    BY <1>1, <2>2, <2>3, <2>7, SoundPc
  <2> QED
    BY <2>4, <2>5, <2>6, <2>7
<1>12. CASE ExitCanceled
  <2>1. Rows \in SUBSET Prots /\ op.ok \in BOOLEAN
    BY <1>1 DEF Rows, Threads
  <2>2. op' = [[op EXCEPT !.pc = "xt2", !.todo = Rows] EXCEPT !.free = op.ok]
    BY <1>12 DEF ExitCanceled, Settle
  <2>3. op' \in Threads /\ op'.pc = "xt2" /\ op'.ret = op.ret
    BY <1>1, <1>2, <2>1, <2>2 DEF Threads
  <2> QED
    BY <1>1, <1>2, <2>3 DEF Sound
<1>13. CASE ExitCounts
  <2>1. CASE \E r \in {"raised", "other"} : Leave(r)
    BY <1>4, <2>1
  <2>2. CASE ~\E r \in {"raised", "other"} : Leave(r)
    <3> DEFINE w == IF position < Available THEN position ELSE Available
    <3>1. op' = [op EXCEPT !.pc = "xsell", !.want = w] /\ position # 0 /\ Available # 0
      BY <1>13, <2>2 DEF ExitCounts
    <3>2. position \in Nat /\ Available \in Nat
      <4>1. base \in Nat /\ Claimed <= base
        BY <1>1 DEF CoreInv, LotsBooked, ExchangeTypes
      <4>2. position \in Nat
        BY <1>1 DEF JournalTypes
      <4>3. Claimed \in Nat
        BY CountsNat
      <4> QED
        BY <4>1, <4>2, <4>3 DEF Available
    <3>3. w \in Nat /\ w > 0
      BY <3>1, <3>2
    <3> HIDE DEF w
    <3>4. op' \in Threads /\ op'.ret = op.ret /\ op'.want = w
      BY <1>1, <3>1, <3>3 DEF Threads, PC
    <3> QED
      BY <1>1, <3>3, <3>4 DEF Sound
  <2> QED
    BY <2>1, <2>2
<1>14. CASE ExitSell
  BY <1>4, <1>14 DEF ExitSell
<1>15. CASE ExitReturn
  BY <1>15, IdleSound DEF ExitReturn
<1> QED
  BY <1>5, <1>6, <1>7, <1>8, <1>9, <1>10, <1>11, <1>12, <1>13, <1>14, <1>15 DEF Exit

LEMMA ThreadReconciles ==
  ASSUME CoreInv, Reconcile
  PROVE  Sound(op')
<1>1. /\ op \in Threads /\ op.k \in Prots /\ op.ret \in Rets /\ op.left \in SUBSET Prots /\ op.safe \in BOOLEAN
      /\ Sound(op) /\ position \in Nat
  BY DEF CoreInv, Sound, Threads, JournalTypes
<1>2. {"ralgos", "rremote", "rlocal", "rcanceled", "rend"} \subseteq PC \ Wanting
      /\ {"rremote", "rlocal", "rend"} \subseteq Rets
  BY DEF PC, Wanting, Protecting, Rets
<1>3. ASSUME NEW g, Looked(g), op.pc \notin Wanting PROVE Sound(op')
  <2>1. (op.safe /\ g) \in BOOLEAN /\ op.left \ {Min(op.left)} \in SUBSET Prots
    BY <1>1
  <2>2. op' = [op EXCEPT !.left = op.left \ {Min(op.left)}, !.safe = op.safe /\ g]
    BY <1>3 DEF Looked
  <2>3. op' \in Threads /\ op'.pc = op.pc /\ op'.ret = op.ret
    BY <1>1, <2>1, <2>2 DEF Threads
  <2> QED
    BY <1>1, <1>3, <2>3 DEF Sound
<1>4. CASE RecOrders
  <2>1. PICK g \in BOOLEAN : op' = [op EXCEPT !.pc = "ralgos", !.want = 0, !.safe = g]
    BY <1>4 DEF RecOrders
  <2>2. op' \in Threads /\ op'.pc = "ralgos" /\ op'.ret = op.ret
    BY <1>1, <1>2, <2>1 DEF Threads
  <2> QED
    BY <1>1, <1>2, <2>2 DEF Sound
<1>5. CASE RecAlgos
  <2>1. LiveAlgos \in SUBSET Prots /\ (op.safe /\ Cardinality(LiveAlgos) <= 1) \in BOOLEAN
    BY DEF LiveAlgos
  <2>2. op' = [op EXCEPT !.pc = "rremote", !.ret = "rremote", !.left = LiveAlgos, !.todo = LiveAlgos,
                         !.safe = op.safe /\ Cardinality(LiveAlgos) <= 1]
    BY <1>5 DEF RecAlgos
  <2>3. op' \in Threads /\ op'.pc = "rremote" /\ op'.ret = "rremote"
    BY <1>1, <1>2, <2>1, <2>2 DEF Threads
  <2> QED
    BY <1>2, <2>3 DEF Sound
<1>6. CASE RecRemote
  <2>1. CASE CancelAlgo(Min(op.left), "rcanceled")
    BY <1>1, <1>2, <1>6, <2>1, MinRow, ThreadCancels DEF RecRemote
  <2>2. CASE ~CancelAlgo(Min(op.left), "rcanceled")
    <3>1. (\E g : Looked(g)) /\ op.pc = "rremote"
      BY <1>6, <2>2 DEF RecRemote, At
    <3> QED
      BY <1>2, <1>3, <3>1
  <2> QED
    BY <2>1, <2>2
<1>7. CASE RecCanceled
  <2>1. PICK g \in BOOLEAN : op' = [op EXCEPT !.pc = op.ret, !.left = @ \ {op.k}, !.safe = op.safe /\ g]
    BY <1>7 DEF RecCanceled
  <2>2. op.ret \in PC \ Wanting
    BY <1>1 DEF Rets, PC, Wanting, Protecting
  <2>3. op' \in Threads /\ op'.pc = op.ret /\ op'.ret = op.ret
    BY <1>1, <2>1, <2>2 DEF Threads
  <2> QED
    BY <1>1, <2>2, <2>3 DEF Sound
<1>8. CASE RecRemoteDone
  <2>1. Rows \in SUBSET Prots /\ (op.safe /\ Cardinality(ActiveOnly) <= 1) \in BOOLEAN
    BY DEF Rows
  <2>2. op' = [op EXCEPT !.pc = "rlocal", !.ret = "rlocal", !.left = Rows,
                         !.safe = op.safe /\ Cardinality(ActiveOnly) <= 1]
    BY <1>8 DEF RecRemoteDone
  <2>3. op' \in Threads /\ op'.pc = "rlocal" /\ op'.ret = "rlocal"
    BY <1>1, <1>2, <2>1, <2>2 DEF Threads
  <2> QED
    BY <1>2, <2>3 DEF Sound
<1>9. CASE RecLocal
  <2>1. CASE CancelAlgo(Min(op.left), "rcanceled")
    BY <1>1, <1>2, <1>9, <2>1, MinRow, ThreadCancels DEF RecLocal
  <2>2. CASE ~CancelAlgo(Min(op.left), "rcanceled")
    <3>1. (\E g : Looked(g)) /\ op.pc = "rlocal"
      BY <1>9, <2>2, Zenon DEF RecLocal, At
    <3> QED
      BY <1>2, <1>3, <3>1
  <2> QED
    BY <2>1, <2>2
<1>10. CASE RecLocalDone
  <2>1. \/ position > 0 /\ op' = [op EXCEPT !.pc = "ensure", !.want = position, !.ret = "rend"]
        \/ op' = [op EXCEPT !.pc = "rend"]
    BY <1>10 DEF RecLocalDone
  <2>2. CASE position > 0 /\ op' = [op EXCEPT !.pc = "ensure", !.want = position, !.ret = "rend"]
    <3>1. "ensure" \in PC /\ "rend" \in PC
      BY DEF PC
    <3>2. op' \in Threads
      BY <1>1, <2>2, <3>1 DEF Threads
    <3>3. op'.ret = "rend" /\ op'.want = position
      BY <1>1, <2>2 DEF Threads
    <3> QED
      BY <1>2, <2>2, <3>2, <3>3 DEF Sound
  <2> QED
    BY <1>1, <1>2, <2>1, <2>2, SoundPc
<1>11. CASE RecEnd
  BY <1>11, IdleSound DEF RecEnd
<1> QED
  BY <1>4, <1>5, <1>6, <1>7, <1>8, <1>9, <1>10, <1>11 DEF Reconcile

LEMMA ThreadBegins ==
  ASSUME CoreInv, ExitBegin \/ RecBegin \/ BuyNews \/ SellNews \/ Crash
  PROVE  Sound(op')
<1>1. op \in Threads /\ op.ret \in Rets /\ Sound(op) /\ JournalTypes /\ ExchangeTypes /\ "idle" \in Rets
  BY DEF CoreInv, Sound, Rets
<1>2. Idle \in Threads /\ Idle.ret = "idle"
  BY IdleSound DEF Sound
<1>3. {"xbuys", "rorders", "restarted"} \subseteq PC \ Wanting
  BY DEF PC, Wanting, Protecting
<1>4. CASE ExitBegin
  <2>1. UNCHANGED op \/ op' = [Idle EXCEPT !.pc = "xbuys"] \/ op' = [Idle EXCEPT !.pc = "xbuys", !.by = "task"]
    BY <1>4 DEF ExitBegin
  <2>2. CASE op' = [Idle EXCEPT !.pc = "xbuys"]
    BY <1>1, <1>2, <1>3, <2>2, SoundPc
  <2>3. CASE op' = [Idle EXCEPT !.pc = "xbuys", !.by = "task"]
    <3>1. op' \in Threads /\ op'.pc = "xbuys" /\ op'.ret = "idle"
      BY <1>2, <1>3, <2>3 DEF Threads
    <3> QED
      BY <1>1, <1>3, <3>1 DEF Sound
  <2> QED
    BY <1>1, <2>1, <2>2, <2>3
<1>5. CASE RecBegin
  <2>1. op' = [Idle EXCEPT !.pc = "rorders", !.ctx = "rec", !.want = base] /\ base \in Nat
    BY <1>1, <1>5 DEF RecBegin, ExchangeTypes
  <2>2. op' \in Threads /\ op'.pc = "rorders" /\ op'.ret = "idle"
    BY <1>2, <1>3, <2>1 DEF Threads
  <2> QED
    BY <1>1, <1>3, <2>2 DEF Sound
<1>6. CASE BuyNews
  <2>1. PICK a \in buy.acc..xbuy.acc :
          position' = position + (a - buy.acc) /\ op' = IF a > buy.acc THEN AfterBuy(Idle, position', "idle") ELSE op
    BY <1>6 DEF BuyNews
  <2>2. a \in Nat
    BY <1>1 DEF JournalTypes, ExchangeTypes
  <2>3. a > buy.acc => position' \in Nat \ {0}
    BY <1>1, <2>1, <2>2, BoughtNat
  <2> QED
    BY <1>1, <1>2, <2>1, <2>3, SoundAfterBuy
<1>7. CASE SellNews
  <2>1. PICK s \in Sells : SyncSell(s) /\ (op' = AfterSell(Idle, position', "idle") \/ UNCHANGED op)
    BY <1>7 DEF SellNews
  <2>2. position' \in Nat
    BY <1>1, <2>1, SoldNat
  <2> QED
    BY <1>1, <1>2, <2>1, <2>2, SoundAfterSell
<1>8. CASE Crash
  BY <1>1, <1>2, <1>3, <1>8, SoundPc DEF Crash
<1> QED
  BY <1>4, <1>5, <1>6, <1>7, <1>8

LEMMA ThreadStep ==
  ASSUME CoreInv, Next
  PROVE  Sound(op')
<1>1. Sound(op) /\ position \in Nat
  BY DEF CoreInv, JournalTypes
<1>2. CASE Elsewhere
  <2>1. UNCHANGED op
    BY <1>2, ThreadElsewhere
  <2> QED
    BY <1>1, <2>1
<1> QED
  BY <1>1, <1>2, ThreadProtects, ThreadExits, ThreadReconciles, ThreadBegins DEF Next, Elsewhere

-----------------------------------------------------------------------------
(* The exchange: no order claims a lot that is not there.                  *)

AlgoTypes ==
  [state : {"none", "live", "canceling", "triggered", "canceled", "failed"},
   qty : Nat, past : SUBSET Nat, child : Sells \union {0}, misread : BOOLEAN]

SellTypes == [state : {"none", "live", "filled", "canceled"}, qty : Nat, acc : Nat]

LEMMA Booked ==
  ASSUME CoreInv
  PROVE  /\ base \in Nat /\ base <= MaxUnits /\ Claimed \in Nat /\ Claimed <= base
         /\ Available \in Nat /\ Available = base - Claimed
         /\ \A k \in Prots : algo[k] \in AlgoTypes /\ OwnLots(algo[k]) \in Units
         /\ \A s \in Sells : xsell[s] \in SellTypes /\ Open(xsell[s])
<1>1. base \in Nat /\ Claimed \in Nat /\ Claimed <= base
  BY CountsNat DEF CoreInv, ExchangeTypes, LotsBooked
<1>2. base <= MaxUnits
  <2>1. xbuy.qty \in Nat /\ xbuy.acc \in Nat /\ xbuy.asked \in Nat /\ MaxUnits \in Nat
    BY ExitConstants DEF CoreInv, ExchangeTypes
  <2> QED
    BY <1>1, <2>1 DEF CoreInv, BuyBooked
<1>3. Available \in Nat /\ Available = base - Claimed
  BY <1>1 DEF Available
<1>4. ASSUME NEW k \in Prots PROVE algo[k] \in AlgoTypes /\ OwnLots(algo[k]) \in Units
  <2>1. algo[k] \in AlgoTypes
    BY DEF CoreInv, ExchangeTypes, AlgoTypes
  <2>2. CASE k \in LiveAlgos
    BY <2>1, <2>2, ExitConstants DEF CoreInv, LotsBooked, OwnLots, Units, LiveAlgos
  <2>3. CASE k \notin LiveAlgos
    BY <2>1, <2>3, ExitConstants DEF OwnLots, Units, LiveAlgos
  <2> QED
    BY <2>1, <2>2, <2>3
<1>5. ASSUME NEW s \in Sells PROVE xsell[s] \in SellTypes /\ Open(xsell[s])
  BY DEF CoreInv, ExchangeTypes, SellTypes, Open, LotsBooked, LiveSells
<1> QED
  BY <1>1, <1>2, <1>3, <1>4, <1>5

\* No fewer lots are free to be sold.
Freer == base' - Claimed' >= base - Claimed

LEMMA MoreFree == \A a, b, c \in Nat : b >= a => b - c >= a - c
OBVIOUS

LEMMA StillFree ==
  ASSUME NEW w \in Nat, NEW a \in Nat, NEW b \in Nat, NEW c \in Nat, NEW d \in Nat,
         b <= a, d <= c, c - d >= a - b, w <= a - b
  PROVE  w <= IF d < c THEN c - d ELSE 0
OBVIOUS

\* One OCO becomes a, which freezes no lot that another order has frozen.
LEMMA OneAlgo ==
  ASSUME CoreInv, UNCHANGED <<base, xbuy, xsell>>, NEW k \in Prots, NEW a \in AlgoTypes,
         algo' = [algo EXCEPT ![k] = a], OwnLots(a) \in Units,
         a.state \in {"live", "canceling"} => a.qty > 0,
         OwnLots(a) <= OwnLots(algo[k]) + Available
  PROVE  ExchangeTypes' /\ LotsBooked' /\ (OwnLots(a) <= OwnLots(algo[k]) => Freer)
<1>1. algo \in [Prots -> AlgoTypes]
  BY DEF CoreInv, ExchangeTypes, AlgoTypes
<1>2. algo' \in [Prots -> AlgoTypes] /\ algo'[k] = a /\ \A j \in Prots \ {k} : algo'[j] = algo[j]
  BY <1>1
<1>3. ExchangeTypes'
  BY <1>2 DEF CoreInv, ExchangeTypes, AlgoTypes
<1>4. LiveSells' = LiveSells /\ SellLots' = SellLots
  BY DEF LiveSells, SellLots
<1>5. Claimed' <= base' /\ (OwnLots(a) <= OwnLots(algo[k]) => Freer)
  <2> DEFINE n == OwnLots(algo[k])
             m == OwnLots(a)
  <2>1. OwnLots(algo[k]) \in Units /\ OwnLots(algo'[k]) \in Units
    BY <1>2, Booked
  <2>2. Cardinality(AlgoLots)' = Cardinality(AlgoLots) - n + m
    BY <1>2, <2>1, AlgoMoves
  <2>3. n \in Nat /\ m \in Nat
    BY <2>1, ExitConstants DEF Units
  <2>4. Cardinality(SellLots)' = Cardinality(SellLots)
    BY <1>4
  <2>5. m <= n + (base - Claimed) /\ base \in Nat
    BY Booked
  <2> HIDE DEF n, m
  <2>6. Claimed' = Claimed - n + m /\ Claimed \in Nat
    BY <2>2, <2>3, <2>4, CountsNat DEF Claimed
  <2>7. Claimed' <= base
    BY <2>3, <2>5, <2>6
  <2>8. m <= n => base - Claimed' >= base - Claimed
    BY <2>3, <2>5, <2>6
  <2> QED
    BY <2>7, <2>8 DEF Freer, n, m
<1>6. ASSUME NEW j \in LiveAlgos' PROVE algo'[j].qty \in 1..MaxUnits
  <2>1. CASE j = k
    <3>1. OwnLots(a) = a.qty /\ a.qty > 0 /\ a.qty \in Nat
      BY <1>2, <1>6, <2>1 DEF LiveAlgos, OwnLots, AlgoTypes
    <3> QED
      BY <1>2, <2>1, <3>1, ExitConstants DEF Units
  <2>2. CASE j # k
    BY <1>2, <1>6, <2>2 DEF CoreInv, LotsBooked, LiveAlgos
  <2> QED
    BY <2>1, <2>2
<1>7. \A s \in LiveSells' : xsell'[s].acc < xsell'[s].qty /\ xsell'[s].qty <= MaxUnits
  BY <1>4 DEF CoreInv, LotsBooked
<1> QED
  BY <1>3, <1>5, <1>6, <1>7 DEF LotsBooked

\* One SELL becomes x, which freezes no lot that another order has frozen.
LEMMA OneSell ==
  ASSUME CoreInv, UNCHANGED <<base, xbuy, algo>>, NEW s \in Sells, NEW x \in SellTypes,
         xsell' = [xsell EXCEPT ![s] = x], Open(x), OpenLots(x) <= OpenLots(xsell[s]) + Available
  PROVE  ExchangeTypes' /\ LotsBooked' /\ (OpenLots(x) <= OpenLots(xsell[s]) => Freer)
<1>1. xsell \in [Sells -> SellTypes]
  BY DEF CoreInv, ExchangeTypes, SellTypes
<1>2. xsell' \in [Sells -> SellTypes] /\ xsell'[s] = x /\ \A t \in Sells \ {s} : xsell'[t] = xsell[t]
  BY <1>1
<1>3. ExchangeTypes'
  BY <1>2 DEF CoreInv, ExchangeTypes, SellTypes
<1>4. LiveAlgos' = LiveAlgos /\ AlgoLots' = AlgoLots
  BY DEF LiveAlgos, AlgoLots
<1>5. Claimed' <= base' /\ (OpenLots(x) <= OpenLots(xsell[s]) => Freer)
  <2> DEFINE n == OpenLots(xsell[s])
             m == OpenLots(x)
  <2>1. Open(xsell[s]) /\ Open(xsell'[s])
    BY <1>2, Booked
  <2>2. Cardinality(SellLots)' = Cardinality(SellLots) - n + m
    BY <1>2, <2>1, SellMoves
  <2>3. n \in Nat /\ m \in Nat
    BY <2>1 DEF Open, OpenLots
  <2>4. Cardinality(AlgoLots)' = Cardinality(AlgoLots)
    BY <1>4
  <2>5. m <= n + (base - Claimed) /\ base \in Nat
    BY Booked
  <2> HIDE DEF n, m
  <2>6. Claimed' = Claimed - n + m /\ Claimed \in Nat
    BY <2>2, <2>3, <2>4, CountsNat DEF Claimed
  <2>7. Claimed' <= base
    BY <2>3, <2>5, <2>6
  <2>8. m <= n => base - Claimed' >= base - Claimed
    BY <2>3, <2>5, <2>6
  <2> QED
    BY <2>7, <2>8 DEF Freer, n, m
<1>6. ASSUME NEW t \in LiveSells' PROVE xsell'[t].acc < xsell'[t].qty /\ xsell'[t].qty <= MaxUnits
  BY <1>2, <1>6 DEF CoreInv, LotsBooked, LiveSells, Open
<1>7. \A k \in LiveAlgos' : algo'[k].qty \in 1..MaxUnits
  BY <1>4 DEF CoreInv, LotsBooked
<1> QED
  BY <1>3, <1>5, <1>6, <1>7 DEF LotsBooked

LEMMA CancelBooked ==
  ASSUME CoreInv, UNCHANGED <<base, xbuy, xsell>>, NEW k \in Prots, NEW p, CancelAlgo(k, p)
  PROVE  ExchangeTypes' /\ LotsBooked'
<1>1. CASE UNCHANGED algo
  BY <1>1 DEF CoreInv, ExchangeTypes, LotsBooked, LiveAlgos, LiveSells, Claimed, AlgoLots, SellLots
<1>2. CASE ~UNCHANGED algo
  <2>1. k \in LiveAlgos /\ algo' = [algo EXCEPT ![k].state = "canceling"]
    BY <1>2, Zenon DEF CancelAlgo
  <2> DEFINE a == [algo[k] EXCEPT !.state = "canceling"]
  <2>2. algo[k] \in AlgoTypes /\ OwnLots(algo[k]) \in Units /\ Available \in Nat /\ algo[k].qty > 0
    BY <2>1, Booked DEF CoreInv, LotsBooked
  <2>3. a \in AlgoTypes /\ a.state = "canceling" /\ a.qty = algo[k].qty
    BY <2>2 DEF AlgoTypes
  <2>4. OwnLots(a) = OwnLots(algo[k])
    BY <2>1, <2>3 DEF OwnLots, LiveAlgos
  <2>5. OwnLots(a) <= OwnLots(algo[k]) + Available
    BY <2>2, <2>4, ExitConstants DEF Units
  <2>6. algo' = [algo EXCEPT ![k] = a]
    BY <2>1
  <2> HIDE DEF a
  <2> QED
    BY <2>2, <2>3, <2>4, <2>5, <2>6, OneAlgo
<1> QED
  BY <1>1, <1>2

LEMMA SubmitBooked ==
  ASSUME CoreInv, UNCHANGED <<base, xbuy, algo>>, NEW s \in Sells, s \in FreeSells, SubmitSell(s), op.want > 0
  PROVE  ExchangeTypes' /\ LotsBooked'
<1>1. CASE UNCHANGED xsell
  BY <1>1 DEF CoreInv, ExchangeTypes, LotsBooked, LiveAlgos, LiveSells, Claimed, AlgoLots, SellLots
<1>2. CASE ~UNCHANGED xsell
  <2> DEFINE x == [state |-> "live", qty |-> op.want, acc |-> 0]
  <2>1. op.want <= Available /\ xsell' = [xsell EXCEPT ![s] = x]
    BY <1>2, Zenon DEF SubmitSell
  <2>2. op.want \in Nat /\ Available \in Nat /\ base \in Nat /\ Claimed \in Nat /\ base <= MaxUnits /\ Available = base - Claimed
    BY Booked DEF CoreInv, Sound, Threads
  <2>3. x \in SellTypes
    BY <2>2 DEF SellTypes
  <2>4. op.want <= MaxUnits
    BY <2>1, <2>2, ExitConstants
  <2>5. Open(x) /\ OpenLots(x) = op.want /\ OpenLots(xsell[s]) = 0
    BY <2>2, <2>4 DEF Open, OpenLots, FreeSells
  <2>6. OpenLots(x) <= OpenLots(xsell[s]) + Available
    BY <2>1, <2>2, <2>5
  <2> HIDE DEF x
  <2> QED
    BY <2>1, <2>3, <2>5, <2>6, OneSell
<1> QED
  BY <1>1, <1>2

\* The steps that leave the exchange and the journal's BUY alone.
ExchangeRests == UNCHANGED <<buy, exchange>>

LEMMA RestBooked ==
  ASSUME CoreInv, ExchangeRests
  PROVE  ExchangeTypes' /\ BuyBooked' /\ LotsBooked'
BY DEF ExchangeRests, exchange, CoreInv, ExchangeTypes, BuyBooked, LotsBooked, LiveAlgos, LiveSells, Claimed,
   AlgoLots, SellLots

\* The steps in which only an OCO or a SELL of the exchange moves.
LEMMA BuyRests ==
  ASSUME CoreInv, UNCHANGED <<buy, xbuy, base>>
  PROVE  BuyBooked'
BY DEF CoreInv, BuyBooked

LEMMA PlaceBooked ==
  ASSUME CoreInv, Place
  PROVE  ExchangeTypes' /\ BuyBooked' /\ LotsBooked'
<1> DEFINE k == op.k
           Placed(m) == [state |-> "live", qty |-> op.want, past |-> {op.want}, child |-> 0, misread |-> m]
<1>1. k \in Prots /\ op.want \in Nat /\ op.want > 0
  BY DEF CoreInv, Sound, Threads, Place, At, Wanting, Protecting
<1>2. UNCHANGED <<base, xbuy, xsell, buy>>
  BY DEF Place, journal
<1>3. CASE UNCHANGED algo
  BY <1>2, <1>3, RestBooked DEF ExchangeRests, exchange
<1>4. CASE ~UNCHANGED algo
  <2>0. op.want <= Available /\ \E x \in Answered : algo' = [algo EXCEPT ![k] = Placed(x = "no")]
    BY <1>4, Zenon DEF Place
  <2>00. PICK x \in Answered : algo' = [algo EXCEPT ![k] = Placed(x = "no")]
    BY <2>0
  <2> DEFINE a == Placed(x = "no")
  <2>1. op.want <= Available /\ algo' = [algo EXCEPT ![k] = a]
    BY <2>0, <2>00
  <2>2. Available \in Nat /\ Available <= MaxUnits /\ OwnLots(algo[k]) \in Nat
    BY <1>1, Booked, ExitConstants DEF Units
  <2>3. a \in AlgoTypes /\ OwnLots(a) = op.want
    BY <1>1 DEF AlgoTypes, OwnLots
  <2>4. OwnLots(a) \in Units /\ a.qty > 0 /\ OwnLots(a) <= OwnLots(algo[k]) + Available
    BY <1>1, <2>1, <2>2, <2>3, ExitConstants DEF Units
  <2> HIDE DEF a, k
  <2>5. ExchangeTypes' /\ LotsBooked'
    BY <1>1, <1>2, <2>1, <2>3, <2>4, OneAlgo
  <2> QED
    BY <1>2, <2>5, BuyRests
<1> QED
  BY <1>3, <1>4

LEMMA AmendBooked ==
  ASSUME CoreInv, Amend
  PROVE  ExchangeTypes' /\ BuyBooked' /\ LotsBooked'
<1> DEFINE k == op.k
           a == [algo[k] EXCEPT !.qty = op.want, !.past = @ \union {op.want}]
<1>1. k \in Prots /\ op.want \in Nat /\ op.want > 0
  BY DEF CoreInv, Sound, Threads, Amend, At, Wanting, Protecting
<1>2. UNCHANGED <<base, xbuy, xsell, buy>>
  BY DEF Amend, journal
<1>3. CASE UNCHANGED algo
  BY <1>2, <1>3, RestBooked DEF ExchangeRests, exchange
<1>4. CASE ~UNCHANGED algo
  <2>1. /\ algo[k].state = "live" /\ op.want <= algo[k].qty + Available
        /\ algo' = [algo EXCEPT ![k].qty = op.want, ![k].past = @ \union {op.want}]
    BY <1>4, Zenon DEF Amend
  <2>2. algo[k] \in AlgoTypes /\ Available \in Nat /\ base <= MaxUnits /\ base \in Nat /\ Available = base - Claimed
    BY <1>1, Booked
  <2>3. algo' = [algo EXCEPT ![k] = a]
    <3>1. algo \in [Prots -> AlgoTypes]
      BY DEF CoreInv, ExchangeTypes, AlgoTypes
    <3> QED
      BY <1>1, <2>1, <3>1 DEF AlgoTypes
  <2>4. a \in AlgoTypes /\ a.state = "live" /\ a.qty = op.want
    BY <1>1, <2>1, <2>2 DEF AlgoTypes
  <2>5. OwnLots(a) = op.want /\ OwnLots(algo[k]) = algo[k].qty
    BY <2>1, <2>4 DEF OwnLots
  <2>6. algo[k].qty <= Claimed
    <3>1. Cardinality(AllOwn(algo)) = Cardinality({u \in AllOwn(algo) : u[1] # k}) + OwnLots(algo[k])
      BY <1>1, Booked, AlgoCount
    <3>2. IsFiniteSet({u \in AllOwn(algo) : u[1] # k})
      BY AllFinite, FS_Subset
    <3>3. Cardinality({u \in AllOwn(algo) : u[1] # k}) \in Nat
      BY <3>2, FS_CardinalityType
    <3>4. algo[k].qty \in Nat
      BY <2>2 DEF AlgoTypes
    <3>5. Claimed = Cardinality(AllOwn(algo)) + Cardinality(SellLots) /\ Cardinality(SellLots) \in Nat
      BY LotsAre, CountsNat DEF Claimed
    <3> QED
      BY <2>5, <3>1, <3>3, <3>4, <3>5
  <2>7. algo[k].qty \in Nat /\ Claimed \in Nat
    BY <2>2, CountsNat DEF AlgoTypes
  <2>8. OwnLots(a) \in Units /\ OwnLots(a) <= OwnLots(algo[k]) + Available
    BY <1>1, <2>1, <2>2, <2>5, <2>6, <2>7, ExitConstants DEF Units
  <2> HIDE DEF a, k
  <2>9. ExchangeTypes' /\ LotsBooked'
    BY <1>1, <1>2, <2>3, <2>4, <2>8, OneAlgo
  <2> QED
    BY <1>2, <2>9, BuyRests
<1> QED
  BY <1>3, <1>4

LEMMA FillsBooked ==
  ASSUME CoreInv, XBuyFill \/ XBuyEnds
  PROVE  ExchangeTypes' /\ BuyBooked' /\ LotsBooked' /\ Freer
<1>1. /\ xbuy \in [qty : Nat, acc : Nat, live : BOOLEAN, asked : Nat] /\ base \in Nat /\ buy.acc \in Nat
      /\ xbuy.qty \in Nat /\ xbuy.acc \in Nat /\ xbuy.asked \in Nat /\ MaxUnits \in Nat
  BY ExitConstants DEF CoreInv, ExchangeTypes, JournalTypes
<1>2. /\ buy.acc <= xbuy.acc /\ xbuy.acc < xbuy.qty /\ xbuy.live /\ base + (xbuy.qty - xbuy.acc) <= xbuy.asked
      /\ xbuy.asked <= MaxUnits
  BY DEF CoreInv, BuyBooked, XBuyFill, XBuyEnds
<1>3. UNCHANGED <<algo, xsell, buy>>
  BY DEF XBuyFill, XBuyEnds, journal
<1>4. /\ base' \in Nat /\ base' >= base
      /\ xbuy' \in [qty : Nat, acc : Nat, live : BOOLEAN, asked : Nat]
      /\ xbuy'.qty = xbuy.qty /\ xbuy'.asked = xbuy.asked
      /\ \/ base' = base + 1 /\ xbuy'.acc = xbuy.acc + 1 /\ (xbuy'.live => xbuy.acc + 1 < xbuy.qty)
         \/ base' = base /\ xbuy'.acc = xbuy.acc /\ ~xbuy'.live
  <2>1. CASE XBuyFill
    <3>1. /\ xbuy' = [xbuy EXCEPT !.acc = xbuy.acc + 1, !.live = xbuy.acc + 1 < xbuy.qty]
          /\ base' = base + 1
      BY <2>1 DEF XBuyFill
    <3>2. xbuy.acc + 1 \in Nat
      BY <1>1
    <3>3. xbuy' \in [qty : Nat, acc : Nat, live : BOOLEAN, asked : Nat]
      <4>1. (xbuy.acc + 1 < xbuy.qty) \in BOOLEAN
        BY <1>1
      <4>2. PICK g \in BOOLEAN : xbuy' = [xbuy EXCEPT !.acc = xbuy.acc + 1, !.live = g]
        BY <3>1, <4>1
      <4> QED
        BY <1>1, <3>2, <4>2
    <3>4. xbuy'.qty = xbuy.qty /\ xbuy'.asked = xbuy.asked /\ xbuy'.acc = xbuy.acc + 1
      BY <1>1, <3>1
    <3>5. xbuy'.live => xbuy.acc + 1 < xbuy.qty
      BY <1>1, <3>1, Zenon
    <3> QED
      BY <1>1, <3>1, <3>3, <3>4, <3>5
  <2>2. CASE XBuyEnds
    <3>1. xbuy' = [xbuy EXCEPT !.live = FALSE] /\ base' = base
      BY <2>2 DEF XBuyEnds
    <3>2. xbuy' \in [qty : Nat, acc : Nat, live : BOOLEAN, asked : Nat]
      BY <1>1, <3>1
    <3>3. xbuy'.qty = xbuy.qty /\ xbuy'.asked = xbuy.asked /\ xbuy'.acc = xbuy.acc
      BY <1>1, <3>1
    <3>4. ~xbuy'.live
      BY <1>1, <3>1
    <3> QED
      BY <1>1, <3>1, <3>2, <3>3, <3>4
  <2> QED
    BY <2>1, <2>2
<1>5. ExchangeTypes'
  BY <1>3, <1>4 DEF CoreInv, ExchangeTypes
<1>6. BuyBooked'
  BY <1>1, <1>2, <1>3, <1>4 DEF BuyBooked
<1>7. LotsBooked' /\ Freer
  <2>1. Claimed' = Claimed /\ Claimed \in Nat /\ Claimed <= base
    BY <1>3, CountsNat DEF Claimed, AlgoLots, SellLots, LiveAlgos, LiveSells, CoreInv, LotsBooked
  <2>2. LotsBooked'
    BY <1>1, <1>3, <1>4, <2>1 DEF CoreInv, LotsBooked, LiveAlgos, LiveSells
  <2>3. base \in Nat /\ base' \in Nat /\ base' >= base /\ Claimed' = Claimed /\ Claimed \in Nat
    BY <1>1, <1>4, <2>1
  <2>4. Freer
    BY <2>3, MoreFree DEF Freer
  <2> QED
    BY <2>2, <2>4
<1> QED
  BY <1>5, <1>6, <1>7

LEMMA AlgoEndsBooked ==
  ASSUME CoreInv, XAlgoEnds
  PROVE  ExchangeTypes' /\ BuyBooked' /\ LotsBooked' /\ Freer
<1>1. PICK k \in LiveAlgos, s \in {"canceled", "failed"} : algo' = [algo EXCEPT ![k].state = s]
  BY DEF XAlgoEnds
<1>2. UNCHANGED <<base, xbuy, xsell, buy>>
  BY DEF XAlgoEnds, journal
<1> DEFINE a == [algo[k] EXCEPT !.state = s]
<1>3. k \in Prots
  BY DEF LiveAlgos
<1>4. algo[k] \in AlgoTypes /\ OwnLots(algo[k]) \in Nat /\ Available \in Nat
  BY <1>3, Booked, ExitConstants DEF Units
<1>5. a \in AlgoTypes /\ a.state \notin {"live", "canceling"} /\ OwnLots(a) = 0
  BY <1>4 DEF AlgoTypes, OwnLots
<1>6. OwnLots(a) \in Units /\ OwnLots(a) <= OwnLots(algo[k]) + Available
  BY <1>4, <1>5, ExitConstants DEF Units
<1>7. algo' = [algo EXCEPT ![k] = a]
  BY <1>1
<1> HIDE DEF a
<1>8. ExchangeTypes' /\ LotsBooked' /\ Freer
  <2>1. OwnLots(a) <= OwnLots(algo[k])
    BY <1>4, <1>5
  <2> QED
    BY <1>2, <1>3, <1>5, <1>6, <1>7, <2>1, OneAlgo
<1> QED
  BY <1>2, <1>8, BuyRests

LEMMA SellEndsBooked ==
  ASSUME CoreInv, XSellEnds
  PROVE  ExchangeTypes' /\ BuyBooked' /\ LotsBooked' /\ Freer
<1>1. PICK s \in LiveSells : xsell' = [xsell EXCEPT ![s].state = "canceled"]
  BY DEF XSellEnds
<1>2. UNCHANGED <<base, xbuy, algo, buy>>
  BY DEF XSellEnds, journal
<1> DEFINE x == [xsell[s] EXCEPT !.state = "canceled"]
<1>3. s \in Sells
  BY DEF LiveSells
<1>4. xsell[s] \in SellTypes /\ Open(xsell[s]) /\ OpenLots(xsell[s]) \in Nat /\ Available \in Nat
  BY <1>3, Booked DEF OpenLots, Open
<1>5. x \in SellTypes /\ Open(x) /\ OpenLots(x) = 0
  BY <1>4 DEF SellTypes, Open, OpenLots
<1>6. OpenLots(x) <= OpenLots(xsell[s]) + Available
  BY <1>4, <1>5
<1>7. xsell' = [xsell EXCEPT ![s] = x]
  BY <1>1
<1> HIDE DEF x
<1>8. ExchangeTypes' /\ LotsBooked' /\ Freer
  <2>1. OpenLots(x) <= OpenLots(xsell[s])
    BY <1>4, <1>5
  <2> QED
    BY <1>2, <1>3, <1>5, <1>6, <1>7, <2>1, OneSell
<1> QED
  BY <1>2, <1>8, BuyRests

\* A lot sold is one lot less to claim and one less to have.
LEMMA SellFillBooked ==
  ASSUME CoreInv, XSellFill
  PROVE  ExchangeTypes' /\ BuyBooked' /\ LotsBooked' /\ Freer
<1>1. PICK s \in LiveSells :
        /\ xsell' = [xsell EXCEPT ![s].acc = @ + 1,
                       ![s].state = IF xsell[s].acc + 1 = xsell[s].qty THEN "filled" ELSE "live"]
        /\ base' = base - 1
  BY DEF XSellFill
<1>2. UNCHANGED <<xbuy, algo, buy>>
  BY DEF XSellFill, journal
<1> DEFINE x == [xsell[s] EXCEPT !.acc = @ + 1,
                   !.state = IF xsell[s].acc + 1 = xsell[s].qty THEN "filled" ELSE "live"]
<1>3. s \in Sells /\ xsell[s].state = "live"
  BY DEF LiveSells
<1>4. xsell[s] \in SellTypes /\ Open(xsell[s]) /\ xsell \in [Sells -> SellTypes]
  BY <1>3, Booked DEF CoreInv, ExchangeTypes, SellTypes
<1>5. xsell' = [xsell EXCEPT ![s] = x]
  BY <1>1, <1>3, <1>4 DEF SellTypes
<1>6. x \in SellTypes /\ x.acc = xsell[s].acc + 1 /\ x.qty = xsell[s].qty
      /\ x.state = (IF xsell[s].acc + 1 = xsell[s].qty THEN "filled" ELSE "live")
  <2>1. CASE xsell[s].acc + 1 = xsell[s].qty
    BY <1>4, <2>1 DEF SellTypes, Open
  <2>2. CASE xsell[s].acc + 1 # xsell[s].qty
    <3>1. x = [xsell[s] EXCEPT !.acc = xsell[s].acc + 1, !.state = "live"]
      BY <2>2
    <3>2. xsell[s].acc + 1 \in Nat
      BY <1>4 DEF Open
    <3> HIDE DEF x
    <3>3. x \in SellTypes
      BY <1>4, <3>1, <3>2 DEF SellTypes
    <3>4. x.acc = xsell[s].acc + 1 /\ x.qty = xsell[s].qty /\ x.state = "live"
      BY <1>4, <3>1 DEF SellTypes
    <3> QED
      BY <2>2, <3>3, <3>4
  <2> QED
    BY <2>1, <2>2
<1>7. Open(x) /\ OpenLots(x) = OpenLots(xsell[s]) - 1 /\ OpenLots(xsell[s]) \in Nat
  <2>1. xsell[s].acc \in Nat /\ xsell[s].qty \in Nat /\ xsell[s].acc < xsell[s].qty /\ xsell[s].qty <= MaxUnits
    BY <1>3, <1>4 DEF Open
  <2>2. OpenLots(xsell[s]) = xsell[s].qty - xsell[s].acc
    BY <1>3 DEF OpenLots
  <2> HIDE DEF x
  <2>3. CASE xsell[s].acc + 1 = xsell[s].qty
    BY <1>6, <2>1, <2>2, <2>3 DEF Open, OpenLots
  <2>4. CASE xsell[s].acc + 1 # xsell[s].qty
    BY <1>6, <2>1, <2>2, <2>4, ExitConstants DEF Open, OpenLots
  <2> QED
    BY <2>3, <2>4
<1> HIDE DEF x
<1>8. xsell' \in [Sells -> SellTypes] /\ xsell'[s] = x /\ \A t \in Sells \ {s} : xsell'[t] = xsell[t]
  BY <1>3, <1>4, <1>5, <1>6
<1>9. Cardinality(SellLots)' = Cardinality(SellLots) - OpenLots(xsell[s]) + OpenLots(x)
  BY <1>3, <1>4, <1>7, <1>8, SellMoves
<1>10. LiveAlgos' = LiveAlgos /\ Cardinality(AlgoLots)' = Cardinality(AlgoLots)
  BY <1>2 DEF LiveAlgos, AlgoLots
<1>11. Claimed' = Claimed - 1 /\ Claimed' \in Nat
  <2>1. Claimed' = Claimed - 1
    BY <1>7, <1>9, <1>10, CountsNat DEF Claimed
  <2>2. Cardinality(AlgoLots)' \in Nat
    BY <1>10, CountsNat
  <2>3. Cardinality(SellLots)' \in Nat
    <3>1. IsFiniteSet(AllOpen(xsell'))
      BY AllFinite
    <3>2. Cardinality(AllOpen(xsell')) \in Nat
      BY <3>1, FS_CardinalityType
    <3> QED
      BY <3>2, LotsAreNext
  <2> QED
    BY <2>1, <2>2, <2>3 DEF Claimed
<1>12. base' \in Nat /\ base' <= base /\ Claimed' <= base' /\ Freer
  BY <1>1, <1>11, Booked DEF Freer
<1>13. ExchangeTypes'
  BY <1>2, <1>8, <1>12 DEF CoreInv, ExchangeTypes, SellTypes
<1>14. BuyBooked'
  <2>1. /\ base \in Nat /\ base' \in Nat /\ xbuy.qty \in Nat /\ xbuy.acc \in Nat /\ xbuy.asked \in Nat
    BY <1>12 DEF CoreInv, ExchangeTypes
  <2> QED
    BY <1>2, <1>12, <2>1 DEF CoreInv, BuyBooked
<1>15. ASSUME NEW t \in LiveSells' PROVE xsell'[t].acc < xsell'[t].qty /\ xsell'[t].qty <= MaxUnits
  BY <1>7, <1>8, <1>15 DEF CoreInv, LotsBooked, LiveSells, Open
<1>16. LotsBooked'
  BY <1>2, <1>10, <1>12, <1>15 DEF CoreInv, LotsBooked
<1> QED
  BY <1>12, <1>13, <1>14, <1>16

\* The lots of the OCO become those of its SELL.
LEMMA TriggerBooked ==
  ASSUME CoreInv, XTrigger
  PROVE  ExchangeTypes' /\ BuyBooked' /\ LotsBooked' /\ Freer
<1> DEFINE s == Min(FreeSells)
<1>1. PICK k \in LiveAlgos :
        /\ FreeSells # {}
        /\ algo' = [algo EXCEPT ![k].state = "triggered", ![k].child = s]
        /\ xsell' = [xsell EXCEPT ![s] = [state |-> "live", qty |-> algo[k].qty, acc |-> 0]]
  BY DEF XTrigger
<1>2. s \in FreeSells /\ s \in Sells
  <2>1. FreeSells \in SUBSET Sells
    BY DEF FreeSells
  <2> QED
    BY <1>1, <2>1, MinSell
<1> HIDE DEF s
<1>3. UNCHANGED <<base, xbuy, buy>>
  BY DEF XTrigger, journal
<1>4. k \in Prots /\ algo[k] \in AlgoTypes /\ algo[k].qty \in 1..MaxUnits /\ OwnLots(algo[k]) = algo[k].qty
  BY Booked DEF LiveAlgos, OwnLots, CoreInv, LotsBooked
<1> DEFINE a == [algo[k] EXCEPT !.state = "triggered", !.child = s]
           x == [state |-> "live", qty |-> algo[k].qty, acc |-> 0]
<1>5. a \in AlgoTypes /\ a.state = "triggered" /\ OwnLots(a) = 0
  BY <1>2, <1>4 DEF AlgoTypes, OwnLots
<1>6. algo \in [Prots -> AlgoTypes] /\ xsell \in [Sells -> SellTypes]
  BY DEF CoreInv, ExchangeTypes, AlgoTypes, SellTypes
<1>7. algo' = [algo EXCEPT ![k] = a]
  BY <1>1, <1>4, <1>6 DEF AlgoTypes
<1>8. x \in SellTypes /\ Open(x) /\ OpenLots(x) = algo[k].qty /\ OpenLots(xsell[s]) = 0 /\ Open(xsell[s])
  BY <1>2, <1>4, Booked, ExitConstants DEF SellTypes, Open, OpenLots, FreeSells
<1>9. xsell' = [xsell EXCEPT ![s] = x]
  BY <1>1
<1> HIDE DEF a, x
<1>10. algo' \in [Prots -> AlgoTypes] /\ algo'[k] = a /\ \A j \in Prots \ {k} : algo'[j] = algo[j]
  BY <1>4, <1>5, <1>6, <1>7
<1>11. xsell' \in [Sells -> SellTypes] /\ xsell'[s] = x /\ \A t \in Sells \ {s} : xsell'[t] = xsell[t]
  BY <1>2, <1>6, <1>8, <1>9
<1>12. Cardinality(AlgoLots)' = Cardinality(AlgoLots) - OwnLots(algo[k]) + OwnLots(a)
  <2>1. OwnLots(algo[k]) \in Units /\ OwnLots(a) \in Units
    BY <1>4, <1>5, Booked, ExitConstants DEF Units
  <2> QED
    BY <1>4, <1>10, <2>1, AlgoMoves
<1>13. Cardinality(SellLots)' = Cardinality(SellLots) - OpenLots(xsell[s]) + OpenLots(x)
  BY <1>2, <1>8, <1>11, SellMoves
<1>14. Claimed' = Claimed
  <2>1. algo[k].qty \in Nat
    BY <1>4, ExitConstants
  <2> QED
    BY <1>4, <1>5, <1>8, <1>12, <1>13, <2>1, CountsNat DEF Claimed
<1>15. ExchangeTypes'
  BY <1>3, <1>10, <1>11 DEF CoreInv, ExchangeTypes, AlgoTypes, SellTypes
<1>16. ASSUME NEW j \in LiveAlgos' PROVE algo'[j].qty \in 1..MaxUnits
  BY <1>5, <1>10, <1>16 DEF CoreInv, LotsBooked, LiveAlgos
<1>17. ASSUME NEW t \in LiveSells' PROVE xsell'[t].acc < xsell'[t].qty /\ xsell'[t].qty <= MaxUnits
  BY <1>8, <1>11, <1>17 DEF CoreInv, LotsBooked, LiveSells, Open
<1>18. LotsBooked'
  BY <1>3, <1>14, <1>16, <1>17 DEF CoreInv, LotsBooked
<1>19. Freer
  BY <1>3, <1>14, Booked DEF Freer
<1> QED
  BY <1>3, <1>15, <1>18, <1>19, BuyRests

\* The steps in which the journal hears of the BUY, or one begins or ends.
LEMMA NewsBooked ==
  ASSUME CoreInv, UNCHANGED exchange, UNCHANGED buy \/ buy'.acc \in buy.acc..xbuy.acc
  PROVE  ExchangeTypes' /\ BuyBooked' /\ LotsBooked'
<1>1. ExchangeTypes' /\ LotsBooked'
  BY DEF exchange, CoreInv, ExchangeTypes, LotsBooked, LiveAlgos, LiveSells, Claimed, AlgoLots, SellLots
<1>2. xbuy.acc \in Nat /\ buy.acc \in Nat /\ UNCHANGED <<base, xbuy>>
  BY DEF exchange, CoreInv, ExchangeTypes, JournalTypes
<1>3. BuyBooked'
  BY <1>2 DEF CoreInv, BuyBooked
<1> QED
  BY <1>1, <1>3

LEMMA BuyMovesBooked ==
  ASSUME CoreInv, ExitCancelsBuy \/ NewBuy
  PROVE  ExchangeTypes' /\ BuyBooked' /\ LotsBooked'
<1>1. UNCHANGED <<base, algo, xsell>>
  BY DEF ExitCancelsBuy, NewBuy
<1>2. LotsBooked'
  BY <1>1 DEF CoreInv, LotsBooked, LiveAlgos, LiveSells, Claimed, AlgoLots, SellLots
<1>3. /\ xbuy \in [qty : Nat, acc : Nat, live : BOOLEAN, asked : Nat] /\ base \in Nat /\ buy.acc \in Nat
      /\ xbuy.qty \in Nat /\ xbuy.acc \in Nat /\ xbuy.asked \in Nat /\ MaxUnits \in Nat
  BY ExitConstants DEF CoreInv, ExchangeTypes, JournalTypes
<1>4. base <= xbuy.asked /\ buy.acc <= xbuy.acc /\ xbuy.acc <= xbuy.qty /\ xbuy.asked <= MaxUnits
  BY <1>3 DEF CoreInv, BuyBooked
<1>5. CASE UNCHANGED <<xbuy, buy>>
  BY <1>1, <1>5, RestBooked DEF ExchangeRests, exchange
<1>6. CASE xbuy' = [xbuy EXCEPT !.live = FALSE] /\ UNCHANGED buy
  <2>1. xbuy' \in [qty : Nat, acc : Nat, live : BOOLEAN, asked : Nat]
    BY <1>3, <1>6
  <2>2. xbuy'.qty = xbuy.qty /\ xbuy'.acc = xbuy.acc /\ xbuy'.asked = xbuy.asked
    BY <1>3, <1>6
  <2>3. ~xbuy'.live
    BY <1>3, <1>6
  <2>4. ExchangeTypes'
    BY <1>1, <2>1 DEF CoreInv, ExchangeTypes
  <2>5. BuyBooked'
    BY <1>1, <1>3, <1>4, <1>6, <2>2, <2>3 DEF BuyBooked
  <2> QED
    BY <1>2, <2>4, <2>5
<1>7. CASE NewBuy
  <2>1. PICK q \in 1..(MaxUnits - xbuy.asked) :
          /\ buy' = [open |-> TRUE, acc |-> 0]
          /\ xbuy' = [qty |-> q, acc |-> 0, live |-> TRUE, asked |-> xbuy.asked + q]
    BY <1>7 DEF NewBuy
  <2>2. q \in Nat /\ xbuy.asked + q \in Nat /\ xbuy.asked + q <= MaxUnits /\ q > 0
    BY <1>3, <2>1
  <2>3. ExchangeTypes'
    BY <1>1, <2>1, <2>2 DEF CoreInv, ExchangeTypes
  <2>4. buy'.acc = 0 /\ xbuy'.acc = 0 /\ xbuy'.qty = q /\ xbuy'.asked = xbuy.asked + q
    BY <2>1
  <2>5. xbuy'.live
    BY <2>1
  <2>6. BuyBooked'
    BY <1>1, <1>3, <1>4, <2>2, <2>4, <2>5 DEF BuyBooked
  <2> QED
    BY <1>2, <2>3, <2>6
<1>8. ExitCancelsBuy => UNCHANGED <<xbuy, buy>> \/ (xbuy' = [xbuy EXCEPT !.live = FALSE] /\ UNCHANGED buy)
  BY DEF ExitCancelsBuy, journal
<1> QED
  BY <1>5, <1>6, <1>7, <1>8

\* The steps that cancel an OCO.
LEMMA CancelsFrom ==
  ASSUME Sound(op), Abort \/ CancelNext \/ RecRemote \/ RecLocal
  PROVE  UNCHANGED algo \/ \E k \in Prots : \E p : CancelAlgo(k, p)
<1>1. op.k \in Prots /\ op.left \in SUBSET Prots
  BY DEF Sound, Threads
<1>2. CASE Abort
  BY <1>1, <1>2 DEF Abort
<1>3. CASE CancelNext
  BY <1>1, <1>3, MinRow DEF CancelNext
<1>4. CASE RecRemote
  BY <1>1, <1>4, MinRow DEF RecRemote
<1>5. CASE RecLocal
  <2>1. UNCHANGED algo \/ CancelAlgo(Min(op.left), "rcanceled")
    BY <1>5, Zenon DEF RecLocal
  <2>2. Min(op.left) \in Prots
    BY <1>1, <1>5, MinRow DEF RecLocal
  <2> QED
    BY <2>1, <2>2
<1> QED
  BY <1>2, <1>3, <1>4, <1>5

LEMMA CancelsBooked ==
  ASSUME CoreInv, Abort \/ CancelNext \/ RecRemote \/ RecLocal
  PROVE  ExchangeTypes' /\ BuyBooked' /\ LotsBooked'
<1>1. UNCHANGED <<base, xbuy, xsell, buy>>
  BY DEF Abort, CancelNext, RecRemote, RecLocal, journal
<1>2. UNCHANGED algo \/ \E k \in Prots : \E p : CancelAlgo(k, p)
  BY CancelsFrom DEF CoreInv
<1>3. CASE UNCHANGED algo
  BY <1>1, <1>3, RestBooked DEF ExchangeRests, exchange
<1>4. ASSUME NEW k \in Prots, NEW p, CancelAlgo(k, p) PROVE ExchangeTypes' /\ LotsBooked'
  BY <1>1, <1>4, CancelBooked
<1> QED
  BY <1>1, <1>2, <1>3, <1>4, BuyRests

\* The steps that submit a SELL.
LEMMA SellsBooked ==
  ASSUME CoreInv, EmergencySell \/ ExitSell
  PROVE  ExchangeTypes' /\ BuyBooked' /\ LotsBooked'
<1>1. UNCHANGED <<base, xbuy, algo, buy>> /\ op.want > 0
  BY DEF EmergencySell, ExitSell, CoreInv, Sound, At, Wanting, Protecting
<1>2. UNCHANGED xsell \/ (FreeSells # {} /\ SubmitSell(Min(FreeSells)))
  BY DEF EmergencySell, ExitSell
<1>3. CASE UNCHANGED xsell
  BY <1>1, <1>3, RestBooked DEF ExchangeRests, exchange
<1>4. CASE FreeSells # {} /\ SubmitSell(Min(FreeSells))
  <2>1. FreeSells \in SUBSET Sells
    BY DEF FreeSells
  <2>2. Min(FreeSells) \in FreeSells /\ Min(FreeSells) \in Sells
    BY <1>4, <2>1, MinSell
  <2> QED
    BY <1>1, <1>4, <2>2, SubmitBooked, BuyRests
<1> QED
  BY <1>2, <1>3, <1>4

\* Steps of the exchange, and of whoever asks it for something.
LEMMA BooksElsewhere ==
  ASSUME Next
  PROVE  \/ ExchangeRests \/ XBuyFill \/ XBuyEnds \/ XTrigger \/ XAlgoEnds \/ XSellFill \/ XSellEnds
         \/ Place \/ Amend \/ Abort \/ CancelNext \/ EmergencySell \/ ExitSell \/ ExitResolvesBuy
         \/ ExitCancelsBuy \/ ExitBuyAnswered \/ RecOrders \/ RecRemote \/ RecLocal \/ BuyNews \/ NewBuy
<1>1. CASE Protect
  BY <1>1 DEF Protect, EnsureRefused, EnsureActive, EnsureBlocked, EnsureNew, MarkSubmitting, PlacedSeen,
     PlacedUnresolved, PlacedRefused, AmendSeen, AmendFailed, AbortSeen, AbortFailed, CancelAnswered, ExchangeRests
<1>2. CASE Exit
  BY <1>2 DEF Exit, ExitResolvesSells, ExitSkipsRow, ExitSeesTrigger, ExitSettlesTrigger, ExitCancelsAll,
     ExitCanceled, ExitCounts, ExitReturn, ExchangeRests, journal
<1>3. CASE Reconcile
  BY <1>3 DEF Reconcile, RecAlgos, RecCanceled, RecRemoteDone, RecLocalDone, RecEnd, ExchangeRests, journal
<1>4. CASE Watchdog \/ ExitBegin \/ RecBegin \/ SellNews \/ AlgoNews \/ Flatten \/ LeaseExpires \/ ExitDeadline \/ Crash
  BY <1>4 DEF Watchdog, WatchDetects, WatchDeadline, WatchClears, ExitBegin, RecBegin, SellNews, AlgoNews, Flatten,
     LeaseExpires, ExitDeadline, Crash, ExchangeRests, journal
<1> QED
  BY <1>1, <1>2, <1>3, <1>4 DEF Next, Exchange

LEMMA BookedStep ==
  ASSUME CoreInv, Next
  PROVE  ExchangeTypes' /\ BuyBooked' /\ LotsBooked'
<1>1. xbuy.acc \in Nat /\ buy.acc \in Nat /\ buy.acc <= xbuy.acc
  BY DEF CoreInv, ExchangeTypes, JournalTypes, BuyBooked
<1>2. CASE ExitResolvesBuy \/ ExitBuyAnswered
  <2>1. UNCHANGED exchange /\ (UNCHANGED buy \/ buy' = [open |-> xbuy.live, acc |-> xbuy.acc])
    BY <1>2 DEF ExitResolvesBuy, ExitBuyAnswered, SyncBuy
  <2>2. UNCHANGED buy \/ buy'.acc = xbuy.acc
    BY <2>1
  <2> QED
    BY <1>1, <2>1, <2>2, NewsBooked
<1>3. CASE RecOrders
  <2>1. UNCHANGED exchange /\ (UNCHANGED buy \/ buy' = [open |-> xbuy.live, acc |-> xbuy.acc])
    BY <1>3 DEF RecOrders
  <2>2. UNCHANGED buy \/ buy'.acc = xbuy.acc
    BY <2>1
  <2> QED
    BY <1>1, <2>1, <2>2, NewsBooked
<1>4. CASE BuyNews
  <2>1. UNCHANGED exchange /\ \E a \in buy.acc..xbuy.acc : \E e : buy' = [open |-> e, acc |-> a]
    BY <1>4 DEF BuyNews
  <2>2. buy'.acc \in buy.acc..xbuy.acc
    BY <2>1
  <2> QED
    BY <2>1, <2>2, NewsBooked
<1> QED
  BY <1>2, <1>3, <1>4, BooksElsewhere, RestBooked, FillsBooked, AlgoEndsBooked, SellEndsBooked, SellFillBooked,
     TriggerBooked, PlaceBooked, AmendBooked, CancelsBooked, SellsBooked, BuyMovesBooked

-----------------------------------------------------------------------------
(* The rows: what a step makes of one fits what the exchange has.          *)

RowTypes == [state : ProtectionState \union {"none"}, qty : Nat, id : BOOLEAN]

\* Row k may become s.
Fits(k, s) ==
  \/ s \notin {"none", "required", "triggered"}
  \/ s = AlgoView(k)
  \/ s = "required" /\ prot[k].state = "none"

RowChange == \E k \in Prots : \E r \in RowTypes : prot' = [prot EXCEPT ![k] = r] /\ Fits(k, r.state)

LEMMA RowTyped == ASSUME CoreInv, NEW k \in Prots PROVE prot[k] \in RowTypes /\ AlgoView(k) \in AlgoFact \union {"none"}
<1>1. prot[k] \in RowTypes
  BY DEF CoreInv, JournalTypes, RowTypes
<1>2. algo[k] \in AlgoTypes
  BY Booked
<1> QED
  BY <1>1, <1>2 DEF AlgoTypes, AlgoView, AlgoFact

LEMMA StateChanges ==
  ASSUME CoreInv, NEW k \in Prots, NEW s \in ProtectionState \union {"none"}, SetState(k, s), Fits(k, s)
  PROVE  RowChange
<1> DEFINE r == [prot[k] EXCEPT !.state = s]
<1>1. prot[k] \in RowTypes
  BY RowTyped
<1>2. r \in RowTypes /\ r.state = s
  BY <1>1 DEF RowTypes
<1>3. prot' = [prot EXCEPT ![k] = r]
  BY DEF SetState
<1> HIDE DEF r
<1> QED
  BY <1>2, <1>3 DEF RowChange

LEMMA Stored ==
  ASSUME CoreInv, NEW k \in Prots
  PROVE  Store(k) \in RowTypes /\ Store(k).state = AlgoView(k) /\ Store(k).qty = algo[k].qty
<1>1. algo[k].qty \in Nat /\ AlgoView(k) \in ProtectionState \union {"none"}
  BY Booked, RowTyped DEF AlgoTypes, AlgoFact, ProtectionState
<1> QED
  BY <1>1 DEF Store, RowTypes

LEMMA StoreChanges ==
  ASSUME CoreInv, NEW k \in Prots, prot' = [prot EXCEPT ![k] = Store(k)]
  PROVE  RowChange
<1>1. Store(k) \in RowTypes /\ Fits(k, Store(k).state)
  BY Stored DEF Fits
<1> QED
  BY <1>1 DEF RowChange

LEMMA StoredAs ==
  ASSUME CoreInv, NEW k \in Prots, NEW s \in ProtectionState
  PROVE  [Store(k) EXCEPT !.state = s] \in RowTypes /\ [Store(k) EXCEPT !.state = s].state = s
BY Stored DEF RowTypes

\* Given up by a placement that was refused, or that nobody understood.
LEMMA RefusedRow ==
  ASSUME CoreInv, PlacedRefused
  PROVE  \E r \in RowTypes : prot' = [prot EXCEPT ![op.k] = r] /\ r.state = "emergency_exit"
<1>1. op.k \in Prots /\ prot[op.k] \in RowTypes /\ algo[op.k].misread \in BOOLEAN
  BY RowTyped, Booked DEF CoreInv, Sound, Threads, AlgoTypes
<1>2. PICK g \in BOOLEAN : prot' = [prot EXCEPT ![op.k].state = "emergency_exit", ![op.k].id = g]
  BY <1>1 DEF PlacedRefused
<1> DEFINE r == [state |-> "emergency_exit", qty |-> prot[op.k].qty, id |-> g]
<1>3. r \in RowTypes /\ r.state = "emergency_exit"
  BY <1>1 DEF RowTypes, ProtectionState
<1>4. prot' = [prot EXCEPT ![op.k] = r]
  <2> DEFINE q == [prot EXCEPT ![op.k].state = "emergency_exit"]
  <2>1. prot \in [Prots -> RowTypes]
    BY DEF CoreInv, JournalTypes, RowTypes
  <2>2. q \in [Prots -> RowTypes] /\ q = [prot EXCEPT ![op.k] = [prot[op.k] EXCEPT !.state = "emergency_exit"]]
    BY <1>1, <2>1 DEF RowTypes, ProtectionState
  <2>3. prot' = [q EXCEPT ![op.k].id = g]
    BY <1>2
  <2> HIDE DEF q
  <2>4. [q[op.k] EXCEPT !.id = g] = r
    BY <1>1, <2>1, <2>2 DEF RowTypes
  <2> HIDE DEF r
  <2> QED
    BY <1>1, <2>1, <2>2, <2>3, <2>4
<1> HIDE DEF r
<1> QED
  BY <1>3, <1>4

LEMMA RowsProtect ==
  ASSUME CoreInv, Protect
  PROVE  UNCHANGED prot \/ RowChange
<1>1. op.k \in Prots /\ op.want \in Nat
  BY DEF CoreInv, Sound, Threads
<1>2. Actives \in SUBSET Prots /\ Unsettled \in SUBSET Prots /\ FreeProts \in SUBSET Prots
  BY DEF Actives, Unsettled, FreeProts
<1>3. ASSUME NEW k \in Prots, NEW s \in {"submitting", "active", "amending", "unknown", "emergency_exit"}, SetState(k, s)
      PROVE  RowChange
  <2>1. s \in ProtectionState \union {"none"} /\ Fits(k, s)
    BY DEF ProtectionState, Fits
  <2> QED
    BY <1>3, <2>1, StateChanges
<1>4. CASE EnsureRefused \/ Place \/ Amend \/ Abort \/ EmergencySell \/ CancelNext
  BY <1>4 DEF EnsureRefused, Place, Amend, Abort, EmergencySell, CancelNext, journal
<1>5. CASE EnsureActive
  <2>1. Min(Actives) \in Prots
    BY <1>2, <1>5, MinRow DEF EnsureActive
  <2>2. UNCHANGED prot \/ SetState(Min(Actives), "amending")
    BY <1>5 DEF EnsureActive
  <2> QED
    BY <1>3, <2>1, <2>2
<1>6. CASE EnsureBlocked
  <2> DEFINE k == Min(Unsettled)
             r == [Store(k) EXCEPT !.state = IF algo[k].qty = op.want THEN "active" ELSE "amending"]
  <2>1. k \in Prots
    BY <1>2, <1>6, MinRow DEF EnsureBlocked
  <2>2. UNCHANGED prot \/ prot' = [prot EXCEPT ![k] = Store(k)] \/ prot' = [prot EXCEPT ![k] = r]
    BY <1>6 DEF EnsureBlocked
  <2>3. r \in RowTypes /\ Fits(k, r.state)
    <3>1. Store(k) \in RowTypes
      BY <2>1, Stored
    <3>2. CASE algo[k].qty = op.want
      BY <3>1, <3>2 DEF RowTypes, ProtectionState, Fits
    <3>3. CASE algo[k].qty # op.want
      BY <3>1, <3>3 DEF RowTypes, ProtectionState, Fits
    <3> QED
      BY <3>2, <3>3
  <2> HIDE DEF k, r
  <2> QED
    BY <2>1, <2>2, <2>3, StoreChanges DEF RowChange
<1>7. CASE EnsureNew
  <2>1. CASE FreeProts = {}
    BY <1>7, <2>1 DEF EnsureNew
  <2>2. CASE FreeProts # {}
    <3> DEFINE k == Min(FreeProts)
               r == [state |-> "required", qty |-> op.want, id |-> FALSE]
    <3>1. k \in Prots /\ prot[k].state = "none"
      BY <1>2, <2>2, MinRow DEF FreeProts
    <3>2. prot' = [prot EXCEPT ![k] = r]
      BY <1>7, <2>2 DEF EnsureNew
    <3>3. r \in RowTypes /\ r.state = "required"
      BY <1>1 DEF RowTypes, ProtectionState
    <3>4. Fits(k, r.state)
      BY <3>1, <3>3 DEF Fits
    <3> HIDE DEF k, r
    <3> QED
      BY <3>1, <3>2, <3>3, <3>4 DEF RowChange
  <2> QED
    BY <2>1, <2>2
<1>8. CASE MarkSubmitting
  BY <1>1, <1>3, <1>8 DEF MarkSubmitting
<1>9. CASE PlacedSeen
  <2>1. prot' = [prot EXCEPT ![op.k] = Store(op.k)] \/ SetState(op.k, "emergency_exit")
    BY <1>9 DEF PlacedSeen, GiveUp, SetState
  <2> QED
    BY <1>1, <1>3, <2>1, StoreChanges
<1>10. CASE PlacedUnresolved
  BY <1>1, <1>3, <1>10 DEF PlacedUnresolved
<1>11. CASE PlacedRefused
  BY <1>1, <1>11, RefusedRow DEF RowChange, Fits
<1>12. CASE AmendSeen
  BY <1>1, <1>12, StoreChanges DEF AmendSeen
<1>13. CASE AmendFailed
  <2> DEFINE r == [Store(op.k) EXCEPT !.state = "unknown"]
  <2>1. UNCHANGED prot \/ SetState(op.k, "unknown") \/ prot' = [prot EXCEPT ![op.k] = r]
    BY <1>13 DEF AmendFailed
  <2>2. r \in RowTypes /\ r.state = "unknown"
    BY <1>1, StoredAs DEF ProtectionState
  <2> HIDE DEF r
  <2> QED
    BY <1>1, <1>3, <2>1, <2>2 DEF RowChange, Fits
<1>14. CASE AbortSeen
  BY <1>1, <1>14, StoreChanges DEF AbortSeen
<1>15. CASE AbortFailed
  BY <1>1, <1>3, <1>15 DEF AbortFailed
<1>16. CASE CancelAnswered
  <2>1. \/ SetState(op.k, AlgoView(op.k)) \/ SetState(op.k, "unknown")
        \/ prot' = [prot EXCEPT ![op.k] = Store(op.k)]
    BY <1>16, Zenon DEF CancelAnswered
  <2>2. AlgoView(op.k) \in ProtectionState \union {"none"} /\ Fits(op.k, AlgoView(op.k))
    BY <1>1, RowTyped DEF AlgoFact, ProtectionState, Fits
  <2> QED
    BY <1>1, <1>3, <2>1, <2>2, StoreChanges, StateChanges
<1> QED
  BY <1>4, <1>5, <1>6, <1>7, <1>8, <1>9, <1>10, <1>11, <1>12, <1>13, <1>14, <1>15, <1>16 DEF Protect

LEMMA RowsReconcile ==
  ASSUME CoreInv, Reconcile
  PROVE  UNCHANGED prot \/ RowChange
<1>1. op.k \in Prots /\ op.left \in SUBSET Prots
  BY DEF CoreInv, Sound, Threads
<1>2. CASE RecOrders \/ RecAlgos \/ RecRemoteDone \/ RecLocalDone \/ RecEnd
  BY <1>2 DEF RecOrders, RecAlgos, RecRemoteDone, RecLocalDone, RecEnd, journal
<1>3. CASE RecRemote
  <2> DEFINE k == Min(op.left)
             r(s) == [state |-> s, qty |-> algo[k].qty, id |-> TRUE]
  <2>1. k \in Prots
    BY <1>1, <1>3, MinRow DEF RecRemote
  <2>2. UNCHANGED prot \/ \E s \in {"active", "unknown"} : prot' = [prot EXCEPT ![k] = r(s)]
    BY <1>3 DEF RecRemote
  <2>3. algo[k].qty \in Nat
    BY <2>1, Booked DEF AlgoTypes
  <2>4. \A s \in {"active", "unknown"} : r(s) \in RowTypes /\ Fits(k, r(s).state)
    BY <2>3 DEF RowTypes, ProtectionState, Fits
  <2> HIDE DEF k, r
  <2> QED
    BY <2>1, <2>2, <2>4 DEF RowChange
<1>4. CASE RecCanceled
  <2>1. UNCHANGED prot \/ SetState(op.k, AlgoView(op.k)) \/ SetState(op.k, "unknown")
    BY <1>4, Zenon DEF RecCanceled
  <2>2. AlgoView(op.k) \in ProtectionState \union {"none"} /\ Fits(op.k, AlgoView(op.k))
    BY <1>1, RowTyped DEF AlgoFact, ProtectionState, Fits
  <2>3. "unknown" \in ProtectionState \union {"none"} /\ Fits(op.k, "unknown")
    BY DEF ProtectionState, Fits
  <2> QED
    BY <1>1, <2>1, <2>2, <2>3, StateChanges
<1>5. CASE RecLocal
  <2> DEFINE k == Min(op.left)
  <2>1. k \in Prots
    BY <1>1, <1>5, MinRow DEF RecLocal
  <2>2. UNCHANGED prot \/ prot' = [prot EXCEPT ![k] = Store(k)] \/ SetState(k, "failed")
    BY <1>5, Zenon DEF RecLocal
  <2>3. "failed" \in ProtectionState \union {"none"} /\ Fits(k, "failed")
    BY DEF ProtectionState, Fits
  <2> HIDE DEF k
  <2> QED
    BY <2>1, <2>2, <2>3, StoreChanges, StateChanges
<1> QED
  BY <1>2, <1>3, <1>4, <1>5 DEF Reconcile

LEMMA RowsElsewhere ==
  ASSUME CoreInv, Next, ~Protect, ~Reconcile
  PROVE  UNCHANGED prot \/ RowChange
<1>1. op.todo \in SUBSET Prots
  BY DEF CoreInv, Sound, Threads
<1>2. CASE Exit /\ ~ExitSeesTrigger
  BY <1>2 DEF Exit, ExitResolvesBuy, ExitCancelsBuy, ExitBuyAnswered, ExitResolvesSells, ExitSkipsRow,
     ExitSettlesTrigger, ExitCancelsAll, ExitCanceled, ExitCounts, ExitSell, ExitReturn, journal
<1>3. CASE ExitSeesTrigger
  <2> DEFINE k == Min(op.todo)
  <2>1. k \in Prots
    BY <1>1, <1>3, MinRow DEF ExitSeesTrigger
  <2>2. algo[k].state = "triggered" /\ (UNCHANGED prot \/ SetState(k, "triggered"))
    BY <1>3 DEF ExitSeesTrigger
  <2>3. "triggered" \in ProtectionState \union {"none"} /\ Fits(k, "triggered")
    BY <2>2 DEF ProtectionState, Fits, AlgoView
  <2> HIDE DEF k
  <2> QED
    BY <2>1, <2>2, <2>3, StateChanges
<1>4. CASE AlgoNews
  <2>1. PICK k \in Prots : \E n \in ({"active"} \X algo[k].past) \union ({AlgoView(k), "unknown"} \X {algo[k].qty}) :
          UNCHANGED prot \/ prot' = [prot EXCEPT ![k] = [state |-> n[1], qty |-> n[2], id |-> TRUE]]
    BY <1>4, Zenon DEF AlgoNews
  <2>2. PICK n \in ({"active"} \X algo[k].past) \union ({AlgoView(k), "unknown"} \X {algo[k].qty}) :
          UNCHANGED prot \/ prot' = [prot EXCEPT ![k] = [state |-> n[1], qty |-> n[2], id |-> TRUE]]
    BY <2>1
  <2> DEFINE r == [state |-> n[1], qty |-> n[2], id |-> TRUE]
  <2>3. algo[k].qty \in Nat /\ algo[k].past \subseteq Nat /\ AlgoView(k) \in ProtectionState \union {"none"}
    BY Booked, RowTyped DEF AlgoTypes, AlgoFact, ProtectionState
  <2>4. n[2] \in Nat /\ n[1] \in ProtectionState \union {"none"} /\ n[1] \in {"active", AlgoView(k), "unknown"}
    BY <2>3 DEF ProtectionState
  <2>5. r \in RowTypes /\ r.state = n[1]
    BY <2>4 DEF RowTypes
  <2>6. Fits(k, r.state)
    BY <2>4, <2>5 DEF Fits
  <2> HIDE DEF r
  <2> QED
    BY <2>2, <2>5, <2>6 DEF RowChange, r
<1>5. CASE Exchange \/ Watchdog
  BY <1>5 DEF Exchange, XBuyFill, XBuyEnds, XTrigger, XAlgoEnds, XSellFill, XSellEnds, Watchdog, WatchDetects,
     WatchDeadline, WatchClears, journal
<1>6. CASE ExitBegin \/ RecBegin \/ BuyNews \/ SellNews \/ NewBuy \/ Flatten \/ LeaseExpires \/ ExitDeadline \/ Crash
  BY <1>6 DEF ExitBegin, RecBegin, BuyNews, SellNews, NewBuy, Flatten, LeaseExpires, ExitDeadline, Crash, journal
<1> QED
  BY <1>2, <1>3, <1>4, <1>5, <1>6 DEF Next

-----------------------------------------------------------------------------
(* The rest of the journal, and the budget of faults.                      *)

Modes == {"ready", "degraded", "emergency"}

LEMMA FaultStep ==
  ASSUME CoreInv, Next
  PROVE  Faults'
<1>1. faults \in Nat /\ MaxFaults \in Nat /\ faults <= MaxFaults
  BY ExitConstants DEF CoreInv, Faults
<1>2. CASE UNCHANGED faults \/ Fault
  BY <1>1, <1>2 DEF Fault, Faults
<1>3. ASSUME NEW k, NEW p, NEW a, NEW d, AnswerFor(k, p, a, d) PROVE UNCHANGED faults \/ Fault
  BY <1>3 DEF AnswerFor
<1>4. ASSUME NEW k, NEW p, CancelAlgo(k, p) PROVE UNCHANGED faults \/ Fault
  BY <1>3, <1>4, Zenon DEF CancelAlgo
<1>5. ASSUME NEW s, SubmitSell(s) PROVE UNCHANGED faults \/ Fault
  BY <1>5 DEF SubmitSell
<1>6. CASE Exchange \/ Watchdog \/ NewBuy \/ Flatten \/ LeaseExpires \/ ExitDeadline \/ AlgoNews \/ BuyNews \/ SellNews
           \/ ExitBegin \/ RecBegin \/ Crash
  <2>1. UNCHANGED faults \/ Fault
    BY <1>6 DEF Exchange, XBuyFill, XBuyEnds, XTrigger, XAlgoEnds, XSellFill, XSellEnds, Watchdog, WatchDetects,
       WatchDeadline, WatchClears, NewBuy, Flatten, LeaseExpires, ExitDeadline, AlgoNews, BuyNews, SellNews,
       ExitBegin, RecBegin, Crash
  <2> QED
    BY <1>2, <2>1
<1>7. CASE Protect
  <2>1. UNCHANGED faults \/ Fault
    BY <1>3, <1>4, <1>5, <1>7, Zenon DEF Protect, EnsureRefused, EnsureActive, EnsureBlocked, EnsureNew, MarkSubmitting, Place, PlacedSeen,
       PlacedUnresolved, PlacedRefused, Amend, AmendSeen, AmendFailed, Abort, AbortSeen, AbortFailed, EmergencySell,
       CancelNext, CancelAnswered, Answer, Unmapped
  <2> QED
    BY <1>2, <2>1
<1>8. CASE Exit
  <2>1. UNCHANGED faults \/ Fault
    BY <1>3, <1>5, <1>8, Zenon DEF Exit, ExitResolvesBuy, ExitCancelsBuy, ExitBuyAnswered, ExitResolvesSells, ExitSkipsRow,
       ExitSeesTrigger, ExitSettlesTrigger, ExitCancelsAll, ExitCanceled, ExitCounts, ExitSell, ExitReturn, Answer
  <2> QED
    BY <1>2, <2>1
<1>9. CASE Reconcile
  <2>1. UNCHANGED faults \/ Fault
    BY <1>4, <1>9, Zenon DEF Reconcile, RecOrders, RecAlgos, RecRemote, RecCanceled, RecRemoteDone, RecLocal,
       RecLocalDone, RecEnd, Unmapped
  <2> QED
    BY <1>2, <2>1
<1> QED
  BY <1>6, <1>7, <1>8, <1>9 DEF Next

\* Only a reconciliation's verdict makes a system READY, and only Flatten ends an emergency.
LEMMA ModeMoves ==
  ASSUME Next
  PROVE  UNCHANGED mode \/ Degrade \/ Emergency \/ RecEnd \/ Flatten
<1>1. CASE Exchange \/ Watchdog
  BY <1>1 DEF Exchange, XBuyFill, XBuyEnds, XTrigger, XAlgoEnds, XSellFill, XSellEnds, Watchdog, WatchDetects,
     WatchDeadline, WatchClears, journal
<1>2. CASE NewBuy \/ LeaseExpires \/ ExitDeadline \/ AlgoNews \/ BuyNews \/ SellNews \/ ExitBegin \/ RecBegin \/ Crash
  BY <1>2, Zenon DEF NewBuy, LeaseExpires, ExitDeadline, AlgoNews, BuyNews, SellNews, ExitBegin, RecBegin, Crash, journal
<1>3. CASE Protect
  <2>1. UNCHANGED mode \/ Degrade \/ Emergency \/ Raised
    BY <1>3, Zenon DEF Protect, EnsureRefused, EnsureActive, EnsureBlocked, EnsureNew, MarkSubmitting, Place, PlacedSeen,
       PlacedUnresolved, PlacedRefused, Amend, AmendSeen, AmendFailed, Abort, AbortSeen, AbortFailed, EmergencySell,
       CancelNext, CancelAnswered, GiveUp, journal
  <2> QED
    BY <2>1 DEF Raised, Emergency
<1>4. CASE Exit
  BY <1>4, Zenon DEF Exit, ExitResolvesBuy, ExitCancelsBuy, ExitBuyAnswered, ExitResolvesSells, ExitSkipsRow,
     ExitSeesTrigger, ExitSettlesTrigger, ExitCancelsAll, ExitCanceled, ExitCounts, ExitSell, ExitReturn, journal
<1>5. CASE Reconcile
  BY <1>5, Zenon DEF Reconcile, RecOrders, RecAlgos, RecRemote, RecCanceled, RecRemoteDone, RecLocal, RecLocalDone, journal
<1> QED
  BY <1>1, <1>2, <1>3, <1>4, <1>5 DEF Next

LEMMA ModeStep ==
  ASSUME CoreInv, Next
  PROVE  mode' \in Modes
<1>1. mode \in Modes
  BY DEF CoreInv, JournalTypes, Modes
<1> QED
  BY <1>1, ModeMoves DEF Degrade, Emergency, RecEnd, Flatten, Modes

LEMMA PositionStep ==
  ASSUME CoreInv, Next
  PROVE  position' \in Nat
<1>1. JournalTypes /\ ExchangeTypes /\ position \in Nat /\ buy.acc <= xbuy.acc /\ buy.acc \in Nat /\ xbuy.acc \in Nat
  BY DEF CoreInv, JournalTypes, ExchangeTypes, BuyBooked
<1>2. ASSUME SyncBuy PROVE position' \in Nat
  <2>1. position' = position + (xbuy.acc - buy.acc)
    BY <1>2 DEF SyncBuy
  <2> QED
    BY <1>1, <2>1
<1>3. ASSUME NEW s \in Sells, SyncSell(s) PROVE position' \in Nat
  BY <1>1, <1>3, SoldNat
<1>4. CASE Exchange \/ Watchdog \/ NewBuy \/ LeaseExpires \/ ExitDeadline \/ AlgoNews \/ ExitBegin \/ RecBegin \/ Crash
  <2>1. UNCHANGED position
    BY <1>4 DEF Exchange, XBuyFill, XBuyEnds, XTrigger, XAlgoEnds, XSellFill, XSellEnds, Watchdog, WatchDetects,
       WatchDeadline, WatchClears, NewBuy, LeaseExpires, ExitDeadline, AlgoNews, ExitBegin, RecBegin, Crash, journal
  <2> QED
    BY <1>1, <2>1
<1>5. CASE Flatten
  BY <1>5 DEF Flatten
<1>6. CASE BuyNews
  <2>1. PICK a \in buy.acc..xbuy.acc : position' = position + (a - buy.acc)
    BY <1>6 DEF BuyNews
  <2> QED
    BY <1>1, <2>1
<1>7. CASE SellNews
  BY <1>3, <1>7 DEF SellNews
<1>8. CASE Protect
  <2>1. UNCHANGED position
    BY <1>8, Zenon DEF Protect, EnsureRefused, EnsureActive, EnsureBlocked, EnsureNew, MarkSubmitting, Place, PlacedSeen,
       PlacedUnresolved, PlacedRefused, Amend, AmendSeen, AmendFailed, Abort, AbortSeen, AbortFailed, EmergencySell,
       CancelNext, CancelAnswered, journal
  <2> QED
    BY <1>1, <2>1
<1>9. CASE ExitResolvesBuy \/ ExitBuyAnswered
  <2>1. UNCHANGED position \/ SyncBuy
    BY <1>9 DEF ExitResolvesBuy, ExitBuyAnswered
  <2> QED
    BY <1>1, <1>2, <2>1
<1>10. CASE ExitResolvesSells
  <2>1. PendingSells \in SUBSET Sells
    BY DEF PendingSells
  <2>2. UNCHANGED position \/ (PendingSells # {} /\ SyncSell(Min(PendingSells)))
    BY <1>10, Zenon DEF ExitResolvesSells
  <2> QED
    BY <1>1, <1>3, <2>1, <2>2, MinSell
<1>11. CASE ExitSettlesTrigger
  <2> DEFINE k == Min(op.todo)
  <2>1. k \in Prots /\ prot[k].state = "triggered"
    <3>1. op.todo \in SUBSET Prots
      BY DEF CoreInv, Sound, Threads
    <3> QED
      BY <1>11, <3>1, MinRow DEF ExitSettlesTrigger
  <2>2. algo[k].child \in Sells
    BY <2>1 DEF CoreInv, RowsBooked
  <2>3. UNCHANGED position \/ SyncSell(algo[k].child)
    BY <1>11, Zenon DEF ExitSettlesTrigger
  <2> QED
    BY <1>1, <1>3, <2>2, <2>3
<1>12. CASE ExitCancelsBuy \/ ExitSkipsRow \/ ExitSeesTrigger \/ ExitCancelsAll \/ ExitCanceled \/ ExitCounts \/ ExitSell
            \/ ExitReturn
  <2>1. UNCHANGED position
    BY <1>12 DEF ExitCancelsBuy, ExitSkipsRow, ExitSeesTrigger, ExitCancelsAll, ExitCanceled, ExitCounts, ExitSell,
       ExitReturn, journal
  <2> QED
    BY <1>1, <2>1
<1>13. CASE Reconcile
  <2>1. UNCHANGED position \/ position' = op.want
    BY <1>13, Zenon DEF Reconcile, RecOrders, RecAlgos, RecRemote, RecCanceled, RecRemoteDone, RecLocal,
       RecLocalDone, RecEnd, journal
  <2>2. op.want \in Nat
    BY DEF CoreInv, Sound, Threads
  <2> QED
    BY <1>1, <2>1, <2>2
<1> QED
  BY <1>4, <1>5, <1>6, <1>7, <1>8, <1>9, <1>10, <1>11, <1>12, <1>13 DEF Next, Exit

BuyTypes == [open : BOOLEAN, acc : Nat]

SellRows == [state : {"none", "unknown", "live", "filled", "canceled"}, acc : Nat]

LEMMA BuyStep ==
  ASSUME CoreInv, Next
  PROVE  buy' \in BuyTypes
<1>1. buy \in BuyTypes /\ xbuy.live \in BOOLEAN /\ xbuy.acc \in Nat /\ buy.acc \in Nat
  BY DEF CoreInv, JournalTypes, ExchangeTypes, BuyTypes
<1>2. CASE UNCHANGED buy
  BY <1>1, <1>2
<1>3. CASE ExchangeRests
  BY <1>2, <1>3 DEF ExchangeRests
<1>4. CASE \/ XBuyFill \/ XBuyEnds \/ XTrigger \/ XAlgoEnds \/ XSellFill \/ XSellEnds \/ Place \/ Amend \/ Abort
           \/ CancelNext \/ EmergencySell \/ ExitSell \/ ExitCancelsBuy \/ RecRemote \/ RecLocal
  <2>1. UNCHANGED buy
    BY <1>4 DEF XBuyFill, XBuyEnds, XTrigger, XAlgoEnds, XSellFill, XSellEnds, Place, Amend, Abort, CancelNext,
       EmergencySell, ExitSell, ExitCancelsBuy, RecRemote, RecLocal, journal
  <2> QED
    BY <1>2, <2>1
<1>5. CASE ExitResolvesBuy \/ ExitBuyAnswered \/ RecOrders
  <2>1. UNCHANGED buy \/ buy' = [open |-> xbuy.live, acc |-> xbuy.acc]
    BY <1>5, Zenon DEF ExitResolvesBuy, ExitBuyAnswered, RecOrders, SyncBuy
  <2> QED
    BY <1>1, <2>1 DEF BuyTypes
<1>6. CASE BuyNews
  <2>1. \E a \in buy.acc..xbuy.acc : \E e : buy' = [open |-> ~e, acc |-> a]
    BY <1>6, Zenon DEF BuyNews
  <2>2. \E a \in buy.acc..xbuy.acc : \E g \in BOOLEAN : buy' = [open |-> g, acc |-> a]
    BY <2>1
  <2>3. \A a \in buy.acc..xbuy.acc : a \in Nat
    BY <1>1
  <2> QED
    BY <2>2, <2>3 DEF BuyTypes
<1>7. CASE NewBuy
  BY <1>7 DEF NewBuy, BuyTypes
<1> QED
  BY <1>3, <1>4, <1>5, <1>6, <1>7, BooksElsewhere

LEMMA SellRowStep ==
  ASSUME CoreInv, Next
  PROVE  sell' \in [Sells -> SellRows]
<1>1. sell \in [Sells -> SellRows] /\ \A s \in Sells : xsell[s] \in SellTypes
  BY Booked DEF CoreInv, JournalTypes, SellRows
<1>2. ASSUME NEW s \in Sells, SyncSell(s) PROVE sell' \in [Sells -> SellRows]
  <2>1. [state |-> xsell[s].state, acc |-> xsell[s].acc] \in SellRows
    BY <1>1 DEF SellTypes, SellRows
  <2> QED
    BY <1>1, <1>2, <2>1 DEF SyncSell
<1>3. ASSUME NEW s \in Sells, SubmitSell(s) PROVE sell' \in [Sells -> SellRows]
  <2>1. PICK t \in {"live", "unknown"} : sell' = [sell EXCEPT ![s].state = t]
    BY <1>3 DEF SubmitSell
  <2> QED
    BY <1>1, <2>1 DEF SellRows
<1>4. PendingSells \in SUBSET Sells /\ FreeSells \in SUBSET Sells
  BY DEF PendingSells, FreeSells
<1>5. CASE Exchange \/ Watchdog \/ NewBuy \/ Flatten \/ LeaseExpires \/ ExitDeadline \/ AlgoNews \/ BuyNews \/ ExitBegin
           \/ RecBegin \/ Crash
  <2>1. UNCHANGED sell
    BY <1>5 DEF Exchange, XBuyFill, XBuyEnds, XTrigger, XAlgoEnds, XSellFill, XSellEnds, Watchdog, WatchDetects,
       WatchDeadline, WatchClears, NewBuy, Flatten, LeaseExpires, ExitDeadline, AlgoNews, BuyNews, ExitBegin, RecBegin,
       Crash, journal
  <2> QED
    BY <1>1, <2>1
<1>6. CASE SellNews
  BY <1>2, <1>6 DEF SellNews
<1>7. CASE Protect
  <2>1. UNCHANGED sell \/ (FreeSells # {} /\ SubmitSell(Min(FreeSells)))
    BY <1>7, Zenon DEF Protect, EnsureRefused, EnsureActive, EnsureBlocked, EnsureNew, MarkSubmitting, Place, PlacedSeen,
       PlacedUnresolved, PlacedRefused, Amend, AmendSeen, AmendFailed, Abort, AbortSeen, AbortFailed, EmergencySell,
       CancelNext, CancelAnswered, journal
  <2> QED
    BY <1>1, <1>3, <1>4, <2>1, MinSell
<1>8. CASE ExitResolvesSells
  <2>1. UNCHANGED sell \/ (PendingSells # {} /\ SyncSell(Min(PendingSells)))
    BY <1>8, Zenon DEF ExitResolvesSells
  <2> QED
    BY <1>1, <1>2, <1>4, <2>1, MinSell
<1>9. CASE ExitSettlesTrigger
  <2> DEFINE k == Min(op.todo)
  <2>1. k \in Prots /\ prot[k].state = "triggered"
    <3>1. op.todo \in SUBSET Prots
      BY DEF CoreInv, Sound, Threads
    <3> QED
      BY <1>9, <3>1, MinRow DEF ExitSettlesTrigger
  <2>2. algo[k].child \in Sells
    BY <2>1 DEF CoreInv, RowsBooked
  <2>3. UNCHANGED sell \/ SyncSell(algo[k].child)
    BY <1>9, Zenon DEF ExitSettlesTrigger
  <2> QED
    BY <1>1, <1>2, <2>2, <2>3
<1>10. CASE ExitSell
  <2>1. UNCHANGED sell \/ (FreeSells # {} /\ SubmitSell(Min(FreeSells)))
    BY <1>10 DEF ExitSell
  <2> QED
    BY <1>1, <1>3, <1>4, <2>1, MinSell
<1>11. CASE Exit /\ ~ExitResolvesSells /\ ~ExitSettlesTrigger /\ ~ExitSell
  <2>1. UNCHANGED sell
    BY <1>11 DEF Exit, ExitResolvesBuy, ExitCancelsBuy, ExitBuyAnswered, ExitSkipsRow, ExitSeesTrigger, ExitCancelsAll,
       ExitCanceled, ExitCounts, ExitReturn, journal
  <2> QED
    BY <1>1, <2>1
<1>12. CASE RecOrders
  <2>1. PICK V \in SUBSET Sells :
          sell' = [s \in Sells |-> IF s \in V THEN [state |-> xsell[s].state, acc |-> xsell[s].acc] ELSE sell[s]]
    <3>1. Visible \in SUBSET Sells
      BY DEF Visible
    <3>2. PICK M \in SUBSET {s \in Visible : xsell[s].state # "live"} :
            sell' = [s \in Sells |-> IF s \in Visible \ M
                       THEN [state |-> xsell[s].state, acc |-> xsell[s].acc] ELSE sell[s]]
      BY <1>12, Zenon DEF RecOrders
    <3> QED
      BY <3>1, <3>2
  <2>2. \A s \in Sells : [state |-> xsell[s].state, acc |-> xsell[s].acc] \in SellRows
    BY <1>1 DEF SellTypes, SellRows
  <2> QED
    BY <1>1, <2>1, <2>2
<1>13. CASE Reconcile /\ ~RecOrders
  <2>1. UNCHANGED sell
    BY <1>13, Zenon DEF Reconcile, RecAlgos, RecRemote, RecCanceled, RecRemoteDone, RecLocal, RecLocalDone, RecEnd, journal
  <2> QED
    BY <1>1, <2>1
<1> QED
  BY <1>5, <1>6, <1>7, <1>8, <1>9, <1>10, <1>11, <1>12, <1>13 DEF Next

Watches == [since : BOOLEAN, reported : BOOLEAN, task : BOOLEAN]

\* The steps that neither take the lease nor look at the clock.
LEMMA LeaseElsewhere ==
  ASSUME Next
  PROVE  \/ UNCHANGED <<lease, watch>>
         \/ ExitBegin \/ ExitReturn \/ LeaseExpires \/ Crash \/ Watchdog \/ AlgoNews
<1>1. CASE Exchange \/ NewBuy \/ Flatten \/ ExitDeadline \/ BuyNews \/ SellNews \/ RecBegin
  BY <1>1 DEF Exchange, XBuyFill, XBuyEnds, XTrigger, XAlgoEnds, XSellFill, XSellEnds, NewBuy, Flatten, ExitDeadline,
     BuyNews, SellNews, RecBegin, journal
<1>2. CASE Protect
  BY <1>2, Zenon DEF Protect, EnsureRefused, EnsureActive, EnsureBlocked, EnsureNew, MarkSubmitting, Place, PlacedSeen,
     PlacedUnresolved, PlacedRefused, Amend, AmendSeen, AmendFailed, Abort, AbortSeen, AbortFailed, EmergencySell,
     CancelNext, CancelAnswered, journal
<1>3. CASE Exit /\ ~ExitReturn
  BY <1>3, Zenon DEF Exit, ExitResolvesBuy, ExitCancelsBuy, ExitBuyAnswered, ExitResolvesSells, ExitSkipsRow,
     ExitSeesTrigger, ExitSettlesTrigger, ExitCancelsAll, ExitCanceled, ExitCounts, ExitSell, journal
<1>4. CASE Reconcile
  BY <1>4, Zenon DEF Reconcile, RecOrders, RecAlgos, RecRemote, RecCanceled, RecRemoteDone, RecLocal, RecLocalDone,
     RecEnd, journal
<1> QED
  BY <1>1, <1>2, <1>3, <1>4 DEF Next

LEMMA LeaseStep ==
  ASSUME CoreInv, Next
  PROVE  lease' \in {"free", "mine", "left"} /\ watch' \in Watches
<1>1. lease \in {"free", "mine", "left"} /\ watch \in Watches
  BY DEF CoreInv, JournalTypes, Watches
<1>2. CASE UNCHANGED <<lease, watch>>
  BY <1>1, <1>2
<1>3. CASE ExitBegin
  <2>1. lease' \in {"free", "mine", "left"}
    BY <1>1, <1>3 DEF ExitBegin
  <2>2. UNCHANGED watch \/ watch' = [watch EXCEPT !.task = FALSE, !.reported = FALSE]
    BY <1>3 DEF ExitBegin
  <2> QED
    BY <1>1, <2>1, <2>2 DEF Watches
<1>4. CASE ExitReturn
  <2>1. lease' \in {"free", "mine", "left"}
    BY <1>1, <1>4, Zenon DEF ExitReturn
  <2>2. UNCHANGED watch \/ \E r : watch' = [watch EXCEPT !.task = FALSE, !.reported = r = "filled" /\ @]
    BY <1>4, Zenon DEF ExitReturn
  <2>3. watch' \in Watches
    <3>1. CASE UNCHANGED watch
      BY <1>1, <3>1
    <3>2. CASE ~UNCHANGED watch
      <4>1. PICK r : watch' = [watch EXCEPT !.task = FALSE, !.reported = (r = "filled" /\ watch.reported)]
        BY <2>2, <3>2
      <4>2. (r = "filled" /\ watch.reported) \in BOOLEAN
        OBVIOUS
      <4>3. PICK g \in BOOLEAN : watch' = [watch EXCEPT !.task = FALSE, !.reported = g]
        BY <4>1, <4>2
      <4> QED
        BY <1>1, <4>3 DEF Watches
    <3> QED
      BY <3>1, <3>2
  <2> QED
    BY <2>1, <2>3
<1>5. CASE LeaseExpires
  BY <1>1, <1>5 DEF LeaseExpires
<1>6. CASE Crash
  <2>1. lease' \in {"free", "mine", "left"}
    BY <1>1, <1>6 DEF Crash
  <2>2. watch' = [since |-> FALSE, reported |-> FALSE, task |-> FALSE]
    BY <1>6 DEF Crash
  <2> QED
    BY <2>1, <2>2 DEF Watches
<1>7. CASE Watchdog
  <2>1. UNCHANGED lease
    BY <1>7 DEF Watchdog, WatchDetects, WatchDeadline, WatchClears, journal
  <2>2. \/ watch' = [watch EXCEPT !.since = TRUE]
        \/ watch' = [watch EXCEPT !.reported = TRUE, !.task = TRUE]
        \/ watch' = [watch EXCEPT !.since = FALSE, !.reported = FALSE]
    BY <1>7 DEF Watchdog, WatchDetects, WatchDeadline, WatchClears
  <2>3. watch' \in Watches
    BY <1>1, <2>2 DEF Watches
  <2> QED
    BY <1>1, <2>1, <2>3
<1>8. CASE AlgoNews
  <2>1. UNCHANGED lease
    BY <1>8 DEF AlgoNews
  <2>2. UNCHANGED watch \/ watch' = [watch EXCEPT !.since = TRUE]
    BY <1>8, Zenon DEF AlgoNews
  <2>3. watch' \in Watches
    BY <1>1, <2>2 DEF Watches
  <2> QED
    BY <1>1, <2>1, <2>3
<1> QED
  BY <1>2, <1>3, <1>4, <1>5, <1>6, <1>7, <1>8, LeaseElsewhere

LEMMA JournalStep ==
  ASSUME CoreInv, Next
  PROVE  JournalTypes'
<1>1. mode' \in Modes /\ lease' \in {"free", "mine", "left"} /\ watch' \in Watches /\ position' \in Nat
  BY ModeStep, LeaseStep, PositionStep
<1>2. buy' \in BuyTypes /\ sell' \in [Sells -> SellRows]
  BY BuyStep, SellRowStep
<1>3. prot' \in [Prots -> RowTypes]
  <2>1. prot \in [Prots -> RowTypes]
    BY DEF CoreInv, JournalTypes, RowTypes
  <2>2. UNCHANGED prot \/ RowChange
    BY RowsProtect, RowsReconcile, RowsElsewhere
  <2> QED
    BY <2>1, <2>2 DEF RowChange
<1> QED
  BY <1>1, <1>2, <1>3 DEF JournalTypes, Modes, Watches, BuyTypes, SellRows, RowTypes

-----------------------------------------------------------------------------
(* RowsBooked.                                                             *)

\* What may become of an OCO and of a SELL of the exchange.
AlgoKeeps(k) ==
  algo'[k].state = algo[k].state /\ algo'[k].child = algo[k].child /\ algo'[k].misread = algo[k].misread

AlgoFires(k) ==
  /\ k \in LiveAlgos /\ algo'[k].state = "triggered" /\ algo'[k].misread = algo[k].misread
  /\ algo'[k].child \in Sells /\ xsell'[algo'[k].child].state # "none" /\ sell[algo'[k].child].state = "none"

AlgoLeaves(k) ==
  k \in LiveAlgos /\ algo'[k].state \in {"canceling", "canceled", "failed"} /\ algo'[k].misread = algo[k].misread

AlgoPlaced(k) ==
  /\ op.pc = "place" /\ op'.pc = "placed" /\ k = op.k /\ algo'[k].state = "live" /\ UNCHANGED prot

AlgosMove == \A k \in Prots : AlgoKeeps(k) \/ AlgoFires(k) \/ AlgoLeaves(k) \/ AlgoPlaced(k)

SellsMove == \A s \in Sells : xsell'[s].state = "none" => xsell[s].state = "none"

LEMMA CancelMoves ==
  ASSUME CoreInv, NEW k \in Prots, NEW p, CancelAlgo(k, p)
  PROVE  AlgosMove
<1>1. UNCHANGED algo \/ (k \in LiveAlgos /\ algo' = [algo EXCEPT ![k].state = "canceling"])
  BY Zenon DEF CancelAlgo
<1>2. algo \in [Prots -> AlgoTypes]
  BY DEF CoreInv, ExchangeTypes, AlgoTypes
<1>3. CASE UNCHANGED algo
  BY <1>3 DEF AlgosMove, AlgoKeeps
<1>4. CASE k \in LiveAlgos /\ algo' = [algo EXCEPT ![k].state = "canceling"]
  BY <1>2, <1>4 DEF AlgosMove, AlgoKeeps, AlgoLeaves, AlgoTypes
<1> QED
  BY <1>1, <1>3, <1>4

LEMMA SubmitMoves ==
  ASSUME CoreInv, FreeSells # {}, SubmitSell(Min(FreeSells))
  PROVE  SellsMove
<1>1. xsell \in [Sells -> SellTypes]
  BY DEF CoreInv, ExchangeTypes, SellTypes
<1>2. FreeSells \in SUBSET Sells
  BY DEF FreeSells
<1>3. Min(FreeSells) \in Sells
  BY <1>2, MinSell
<1> DEFINE s == Min(FreeSells)
<1>4. UNCHANGED xsell \/ xsell' = [xsell EXCEPT ![s] = [state |-> "live", qty |-> op.want, acc |-> 0]]
  BY DEF SubmitSell
<1> HIDE DEF s
<1> QED
  BY <1>1, <1>4 DEF SellsMove

LEMMA ExchangeMoves ==
  ASSUME CoreInv, Next
  PROVE  AlgosMove /\ SellsMove
<1>1. algo \in [Prots -> AlgoTypes] /\ xsell \in [Sells -> SellTypes] /\ op \in Threads
  BY DEF CoreInv, ExchangeTypes, AlgoTypes, SellTypes, Sound
<1>2. ASSUME UNCHANGED algo PROVE AlgosMove
  BY <1>2 DEF AlgosMove, AlgoKeeps
<1>3. ASSUME UNCHANGED xsell PROVE SellsMove
  BY <1>3 DEF SellsMove
<1>4. CASE ExchangeRests \/ XBuyFill \/ XBuyEnds \/ ExitResolvesBuy \/ ExitCancelsBuy \/ ExitBuyAnswered \/ RecOrders
           \/ BuyNews \/ NewBuy
  <2>1. UNCHANGED <<algo, xsell>>
    BY <1>4 DEF ExchangeRests, XBuyFill, XBuyEnds, ExitResolvesBuy, ExitCancelsBuy, ExitBuyAnswered, RecOrders,
       BuyNews, NewBuy, exchange
  <2> QED
    BY <1>2, <1>3, <2>1
<1>5. CASE XTrigger
  <2>1. FreeSells \in SUBSET Sells
    BY DEF FreeSells
  <2>2. Min(FreeSells) \in Sells /\ sell[Min(FreeSells)].state = "none"
    BY <1>5, <2>1, MinSell DEF XTrigger, FreeSells
  <2>3. PICK k \in LiveAlgos, s \in Sells :
          /\ sell[s].state = "none"
          /\ algo' = [algo EXCEPT ![k].state = "triggered", ![k].child = s]
          /\ xsell' = [xsell EXCEPT ![s] = [state |-> "live", qty |-> algo[k].qty, acc |-> 0]]
    BY <1>5, <2>2 DEF XTrigger
  <2>4. k \in Prots
    BY DEF LiveAlgos
  <2>5. /\ algo'[k].state = "triggered" /\ algo'[k].child = s /\ algo'[k].misread = algo[k].misread
        /\ \A j \in Prots \ {k} : algo'[j] = algo[j]
    BY <1>1, <2>3, <2>4 DEF AlgoTypes
  <2>6. xsell'[s].state = "live" /\ \A t \in Sells \ {s} : xsell'[t] = xsell[t]
    BY <1>1, <2>3
  <2>7. sell[s].state = "none"
    BY <2>3
  <2> QED
    BY <2>5, <2>6, <2>7 DEF AlgosMove, AlgoKeeps, AlgoFires, SellsMove
<1>6. CASE XAlgoEnds
  <2>1. PICK k \in LiveAlgos, t \in {"canceled", "failed"} : algo' = [algo EXCEPT ![k].state = t]
    BY <1>6 DEF XAlgoEnds
  <2>2. k \in Prots /\ UNCHANGED xsell
    BY <1>6 DEF LiveAlgos, XAlgoEnds
  <2>3. algo'[k].state = t /\ algo'[k].misread = algo[k].misread /\ \A j \in Prots \ {k} : algo'[j] = algo[j]
    BY <1>1, <2>1, <2>2 DEF AlgoTypes
  <2> QED
    BY <1>3, <2>2, <2>3 DEF AlgosMove, AlgoKeeps, AlgoLeaves
<1>7. CASE XSellFill \/ XSellEnds
  <2>1. UNCHANGED algo
    BY <1>7 DEF XSellFill, XSellEnds
  <2>2. PICK s \in LiveSells : \E x \in {"live", "filled", "canceled"} : \E n :
          xsell' = [xsell EXCEPT ![s].acc = n, ![s].state = x] \/ xsell' = [xsell EXCEPT ![s].state = x]
    <3>1. CASE XSellEnds
      BY <3>1 DEF XSellEnds
    <3>2. CASE XSellFill
      BY <3>2 DEF XSellFill
    <3> QED
      BY <1>7, <3>1, <3>2
  <2>3. s \in Sells /\ xsell[s].state = "live"
    BY DEF LiveSells
  <2>4. xsell'[s].state \in {"live", "filled", "canceled"} /\ \A t \in Sells \ {s} : xsell'[t] = xsell[t]
    BY <1>1, <2>2, <2>3 DEF SellTypes
  <2>5. SellsMove
    BY <2>4 DEF SellsMove
  <2> QED
    BY <1>2, <2>1, <2>5
<1>8. CASE Place
  <2>1. UNCHANGED <<xsell, prot>> /\ op.pc = "place" /\ op.k \in Prots
    BY <1>1, <1>8 DEF Place, At, Threads, journal
  <2>2. \E a, d : Answer("placed", a, d)
    BY <1>8 DEF Place
  <2>3. CASE ~UNCHANGED algo
    <3>1. op'.pc = "placed"
      BY <1>1, <2>2 DEF Answer, AnswerFor, Threads, PC
    <3>2. \E m : algo' = [algo EXCEPT ![op.k] = [state |-> "live", qty |-> op.want, past |-> {op.want},
                                                child |-> 0, misread |-> m]]
      BY <1>8, <2>3, Zenon DEF Place
    <3>3. algo'[op.k].state = "live" /\ \A j \in Prots \ {op.k} : algo'[j] = algo[j]
      BY <1>1, <2>1, <3>2
    <3> QED
      BY <1>3, <2>1, <3>1, <3>3 DEF AlgosMove, AlgoKeeps, AlgoPlaced
  <2> QED
    BY <1>2, <1>3, <2>1, <2>3
<1>9. CASE Amend
  <2>1. UNCHANGED xsell /\ op.k \in Prots
    BY <1>1, <1>9 DEF Amend, Threads
  <2>2. UNCHANGED algo \/ algo' = [algo EXCEPT ![op.k].qty = op.want, ![op.k].past = @ \union {op.want}]
    BY <1>9, Zenon DEF Amend
  <2>3. AlgosMove
    BY <1>1, <1>2, <2>1, <2>2 DEF AlgosMove, AlgoKeeps, AlgoTypes
  <2> QED
    BY <1>3, <2>1, <2>3
<1>10. CASE Abort \/ CancelNext \/ RecRemote \/ RecLocal
  <2>1. UNCHANGED xsell
    BY <1>10 DEF Abort, CancelNext, RecRemote, RecLocal
  <2>2. UNCHANGED algo \/ \E k \in Prots : \E p : CancelAlgo(k, p)
    BY <1>10, CancelsFrom DEF CoreInv
  <2> QED
    BY <1>2, <1>3, <2>1, <2>2, CancelMoves
<1>11. CASE EmergencySell \/ ExitSell
  <2>1. UNCHANGED algo
    BY <1>11 DEF EmergencySell, ExitSell
  <2>2. UNCHANGED xsell \/ (FreeSells # {} /\ SubmitSell(Min(FreeSells)))
    BY <1>11 DEF EmergencySell, ExitSell
  <2> QED
    BY <1>2, <1>3, <2>1, <2>2, SubmitMoves
<1> QED
  BY <1>4, <1>5, <1>6, <1>7, <1>8, <1>9, <1>10, <1>11, BooksElsewhere

\* Where a step may leave the thread without anything to be said of a row.
Plain == PC \ {"submit", "place", "placed", "amend", "amended", "cancel", "canceled"}

\* The thread goes to cancel what the journal counts as outstanding.
Cancels == op'.pc = "cancel" /\ op'.left = ActiveOnly /\ UNCHANGED <<prot, algo>>

LEMMA RetsPlain == Rets \subseteq Plain
BY DEF Rets, Plain, PC

LEMMA PcReturns == ASSUME Sound(op), Return PROVE op'.pc \in Plain
BY ThreadReturns, RetsPlain DEF Sound

LEMMA PcRaised == ASSUME Sound(op), Raised PROVE op'.pc \in Plain
<1>1. CASE Return
  BY <1>1, PcReturns
<1>2. CASE Go("esell")
  BY <1>2 DEF Go, Sound, Threads, Plain, PC
<1> QED
  BY <1>1, <1>2 DEF Raised

LEMMA PcAfterSell ==
  ASSUME NEW o \in Threads, o.ret \in Rets, NEW p \in Nat, NEW r \in Rets
  PROVE  \/ AfterSell(o, p, r).pc \in Plain
         \/ AfterSell(o, p, r).pc = "cancel" /\ AfterSell(o, p, r).left = ActiveOnly
<1>1. CASE p = 0
  <2>1. AfterSell(o, p, r) = [o EXCEPT !.pc = "cancel", !.left = ActiveOnly, !.ok = TRUE, !.ret = r]
    BY <1>1 DEF AfterSell
  <2> QED
    BY <2>1 DEF Threads
<1>2. CASE p # 0 /\ Actives # {}
  BY <1>2 DEF AfterSell, Threads, Plain, PC
<1>3. CASE p # 0 /\ Actives = {}
  <2>1. AfterSell(o, p, r) = BackTo(o, r)
    BY <1>3 DEF AfterSell
  <2> QED
    BY <2>1, SoundBack, RetsPlain
<1> QED
  BY <1>1, <1>2, <1>3

LEMMA PcProtects ==
  ASSUME CoreInv, Protect
  PROVE  \/ op'.pc \in Plain
         \/ EnsureActive \/ EnsureBlocked \/ EnsureNew \/ MarkSubmitting \/ Place \/ Amend \/ CancelNext \/ CancelAnswered
<1>1. Sound(op) /\ op \in Threads
  BY DEF CoreInv, Sound
<1>2. ASSUME NEW p \in {"abort", "aborted", "esell"}, Go(p) PROVE op'.pc \in Plain
  BY <1>1, <1>2 DEF Go, Threads, Plain, PC
<1>3. CASE EnsureRefused
  BY <1>1, <1>3, PcRaised DEF EnsureRefused
<1>4. CASE PlacedSeen \/ PlacedUnresolved \/ PlacedRefused \/ AmendSeen \/ AmendFailed \/ AbortSeen \/ AbortFailed
           \/ EmergencySell
  <2>1. Return \/ Raised \/ \E p \in {"abort", "esell"} : Go(p)
    BY <1>4 DEF PlacedSeen, PlacedUnresolved, PlacedRefused, AmendSeen, AmendFailed, AbortSeen, AbortFailed,
       EmergencySell, GiveUp
  <2> QED
    BY <1>1, <1>2, <2>1, PcReturns, PcRaised
<1>5. CASE Abort
  <2>1. \E k, a, d : AnswerFor(k, "aborted", a, d)
    BY <1>5, Zenon DEF Abort, CancelAlgo
  <2> QED
    BY <1>1, <2>1 DEF AnswerFor, Threads, Plain, PC
<1> QED
  BY <1>3, <1>4, <1>5 DEF Protect

LEMMA PcExits ==
  ASSUME CoreInv, Exit
  PROVE  op'.pc \in Plain \/ Cancels
<1>1. /\ Sound(op) /\ op \in Threads /\ op.ret \in Rets /\ op.pc \in PC
  BY DEF CoreInv, Sound, Threads
<1>2. ASSUME NEW p \in Plain, Go(p) PROVE op'.pc \in Plain
  BY <1>1, <1>2 DEF Go, Threads
<1>3. ASSUME NEW r, Leave(r) PROVE op'.pc \in Plain
  BY <1>1, <1>3 DEF Leave, Threads, Plain, PC
<1>4. {"xopen", "xbuycancel", "xsells", "xbuyanswer", "ensure", "xt1", "xt2", "xsell", "idle", "xreturn"} \subseteq Plain
  BY DEF Plain, PC
<1>5. CASE ExitResolvesBuy
  <2>1. \E p \in {"xopen", "xbuycancel", "xsells"} : Go(p)
    BY <1>5 DEF ExitResolvesBuy
  <2> QED
    BY <1>2, <1>4, <2>1
<1>6. CASE ExitCancelsBuy
  BY <1>1, <1>4, <1>6 DEF ExitCancelsBuy, Answer, AnswerFor, Threads
<1>7. CASE ExitBuyAnswered
  <2>1. PICK next \in {"xopen", "xsells"} : Go(next) \/ op' = AfterBuy(op, position', next)
    BY <1>7 DEF ExitBuyAnswered
  <2> QED
    BY <1>1, <1>2, <1>4, <2>1 DEF AfterBuy, Threads
<1>8. CASE ExitResolvesSells
  <2>1. op' = Settle(op, "xt1") \/ Go("xopen") \/ Leave("filled") \/ (op.pc = "xsells" /\ UNCHANGED op)
    BY <1>8 DEF ExitResolvesSells, At
  <2>2. Settle(op, "xt1").pc = "xt1"
    BY <1>1 DEF Settle, Threads
  <2> QED
    BY <1>2, <1>3, <1>4, <2>1, <2>2
<1>9. CASE ExitSkipsRow
  BY <1>1, <1>4, <1>9 DEF ExitSkipsRow, Threads
<1>10. CASE ExitSeesTrigger
  <2>1. Leave("raised") \/ (op.pc \in {"xt1", "xt2"} /\ UNCHANGED op)
    BY <1>10 DEF ExitSeesTrigger
  <2> QED
    BY <1>3, <1>4, <2>1
<1>11. CASE ExitSettlesTrigger
  <2> DEFINE k == Min(op.todo)
             s == algo[k].child
             r == IF xsell[s].state = "filled" THEN "filled" ELSE "none"
             on == [op EXCEPT !.todo = @ \ {k}, !.result = r]
             next == IF xsell[s].state = "live" THEN "xopen"
                     ELSE IF xsell[s].state = "filled" THEN "xreturn" ELSE op.pc
  <2>1. UNCHANGED <<prot, algo>> /\ op.pc \in {"xt1", "xt2"}
    BY <1>11 DEF ExitSettlesTrigger, exchange
  <2>2. on \in Threads /\ on.ret \in Rets
    BY <1>1 DEF Threads
  <2>3. next \in Rets /\ next \in Plain
    BY <1>11, <2>1 DEF Rets, Plain, PC
  <2>4. Go("xopen") \/ op' = AfterSell(on, position', next) \/ op' = [on EXCEPT !.pc = next]
    BY <1>11 DEF ExitSettlesTrigger
  <2>5. position' \in Nat
    BY <1>11, PositionStep DEF Exit, Next
  <2> HIDE DEF on, next, s
  <2>6. CASE op' = AfterSell(on, position', next)
    BY <2>1, <2>2, <2>3, <2>5, <2>6, PcAfterSell DEF Cancels
  <2>7. CASE op' = [on EXCEPT !.pc = next]
    BY <2>2, <2>3, <2>7 DEF Threads
  <2> QED
    BY <1>2, <1>4, <2>4, <2>6, <2>7
<1>12. CASE ExitCancelsAll
  BY <1>1, <1>12 DEF ExitCancelsAll, Cancels, Threads, journal, exchange
<1>13. CASE ExitCanceled
  <2>1. op' = [[op EXCEPT !.pc = "xt2", !.todo = Rows] EXCEPT !.free = op.ok]
    BY <1>13 DEF ExitCanceled, Settle
  <2> QED
    BY <1>1, <1>4, <2>1 DEF Threads
<1>14. CASE ExitCounts
  <2>1. (\E r : Leave(r)) \/ \E w : op' = [op EXCEPT !.pc = "xsell", !.want = w]
    BY <1>14, Zenon DEF ExitCounts
  <2> QED
    BY <1>1, <1>3, <1>4, <2>1 DEF Threads
<1>15. CASE ExitSell
  <2>1. \E r : Leave(r)
    BY <1>15, Zenon DEF ExitSell
  <2> QED
    BY <1>3, <2>1
<1>16. CASE ExitReturn
  BY <1>4, <1>16, IdleSound DEF ExitReturn
<1> QED
  BY <1>5, <1>6, <1>7, <1>8, <1>9, <1>10, <1>11, <1>12, <1>13, <1>14, <1>15, <1>16 DEF Exit

LEMMA PcElsewhere ==
  ASSUME CoreInv, Next, ~Protect, ~Exit
  PROVE  UNCHANGED <<op, prot>> \/ op'.pc \in Plain \/ Cancels
<1>1. /\ Sound(op) /\ op \in Threads /\ op.ret \in Rets /\ Idle \in Threads /\ Idle.pc = "idle" /\ Idle.ret = "idle"
  BY IdleSound DEF CoreInv, Sound
<1>2. {"idle", "restarted", "ensure", "xbuys", "rorders", "ralgos", "rremote", "rcanceled", "rlocal", "rend"} \subseteq Plain
      /\ "idle" \in Rets
  BY DEF Plain, PC, Rets
<1>3. CASE Exchange \/ Watchdog \/ NewBuy \/ Flatten \/ LeaseExpires \/ ExitDeadline
  BY <1>3 DEF Exchange, XBuyFill, XBuyEnds, XTrigger, XAlgoEnds, XSellFill, XSellEnds, Watchdog, WatchDetects,
     WatchDeadline, WatchClears, NewBuy, Flatten, LeaseExpires, ExitDeadline, journal
<1>4. CASE AlgoNews
  BY <1>2, <1>4 DEF AlgoNews, At
<1>5. CASE ExitBegin
  <2>1. \/ UNCHANGED <<op, prot>>
        \/ op' = [Idle EXCEPT !.pc = "xbuys"] \/ op' = [Idle EXCEPT !.pc = "xbuys", !.by = "task"]
    BY <1>5 DEF ExitBegin
  <2> QED
    BY <1>1, <1>2, <2>1 DEF Threads
<1>6. CASE RecBegin
  <2>1. op' = [Idle EXCEPT !.pc = "rorders", !.ctx = "rec", !.want = base]
    BY <1>6 DEF RecBegin
  <2> QED
    BY <1>1, <1>2, <2>1 DEF Threads
<1>7. CASE Crash
  BY <1>1, <1>2, <1>7 DEF Crash, Threads
<1>8. CASE BuyNews
  <2>1. UNCHANGED <<op, prot>> \/ op' = AfterBuy(Idle, position', "idle")
    BY <1>8 DEF BuyNews
  <2> QED
    BY <1>1, <1>2, <2>1 DEF AfterBuy, Threads
<1>9. CASE SellNews
  <2>1. UNCHANGED <<prot, algo>> /\ (UNCHANGED op \/ op' = AfterSell(Idle, position', "idle"))
    BY <1>9 DEF SellNews, exchange
  <2>2. position' \in Nat
    BY <1>9, PositionStep DEF Next
  <2> QED
    BY <1>1, <1>2, <2>1, <2>2, PcAfterSell DEF Cancels
<1>10. CASE RecRemote \/ RecLocal
  <2>1. (\E k, a, d : AnswerFor(k, "rcanceled", a, d)) \/ (op.pc \in {"rremote", "rlocal"} /\ \E g : Looked(g))
    <3>1. CASE RecRemote
      BY <3>1, Zenon DEF RecRemote, CancelAlgo, At
    <3>2. CASE RecLocal
      BY <3>2, Zenon DEF RecLocal, CancelAlgo, At
    <3> QED
      BY <1>10, <3>1, <3>2
  <2>2. CASE \E k, a, d : AnswerFor(k, "rcanceled", a, d)
    BY <1>1, <1>2, <2>2 DEF AnswerFor, Threads
  <2>3. CASE op.pc \in {"rremote", "rlocal"} /\ \E g : Looked(g)
    BY <1>1, <1>2, <2>3 DEF Looked, Threads
  <2> QED
    BY <2>1, <2>2, <2>3
<1>11. CASE RecCanceled
  <2>1. \E g, l : op' = [op EXCEPT !.pc = op.ret, !.left = l, !.safe = g]
    BY <1>11, Zenon DEF RecCanceled
  <2> QED
    BY <1>1, <2>1, RetsPlain DEF Threads
<1>12. CASE RecLocalDone
  <2>1. op' = [op EXCEPT !.pc = "ensure", !.want = position, !.ret = "rend"] \/ op' = [op EXCEPT !.pc = "rend"]
    BY <1>12 DEF RecLocalDone
  <2> QED
    BY <1>1, <1>2, <2>1 DEF Threads
<1>13. CASE RecOrders
  <2>1. \E g : op' = [op EXCEPT !.pc = "ralgos", !.want = 0, !.safe = g]
    BY <1>13 DEF RecOrders
  <2> QED
    BY <1>1, <1>2, <2>1 DEF Threads
<1>14. CASE RecAlgos
  <2>1. \E l, g : op' = [op EXCEPT !.pc = "rremote", !.ret = "rremote", !.left = l, !.todo = l, !.safe = g]
    BY <1>14, Zenon DEF RecAlgos
  <2> QED
    BY <1>1, <1>2, <2>1 DEF Threads
<1>15. CASE RecRemoteDone
  <2>1. \E l, g : op' = [op EXCEPT !.pc = "rlocal", !.ret = "rlocal", !.left = l, !.safe = g]
    BY <1>15, Zenon DEF RecRemoteDone
  <2> QED
    BY <1>1, <1>2, <2>1 DEF Threads
<1>16. CASE RecEnd
  BY <1>1, <1>2, <1>16 DEF RecEnd
<1> QED
  BY <1>3, <1>4, <1>5, <1>6, <1>7, <1>8, <1>9, <1>10, <1>11, <1>12, <1>13, <1>14, <1>15, <1>16 DEF Next, Reconcile

LEMMA PcStep ==
  ASSUME CoreInv, Next
  PROVE  \/ UNCHANGED <<op, prot>> \/ op'.pc \in Plain \/ Cancels
         \/ EnsureActive \/ EnsureBlocked \/ EnsureNew \/ MarkSubmitting \/ Place \/ Amend \/ CancelNext \/ CancelAnswered
BY PcProtects, PcExits, PcElsewhere

LEMMA PcSpecial ==
  ASSUME CoreInv
  PROVE  /\ EnsureActive \/ EnsureBlocked => op'.pc \in Plain \union {"amend"}
         /\ EnsureNew => op'.pc \in {"submit", "esell"}
         /\ MarkSubmitting => op'.pc = "place"
         /\ Place => op'.pc = "placed"
         /\ Amend => op'.pc = "amended"
         /\ CancelNext => op'.pc \in Plain \union {"cancel", "canceled"}
         /\ CancelAnswered => op'.pc = "cancel"
<1>1. Sound(op) /\ op \in Threads
  BY DEF CoreInv, Sound
<1>2. ASSUME NEW k, StartAmend(k) PROVE op'.pc = "amend"
  BY <1>1, <1>2 DEF StartAmend, Threads
<1>3. ASSUME EnsureActive \/ EnsureBlocked PROVE op'.pc \in Plain \union {"amend"}
  <2>1. Return \/ Raised \/ \E k : StartAmend(k)
    BY <1>3, Zenon DEF EnsureActive, EnsureBlocked
  <2> QED
    BY <1>1, <1>2, <2>1, PcReturns, PcRaised
<1>4. EnsureNew => op'.pc \in {"submit", "esell"}
  BY <1>1 DEF EnsureNew, Go, Threads
<1>5. MarkSubmitting => op'.pc = "place"
  BY <1>1 DEF MarkSubmitting, Go, Threads
<1>6. Place => op'.pc = "placed"
  BY <1>1 DEF Place, Answer, AnswerFor, Threads
<1>7. Amend => op'.pc = "amended"
  BY <1>1 DEF Amend, Answer, AnswerFor, Threads
<1>8. ASSUME CancelNext PROVE op'.pc \in Plain \union {"cancel", "canceled"}
  <2>1. \/ Return \/ (\E k, a, d : AnswerFor(k, "canceled", a, d))
        \/ op.pc = "cancel" /\ \E l : op' = [op EXCEPT !.left = l, !.ok = FALSE]
    BY <1>8, Zenon DEF CancelNext, CancelAlgo, At
  <2>2. CASE \E k, a, d : AnswerFor(k, "canceled", a, d)
    BY <1>1, <2>2 DEF AnswerFor, Threads
  <2>3. CASE op.pc = "cancel" /\ \E l : op' = [op EXCEPT !.left = l, !.ok = FALSE]
    BY <1>1, <2>3 DEF Threads
  <2> QED
    BY <1>1, <2>1, <2>2, <2>3, PcReturns
<1>9. ASSUME CancelAnswered PROVE op'.pc = "cancel"
  <2>1. \E l, g : op' = [op EXCEPT !.pc = "cancel", !.left = l, !.ok = g]
    BY <1>9, Zenon DEF CancelAnswered
  <2> QED
    BY <1>1, <2>1 DEF Threads
<1> QED
  BY <1>3, <1>4, <1>5, <1>6, <1>7, <1>8, <1>9

LEMMA RowsStep ==
  ASSUME CoreInv, Next, Sound(op')
  PROVE  RowsBooked'
<1>1. RowsBooked /\ op \in Threads /\ op.k \in Prots /\ op' \in Threads /\ op'.k \in Prots /\ prot \in [Prots -> RowTypes]
  BY DEF CoreInv, Sound, Threads, JournalTypes, RowTypes
<1>2. AlgosMove /\ SellsMove
  BY ExchangeMoves
<1>3. UNCHANGED prot \/ RowChange
  BY RowsProtect, RowsReconcile, RowsElsewhere
<1>4. ASSUME NEW k \in Prots, algo'[k].state = "triggered"
      PROVE  algo'[k].child \in Sells /\ xsell'[algo'[k].child].state # "none"
  <2>1. AlgoKeeps(k) \/ AlgoFires(k)
    BY <1>2, <1>4 DEF AlgosMove, AlgoLeaves, AlgoPlaced
  <2>2. CASE AlgoKeeps(k)
    BY <1>1, <1>2, <1>4, <2>2 DEF AlgoKeeps, RowsBooked, SellsMove
  <2> QED
    BY <2>1, <2>2 DEF AlgoFires
<1>5. ASSUME NEW k \in Prots, prot'[k].state = "triggered" PROVE algo'[k].state = "triggered"
  <2>1. algo[k].state = "triggered"
    BY <1>1, <1>3, <1>5 DEF RowChange, Fits, AlgoView, RowsBooked
  <2> QED
    BY <1>1, <1>2, <2>1 DEF AlgosMove, AlgoKeeps, AlgoFires, AlgoLeaves, AlgoPlaced, LiveAlgos, RowsBooked
<1>6. ASSUME NEW k \in Prots, prot'[k].state \in {"none", "required"} PROVE algo'[k].state = "none"
  <2>1. algo[k].state = "none"
    BY <1>1, <1>3, <1>6, Booked DEF RowChange, Fits, AlgoView, RowsBooked, AlgoTypes
  <2> QED
    BY <1>1, <1>2, <1>6, <2>1 DEF AlgosMove, AlgoKeeps, AlgoFires, AlgoLeaves, AlgoPlaced, LiveAlgos, RowsBooked
<1>7. ASSUME op'.pc = "submit" PROVE prot'[op'.k].state = "required"
  <2>1. CASE UNCHANGED <<op, prot>>
    BY <1>1, <1>7, <2>1 DEF RowsBooked
  <2>2. CASE EnsureNew
    <3>1. FreeProts # {}
      BY <1>1, <1>7, <2>2 DEF EnsureNew, Go, Threads
    <3> DEFINE k == Min(FreeProts)
    <3>2. k \in Prots
      <4>1. FreeProts \in SUBSET Prots
        BY DEF FreeProts
      <4> QED
        BY <3>1, <4>1, MinRow
    <3>3. /\ prot' = [prot EXCEPT ![k] = [state |-> "required", qty |-> op.want, id |-> FALSE]]
          /\ op' = [op EXCEPT !.pc = "submit", !.k = k]
      BY <2>2, <3>1 DEF EnsureNew
    <3> HIDE DEF k
    <3>4. op'.k = k /\ prot'[k].state = "required"
      BY <1>1, <3>2, <3>3 DEF Threads
    <3> QED
      BY <3>4
  <2>3. op'.pc \notin Plain /\ ~Cancels
    BY <1>7 DEF Plain, Cancels
  <2>4. ~(EnsureActive \/ EnsureBlocked \/ MarkSubmitting \/ Place \/ Amend \/ CancelNext \/ CancelAnswered)
    BY <1>7, PcSpecial DEF Plain
  <2> QED
    BY <2>1, <2>2, <2>3, <2>4, PcStep
<1>8. ASSUME op'.pc = "place" PROVE prot'[op'.k].state = "submitting" /\ algo'[op'.k].state = "none"
  <2>1. CASE UNCHANGED <<op, prot>>
    <3>1. prot'[op'.k].state = "submitting" /\ algo[op'.k].state = "none"
      BY <1>1, <1>8, <2>1 DEF RowsBooked
    <3> QED
      BY <1>1, <1>2, <1>8, <3>1 DEF AlgosMove, AlgoKeeps, AlgoFires, AlgoLeaves, AlgoPlaced, LiveAlgos
  <2>2. CASE MarkSubmitting
    <3>1. op'.k = op.k /\ prot'[op.k].state = "submitting" /\ UNCHANGED algo
      BY <1>1, <2>2 DEF MarkSubmitting, SetState, Go, Threads, RowTypes, exchange
    <3>2. algo[op.k].state = "none"
      BY <1>1, <2>2 DEF MarkSubmitting, At, RowsBooked
    <3> QED
      BY <3>1, <3>2
  <2>3. op'.pc \notin Plain /\ ~Cancels
    BY <1>8 DEF Plain, Cancels
  <2>4. ~(EnsureActive \/ EnsureBlocked \/ EnsureNew \/ Place \/ Amend \/ CancelNext \/ CancelAnswered)
    BY <1>8, PcSpecial DEF Plain
  <2> QED
    BY <2>1, <2>2, <2>3, <2>4, PcStep
<1> QED
  BY <1>4, <1>5, <1>6, <1>7, <1>8 DEF RowsBooked

-----------------------------------------------------------------------------
LEMMA CoreInit == Init => CoreInv
<1> SUFFICES ASSUME Init PROVE CoreInv
  OBVIOUS
<1>1. Sound(op) /\ op.pc = "idle"
  BY IdleSound DEF Init
<1>2. Faults
  BY ExitConstants DEF Init, Faults
<1>3. JournalTypes
  <2>1. prot \in [Prots -> RowTypes]
    BY DEF Init, RowTypes
  <2>2. sell \in [Sells -> SellRows]
    BY DEF Init, SellRows
  <2> QED
    BY <2>1, <2>2 DEF Init, JournalTypes, RowTypes, SellRows
<1>4. ExchangeTypes
  <2>1. algo \in [Prots -> AlgoTypes]
    BY DEF Init, AlgoTypes
  <2>2. xsell \in [Sells -> SellTypes]
    BY DEF Init, SellTypes
  <2> QED
    BY <2>1, <2>2 DEF Init, ExchangeTypes, AlgoTypes, SellTypes
<1>5. BuyBooked
  <2>1. buy.acc = 0 /\ xbuy.acc = 0 /\ xbuy.qty = 0 /\ xbuy.asked = 0 /\ base = 0
    BY DEF Init
  <2>2. ~xbuy.live
    BY DEF Init
  <2> QED
    BY <2>1, <2>2, ExitConstants DEF BuyBooked
<1>6. LotsBooked
  <2>1. LiveAlgos = {} /\ LiveSells = {}
    BY DEF Init, LiveAlgos, LiveSells
  <2>2. AlgoLots = {} /\ SellLots = {}
    BY <2>1 DEF AlgoLots, SellLots
  <2>3. Claimed = 0
    BY <2>2, FS_EmptySet DEF Claimed
  <2> QED
    BY <2>1, <2>3 DEF Init, LotsBooked
<1>7. RowsBooked
  BY <1>1 DEF Init, RowsBooked
<1> QED
  BY <1>1, <1>2, <1>3, <1>4, <1>5, <1>6, <1>7 DEF CoreInv

LEMMA CoreStep == CoreInv /\ [Next]_vars => CoreInv'
<1> SUFFICES ASSUME CoreInv, [Next]_vars PROVE CoreInv'
  OBVIOUS
<1>1. CASE Next
  <2>1. Sound(op')
    BY <1>1, ThreadStep
  <2> QED
    BY <1>1, <2>1, FaultStep, JournalStep, BookedStep, RowsStep DEF CoreInv
<1>2. CASE UNCHANGED vars
  BY <1>2 DEF vars, journal, exchange, CoreInv, Faults, JournalTypes, ExchangeTypes, BuyBooked, LotsBooked, RowsBooked,
     LiveAlgos, LiveSells, Claimed, AlgoLots, SellLots
<1> QED
  BY <1>1, <1>2

LEMMA CoreHolds == Spec => []CoreInv
BY CoreInit, CoreStep, PTL DEF Spec

\* Every variable stays in its type whatever fails: no position and no balance below
\* zero, and no lot claimed twice, so that no OCO or SELL asks for lots that are gone.
THEOREM ExitTypesHold == Spec => []TypeOK
<1>1. CoreInv => TypeOK
  BY DEF CoreInv, Sound, Threads, Faults, JournalTypes, ExchangeTypes, TypeOK
<1> QED
  BY <1>1, CoreHolds, PTL

-----------------------------------------------------------------------------
(* Every OCO the exchange may still act on has its row among those that a  *)
(* restart, an exit or a fill looks at, and there is only one such row.    *)

Unended == Outstanding \union {"triggered"}

\* A row given up whose OCO was placed: only a detail query gone wrong makes one.
GivenUp(k) == algo[k].misread /\ prot[k].state = "emergency_exit"

TrackInv ==
  /\ \A k \in LiveAlgos : prot[k].state \in Outstanding \/ GivenUp(k)
  /\ \A k \in Prots : algo[k].state = "triggered" => prot[k].state \in Unended \/ GivenUp(k)
  /\ \A j, k \in Prots : prot[j].state \in Unended /\ prot[k].state \in Unended => j = k
  /\ op.pc \in {"cancel", "canceled"} => op.left \subseteq ActiveOnly
  /\ op.pc = "canceled" => op.k \in op.left
  /\ op.pc = "placed" => prot[op.k].state = "submitting" /\ (op.ans = "no" => algo[op.k].state = "none" \/ algo[op.k].misread)
  /\ op.pc \in {"amend", "amended"} => prot[op.k].state = "amending"

\* Row k may become s without an OCO out of sight or a second row to look after.
Tracks(k, s) ==
  \/ s = AlgoView(k) /\ prot[k].state # "emergency_exit"
  \/ algo[k].misread /\ s = "emergency_exit"
  \/ prot[k].state \in Outstanding /\ s \in Outstanding
  \/ algo[k].state \notin {"live", "canceling", "triggered"} /\ s \notin Unended
  \/ s \in Unended /\ prot[k].state = "none" /\ \A j \in Prots : prot[j].state \notin Unended

\* Whoever gives a row up stops the system.
RowTracked ==
  /\ UNCHANGED algo
  /\ \E k \in Prots, r \in RowTypes :
       /\ prot' = [prot EXCEPT ![k] = r] /\ Tracks(k, r.state)
       /\ r.state = "emergency_exit" => mode' = "emergency"

\* Nothing becomes of a row that was given up.
LEMMA GivenUpStays ==
  /\ "emergency_exit" \notin Unended /\ "emergency_exit" \notin Outstanding
  /\ \A s : CanMove("emergency_exit", s) => s = "emergency_exit"
BY DEF CanMove, AllowedProtectionTransitions, Outstanding, Unended

LEMMA StateTracked ==
  ASSUME CoreInv, UNCHANGED algo, NEW k \in Prots, NEW s \in ProtectionState \union {"none"}, SetState(k, s), Tracks(k, s),
         s = "emergency_exit" => mode' = "emergency"
  PROVE  RowTracked
<1> DEFINE r == [prot[k] EXCEPT !.state = s]
<1>1. prot[k] \in RowTypes
  BY RowTyped
<1>2. r \in RowTypes /\ r.state = s
  BY <1>1 DEF RowTypes
<1>3. prot' = [prot EXCEPT ![k] = r]
  BY DEF SetState
<1> HIDE DEF r
<1> QED
  BY <1>2, <1>3 DEF RowTracked

LEMMA StoreTracked ==
  ASSUME CoreInv, UNCHANGED algo, NEW k \in Prots, prot[k].state # "emergency_exit", prot' = [prot EXCEPT ![k] = Store(k)]
  PROVE  RowTracked
<1>1. Store(k) \in RowTypes /\ Tracks(k, Store(k).state) /\ Store(k).state # "emergency_exit"
  BY Stored, RowTyped DEF Tracks, AlgoFact
<1> QED
  BY <1>1 DEF RowTracked

LEMMA ViewTracked ==
  ASSUME CoreInv, UNCHANGED algo, NEW k \in Prots, prot[k].state # "emergency_exit", SetState(k, AlgoView(k))
  PROVE  RowTracked
<1>1. AlgoView(k) \in ProtectionState \union {"none"} /\ Tracks(k, AlgoView(k)) /\ AlgoView(k) # "emergency_exit"
  BY RowTyped DEF AlgoFact, ProtectionState, Tracks
<1> QED
  BY <1>1, StateTracked

\* A row that is to be looked after, and goes on to be.
LEMMA OutstandingTracked ==
  ASSUME CoreInv, UNCHANGED algo, NEW k \in Prots, prot[k].state \in Outstanding, NEW s \in Outstanding, SetState(k, s)
  PROVE  RowTracked
<1>1. s \in ProtectionState \union {"none"} /\ Tracks(k, s) /\ s # "emergency_exit"
  BY DEF Outstanding, ProtectionState, Tracks
<1> QED
  BY <1>1, StateTracked

LEMMA ViewMoves ==
  ASSUME CoreInv, NEW k \in Prots, CanMove(prot[k].state, AlgoView(k))
  PROVE  prot[k].state # "emergency_exit"
BY RowTyped, GivenUpStays DEF AlgoFact

\* What the table of transitions lets become UNKNOWN or ACTIVE.
LEMMA MayBeUnknown ==
  \A s : (CanMove(s, "unknown") => s \in Outstanding) /\ (CanMove(s, "active") => s \in Outstanding)
BY DEF CanMove, AllowedProtectionTransitions, Outstanding

LEMMA EnsureTracked ==
  ASSUME CoreInv, TrackInv, EnsureActive \/ EnsureBlocked \/ EnsureNew
  PROVE  UNCHANGED prot \/ RowTracked
<1>1. UNCHANGED algo /\ op.want \in Nat
  BY DEF EnsureActive, EnsureBlocked, EnsureNew, exchange, CoreInv, Sound, Threads
<1>2. Actives \in SUBSET Prots /\ Unsettled \in SUBSET Prots /\ FreeProts \in SUBSET Prots
  BY DEF Actives, Unsettled, FreeProts
<1>3. CASE EnsureActive
  <2>1. Min(Actives) \in Prots /\ prot[Min(Actives)].state = "active"
    BY <1>2, <1>3, MinRow DEF EnsureActive, Actives
  <2>2. UNCHANGED prot \/ SetState(Min(Actives), "amending")
    BY <1>3 DEF EnsureActive
  <2> QED
    BY <1>1, <2>1, <2>2, OutstandingTracked DEF Unended, Outstanding
<1>4. CASE EnsureBlocked
  <2> DEFINE k == Min(Unsettled)
             r == [Store(k) EXCEPT !.state = IF algo[k].qty = op.want THEN "active" ELSE "amending"]
  <2>1. k \in Prots /\ prot[k].state \in Unended
    BY <1>2, <1>4, MinRow DEF EnsureBlocked, Unsettled, Unended
  <2>2. \/ UNCHANGED prot \/ prot' = [prot EXCEPT ![k] = Store(k)]
        \/ prot' = [prot EXCEPT ![k] = r] /\ prot[k].state # "triggered"
    BY <1>4 DEF EnsureBlocked
  <2>3. r \in RowTypes /\ r.state \in Outstanding
    <3>1. Store(k) \in RowTypes
      BY <2>1, Stored
    <3>2. CASE algo[k].qty = op.want
      BY <3>1, <3>2 DEF RowTypes, ProtectionState, Outstanding
    <3>3. CASE algo[k].qty # op.want
      BY <3>1, <3>3 DEF RowTypes, ProtectionState, Outstanding
    <3> QED
      BY <3>2, <3>3
  <2> HIDE DEF k, r
  <2>4. prot[k].state # "triggered" => Tracks(k, r.state)
    BY <2>1, <2>3 DEF Tracks, Unended
  <2> QED
    BY <1>1, <2>1, <2>2, <2>3, <2>4, StoreTracked, GivenUpStays DEF RowTracked
<1>5. CASE EnsureNew
  <2>1. CASE FreeProts = {}
    BY <1>5, <2>1 DEF EnsureNew
  <2>2. CASE FreeProts # {}
    <3> DEFINE k == Min(FreeProts)
               r == [state |-> "required", qty |-> op.want, id |-> FALSE]
    <3>1. k \in Prots /\ prot[k].state = "none"
      BY <1>2, <2>2, MinRow DEF FreeProts
    <3>2. prot' = [prot EXCEPT ![k] = r]
      BY <1>5, <2>2 DEF EnsureNew
    <3>3. r \in RowTypes /\ r.state = "required"
      BY <1>1 DEF RowTypes, ProtectionState
    <3>4. \A j \in Prots : prot[j].state \notin Unended
      BY <1>5 DEF EnsureNew, Actives, Unsettled, Unended, Outstanding
    <3>5. Tracks(k, r.state)
      BY <3>1, <3>3, <3>4 DEF Tracks, Unended, Outstanding
    <3> HIDE DEF k, r
    <3> QED
      BY <1>1, <3>1, <3>2, <3>3, <3>5 DEF RowTracked
  <2> QED
    BY <2>1, <2>2
<1> QED
  BY <1>3, <1>4, <1>5

LEMMA AnswersTracked ==
  ASSUME CoreInv, TrackInv,
         \/ MarkSubmitting \/ PlacedSeen \/ PlacedUnresolved \/ PlacedRefused \/ AmendSeen \/ AmendFailed
         \/ AbortSeen \/ AbortFailed \/ CancelAnswered
  PROVE  UNCHANGED prot \/ RowTracked
<1>1. op.k \in Prots
  BY DEF CoreInv, Sound, Threads
<1>2. UNCHANGED algo
  BY DEF MarkSubmitting, PlacedSeen, PlacedUnresolved, PlacedRefused, AmendSeen, AmendFailed, AbortSeen, AbortFailed,
     CancelAnswered, exchange
<1>3. {"submitting", "amending", "unknown"} \subseteq Outstanding /\ Outstanding \subseteq Unended
  BY DEF Outstanding, Unended
<1>4. ASSUME NEW r \in RowTypes, prot' = [prot EXCEPT ![op.k] = r], r.state = "emergency_exit", Emergency,
             algo[op.k].misread \/ algo[op.k].state \notin {"live", "canceling", "triggered"}
      PROVE  RowTracked
  <2>1. Tracks(op.k, "emergency_exit") /\ mode' = "emergency"
    BY <1>4 DEF Tracks, Unended, Outstanding, Emergency
  <2> QED
    BY <1>1, <1>2, <1>4, <2>1 DEF RowTracked
<1>5. CASE MarkSubmitting
  <2>1. prot[op.k].state = "required" /\ SetState(op.k, "submitting")
    BY <1>5 DEF MarkSubmitting, At, CoreInv, RowsBooked
  <2> QED
    BY <1>1, <1>2, <1>3, <2>1, OutstandingTracked DEF Unended, Outstanding
<1>6. CASE PlacedSeen
  <2> DEFINE r == [prot[op.k] EXCEPT !.state = "emergency_exit"]
  <2>1. \/ prot' = [prot EXCEPT ![op.k] = Store(op.k)]
        \/ prot' = [prot EXCEPT ![op.k] = r] /\ Emergency /\ AlgoView(op.k) = "failed"
    BY <1>6 DEF PlacedSeen, GiveUp
  <2>2. AlgoView(op.k) = "failed" => algo[op.k].state \notin {"live", "canceling", "triggered"}
    BY DEF AlgoView
  <2>3. prot[op.k].state = "submitting"
    BY <1>6 DEF PlacedSeen, At, TrackInv
  <2>4. r \in RowTypes /\ r.state = "emergency_exit"
    BY <1>1, RowTyped DEF RowTypes, ProtectionState
  <2> HIDE DEF r
  <2> QED
    BY <1>1, <1>2, <1>4, <2>1, <2>2, <2>3, <2>4, StoreTracked
<1>7. CASE PlacedUnresolved
  <2>1. prot[op.k].state = "submitting" /\ SetState(op.k, "unknown")
    BY <1>7 DEF PlacedUnresolved, At, TrackInv
  <2> QED
    BY <1>1, <1>2, <1>3, <2>1, OutstandingTracked
<1>8. CASE PlacedRefused
  <2>1. (algo[op.k].misread \/ algo[op.k].state = "none") /\ Emergency
    BY <1>8 DEF PlacedRefused, At, TrackInv
  <2> QED
    BY <1>4, <1>8, <2>1, RefusedRow
<1>9. CASE AmendSeen
  <2>1. prot[op.k].state = "amending"
    BY <1>9 DEF AmendSeen, At, TrackInv
  <2> QED
    BY <1>1, <1>2, <1>9, <2>1, StoreTracked DEF AmendSeen
<1>10. CASE AmendFailed
  <2> DEFINE r == [Store(op.k) EXCEPT !.state = "unknown"]
  <2>1. prot[op.k].state = "amending" /\ (UNCHANGED prot \/ SetState(op.k, "unknown") \/ prot' = [prot EXCEPT ![op.k] = r])
    BY <1>10 DEF AmendFailed, At, TrackInv
  <2>2. r \in RowTypes /\ r.state = "unknown"
    BY <1>1, StoredAs DEF ProtectionState
  <2>3. prot[op.k].state = "amending" => Tracks(op.k, "unknown")
    BY DEF Tracks, Outstanding
  <2> HIDE DEF r
  <2> QED
    BY <1>1, <1>2, <1>3, <2>1, <2>2, <2>3, OutstandingTracked DEF RowTracked
<1>11. CASE AbortSeen
  <2>1. UNCHANGED prot \/ (CanMove(prot[op.k].state, AlgoView(op.k)) /\ prot' = [prot EXCEPT ![op.k] = Store(op.k)])
    BY <1>11 DEF AbortSeen
  <2> QED
    BY <1>1, <1>2, <2>1, StoreTracked, ViewMoves
<1>12. CASE AbortFailed
  <2>1. UNCHANGED prot \/ (CanMove(prot[op.k].state, "unknown") /\ SetState(op.k, "unknown"))
    BY <1>12 DEF AbortFailed, Unmapped
  <2>2. CanMove(prot[op.k].state, "unknown") => prot[op.k].state \in Outstanding
    BY MayBeUnknown
  <2> QED
    BY <1>1, <1>2, <1>3, <2>1, <2>2, OutstandingTracked
<1>13. CASE CancelAnswered
  <2>1. prot[op.k].state \in Outstanding
    BY <1>1, <1>13 DEF CancelAnswered, At, TrackInv, ActiveOnly
  <2>2. \/ SetState(op.k, AlgoView(op.k)) \/ SetState(op.k, "unknown")
        \/ prot' = [prot EXCEPT ![op.k] = Store(op.k)]
    BY <1>13, Zenon DEF CancelAnswered
  <2> QED
    BY <1>1, <1>2, <1>3, <2>1, <2>2, StoreTracked, ViewTracked, OutstandingTracked, GivenUpStays
<1> QED
  BY <1>5, <1>6, <1>7, <1>8, <1>9, <1>10, <1>11, <1>12, <1>13

LEMMA ReconcileTracked ==
  ASSUME CoreInv, TrackInv, Reconcile
  PROVE  UNCHANGED prot \/ RowTracked
<1>1. op.k \in Prots /\ op.left \in SUBSET Prots
  BY DEF CoreInv, Sound, Threads
<1>2. CASE RecOrders \/ RecAlgos \/ RecRemoteDone \/ RecLocalDone \/ RecEnd
  BY <1>2 DEF RecOrders, RecAlgos, RecRemoteDone, RecLocalDone, RecEnd, journal
<1>3. CASE RecRemote
  <2> DEFINE k == Min(op.left)
             r(s) == [state |-> s, qty |-> algo[k].qty, id |-> TRUE]
  <2>1. k \in Prots
    BY <1>1, <1>3, MinRow DEF RecRemote
  <2>2. \/ UNCHANGED prot
        \/ UNCHANGED algo /\ \E s \in {"active", "unknown"} : CanMove(prot[k].state, s) /\ prot' = [prot EXCEPT ![k] = r(s)]
    BY <1>3 DEF RecRemote, Unmapped
  <2>3. algo[k].qty \in Nat
    BY <2>1, Booked DEF AlgoTypes
  <2>4. \A s \in {"active", "unknown"} : r(s) \in RowTypes /\ r(s).state = s
    BY <2>3 DEF RowTypes, ProtectionState
  <2>5. \A s \in {"active", "unknown"} : CanMove(prot[k].state, s) => Tracks(k, s)
    BY MayBeUnknown DEF Tracks, Unended, Outstanding
  <2> HIDE DEF k, r
  <2> QED
    BY <2>1, <2>2, <2>4, <2>5 DEF RowTracked
<1>4. CASE RecCanceled
  <2>1. UNCHANGED algo
    BY <1>4 DEF RecCanceled, exchange
  <2>2. \/ UNCHANGED prot \/ (CanMove(prot[op.k].state, AlgoView(op.k)) /\ SetState(op.k, AlgoView(op.k)))
        \/ CanMove(prot[op.k].state, "unknown") /\ SetState(op.k, "unknown")
    BY <1>4, Zenon DEF RecCanceled, Unmapped
  <2>3. "unknown" \in Outstanding
    BY DEF Outstanding
  <2> QED
    BY <1>1, <2>1, <2>2, <2>3, ViewTracked, ViewMoves, MayBeUnknown, OutstandingTracked
<1>5. CASE RecLocal
  <2> DEFINE k == Min(op.left)
  <2>1. k \in Prots
    BY <1>1, <1>5, MinRow DEF RecLocal
  <2>2. \/ UNCHANGED prot
        \/ UNCHANGED algo /\ CanMove(prot[k].state, AlgoView(k)) /\ prot' = [prot EXCEPT ![k] = Store(k)]
        \/ UNCHANGED algo /\ prot[k].state = "required" /\ SetState(k, "failed")
    BY <1>5, Zenon DEF RecLocal
  <2>3. prot[k].state = "required" => Tracks(k, "failed") /\ "failed" \in ProtectionState \union {"none"}
    BY <2>1 DEF CoreInv, RowsBooked, Tracks, Unended, Outstanding, ProtectionState
  <2> HIDE DEF k
  <2> QED
    BY <2>1, <2>2, <2>3, StoreTracked, StateTracked, ViewMoves
<1> QED
  BY <1>2, <1>3, <1>4, <1>5 DEF Reconcile

LEMMA ElsewhereTracked ==
  ASSUME CoreInv, TrackInv, Next, ~Protect, ~Reconcile
  PROVE  UNCHANGED prot \/ RowTracked
<1>1. op.todo \in SUBSET Prots
  BY DEF CoreInv, Sound, Threads
<1>2. CASE Exit /\ ~ExitSeesTrigger
  BY <1>2 DEF Exit, ExitResolvesBuy, ExitCancelsBuy, ExitBuyAnswered, ExitResolvesSells, ExitSkipsRow,
     ExitSettlesTrigger, ExitCancelsAll, ExitCanceled, ExitCounts, ExitSell, ExitReturn, journal
<1>3. CASE ExitSeesTrigger
  <2> DEFINE k == Min(op.todo)
  <2>1. k \in Prots
    BY <1>1, <1>3, MinRow DEF ExitSeesTrigger
  <2>2. /\ algo[k].state = "triggered" /\ UNCHANGED algo
        /\ UNCHANGED prot \/ (CanMove(prot[k].state, "triggered") /\ SetState(k, "triggered"))
    BY <1>3 DEF ExitSeesTrigger, exchange
  <2>3. AlgoView(k) = "triggered"
    BY <2>2 DEF AlgoView
  <2> HIDE DEF k
  <2> QED
    BY <2>1, <2>2, <2>3, ViewTracked, ViewMoves
<1>4. CASE AlgoNews
  <2>1. PICK k \in Prots : \E n \in ({"active"} \X algo[k].past) \union ({AlgoView(k), "unknown"} \X {algo[k].qty}) :
          \/ UNCHANGED prot
          \/ /\ CanMove(prot[k].state, n[1]) \/ prot[k].state = "active"
             /\ prot' = [prot EXCEPT ![k] = [state |-> n[1], qty |-> n[2], id |-> TRUE]]
    BY <1>4, Zenon DEF AlgoNews
  <2>2. PICK n \in ({"active"} \X algo[k].past) \union ({AlgoView(k), "unknown"} \X {algo[k].qty}) :
          \/ UNCHANGED prot
          \/ /\ CanMove(prot[k].state, n[1]) \/ prot[k].state = "active"
             /\ prot' = [prot EXCEPT ![k] = [state |-> n[1], qty |-> n[2], id |-> TRUE]]
    BY <2>1
  <2> DEFINE r == [state |-> n[1], qty |-> n[2], id |-> TRUE]
  <2>3. algo[k].qty \in Nat /\ algo[k].past \subseteq Nat /\ AlgoView(k) \in ProtectionState \union {"none"}
    BY Booked, RowTyped DEF AlgoTypes, AlgoFact, ProtectionState
  <2>4. n[2] \in Nat /\ n[1] \in ProtectionState \union {"none"} /\ n[1] \in {"active", AlgoView(k), "unknown"}
    BY <2>3 DEF ProtectionState
  <2>5. r \in RowTypes /\ r.state = n[1]
    BY <2>4 DEF RowTypes
  <2>6. CanMove(prot[k].state, n[1]) \/ prot[k].state = "active" => Tracks(k, r.state)
    <3>1. CASE n[1] = "active"
      BY <2>5, <3>1, MayBeUnknown DEF Tracks, Unended, Outstanding
    <3>2. CASE n[1] = AlgoView(k)
      BY <2>5, <3>2, ViewMoves DEF Tracks
    <3>3. CASE n[1] = "unknown"
      BY <2>5, <3>3, MayBeUnknown DEF Tracks, Unended, Outstanding
    <3> QED
      BY <2>4, <3>1, <3>2, <3>3
  <2>7. UNCHANGED algo
    BY <1>4 DEF AlgoNews, exchange
  <2>8. r.state # "emergency_exit"
    BY <2>4, <2>5, RowTyped DEF AlgoFact
  <2>9. UNCHANGED prot \/ (prot' = [prot EXCEPT ![k] = r] /\ Tracks(k, r.state))
    BY <2>2, <2>6
  <2> HIDE DEF r
  <2> QED
    BY <2>5, <2>7, <2>8, <2>9 DEF RowTracked
<1>5. CASE Exchange \/ Watchdog
  BY <1>5 DEF Exchange, XBuyFill, XBuyEnds, XTrigger, XAlgoEnds, XSellFill, XSellEnds, Watchdog, WatchDetects,
     WatchDeadline, WatchClears, journal
<1>6. CASE ExitBegin \/ RecBegin \/ BuyNews \/ SellNews \/ NewBuy \/ Flatten \/ LeaseExpires \/ ExitDeadline \/ Crash
  BY <1>6 DEF ExitBegin, RecBegin, BuyNews, SellNews, NewBuy, Flatten, LeaseExpires, ExitDeadline, Crash, journal
<1> QED
  BY <1>2, <1>3, <1>4, <1>5, <1>6 DEF Next

LEMMA RowsTracked ==
  ASSUME CoreInv, TrackInv, Next
  PROVE  UNCHANGED prot \/ RowTracked
<1>1. CASE EnsureRefused \/ Place \/ Amend \/ Abort \/ EmergencySell \/ CancelNext
  BY <1>1 DEF EnsureRefused, Place, Amend, Abort, EmergencySell, CancelNext, journal
<1> QED
  BY <1>1, EnsureTracked, AnswersTracked, ReconcileTracked, ElsewhereTracked DEF Protect


\* What is said of the OCOs and of their rows, whoever works on them.
LEMMA TrackRows ==
  ASSUME CoreInv, TrackInv, Next
  PROVE  /\ \A k \in LiveAlgos' : prot'[k].state \in Outstanding \/ GivenUp(k)'
         /\ \A k \in Prots : algo'[k].state = "triggered" => prot'[k].state \in Unended \/ GivenUp(k)'
         /\ \A j, k \in Prots : prot'[j].state \in Unended /\ prot'[k].state \in Unended => j = k
<1>1. prot \in [Prots -> RowTypes] /\ Outstanding \subseteq Unended
  BY DEF CoreInv, JournalTypes, RowTypes, Unended
<1>2. /\ \A k \in Prots : algo[k].state \in {"live", "canceling"} => prot[k].state \in Outstanding \/ GivenUp(k)
      /\ \A k \in Prots : algo[k].state = "triggered" => prot[k].state \in Unended \/ GivenUp(k)
      /\ \A j, k \in Prots : prot[j].state \in Unended /\ prot[k].state \in Unended => j = k
  BY DEF TrackInv, LiveAlgos
<1>3. SUFFICES
        /\ \A k \in Prots : algo'[k].state \in {"live", "canceling"} => prot'[k].state \in Outstanding \/ GivenUp(k)'
        /\ \A k \in Prots : algo'[k].state = "triggered" => prot'[k].state \in Unended \/ GivenUp(k)'
        /\ \A j, k \in Prots : prot'[j].state \in Unended /\ prot'[k].state \in Unended => j = k
  BY DEF LiveAlgos
<1>4. CASE UNCHANGED prot
  <2>1. AlgosMove
    BY ExchangeMoves
  <2>2. ASSUME NEW k \in Prots
        PROVE  /\ algo'[k].state \in {"live", "canceling"} => prot[k].state \in Outstanding \/ GivenUp(k)
               /\ algo'[k].state = "triggered" => prot[k].state \in Unended \/ GivenUp(k)
    <3>1. CASE AlgoKeeps(k)
      BY <1>2, <3>1 DEF AlgoKeeps
    <3>2. CASE AlgoFires(k) \/ AlgoLeaves(k)
      <4>1. prot[k].state \in Outstanding \/ GivenUp(k)
        BY <3>2 DEF AlgoFires, AlgoLeaves, TrackInv
      <4> QED
        BY <1>1, <4>1
    <3>3. CASE AlgoPlaced(k)
      <4>1. op.pc = "place" /\ op.k = k
        BY <3>3 DEF AlgoPlaced
      <4>2. prot[k].state = "submitting"
        BY <4>1 DEF CoreInv, RowsBooked
      <4> QED
        BY <1>1, <4>2 DEF Outstanding
    <3> QED
      BY <2>1, <3>1, <3>2, <3>3 DEF AlgosMove
  <2>3. \A k \in Prots : AlgoPlaced(k) \/ GivenUp(k)' = GivenUp(k)
    BY <1>4, <2>1 DEF AlgosMove, AlgoKeeps, AlgoFires, AlgoLeaves, GivenUp
  <2>4. \A k \in Prots : AlgoPlaced(k) => prot[k].state \in Outstanding /\ algo'[k].state = "live"
    BY DEF AlgoPlaced, CoreInv, RowsBooked, Outstanding
  <2> QED
    BY <1>1, <1>2, <1>4, <2>2, <2>3, <2>4
<1>5. CASE RowTracked
  <2>1. UNCHANGED algo
    BY <1>5 DEF RowTracked
  <2>2. PICK k \in Prots : \E r \in RowTypes : prot' = [prot EXCEPT ![k] = r] /\ Tracks(k, r.state)
    BY <1>5, Zenon DEF RowTracked
  <2>3. PICK r \in RowTypes : prot' = [prot EXCEPT ![k] = r] /\ Tracks(k, r.state)
    BY <2>2
  <2>4. prot'[k] = r /\ \A j \in Prots \ {k} : prot'[j] = prot[j]
    BY <1>1, <2>3
  <2>5. /\ algo[k].state \in {"live", "canceling"} => r.state \in Outstanding \/ GivenUp(k)'
        /\ algo[k].state = "triggered" => r.state \in Unended \/ GivenUp(k)'
        /\ r.state \in Unended => prot[k].state \in Unended \/ \A j \in Prots : prot[j].state \notin Unended
    <3>1. CASE r.state = AlgoView(k) /\ prot[k].state # "emergency_exit"
      BY <1>1, <1>2, <3>1, Booked DEF AlgoView, AlgoTypes, Unended, Outstanding, GivenUp
    <3>2. CASE algo[k].misread /\ r.state = "emergency_exit"
      BY <2>1, <2>4, <3>2, GivenUpStays DEF GivenUp
    <3>3. CASE prot[k].state \in Outstanding /\ r.state \in Outstanding
      BY <1>1, <3>3
    <3>4. CASE algo[k].state \notin {"live", "canceling", "triggered"} /\ r.state \notin Unended
      BY <3>4
    <3>5. CASE r.state \in Unended /\ prot[k].state = "none" /\ \A j \in Prots : prot[j].state \notin Unended
      <4>1. algo[k].state \notin {"live", "canceling", "triggered"}
        BY <1>1, <1>2, <3>5 DEF GivenUp
      <4> QED
        BY <3>5, <4>1
    <3> QED
      BY <2>3, <3>1, <3>2, <3>3, <3>4, <3>5 DEF Tracks
  <2>6. \A j \in Prots \ {k} : GivenUp(j)' = GivenUp(j)
    BY <2>1, <2>4 DEF GivenUp
  <2> QED
    BY <1>2, <2>1, <2>4, <2>5, <2>6
<1> QED
  BY <1>4, <1>5, RowsTracked

\* cancel_all takes the rows one by one.
LEMMA CancelTracked ==
  ASSUME CoreInv, TrackInv, CancelNext
  PROVE  /\ op'.pc = "cancel" => op'.left \subseteq op.left
         /\ op'.pc = "canceled" => op'.left = op.left /\ op'.k \in op.left
         /\ op'.pc \in {"cancel", "canceled"} => op.left # {}
<1>1. op \in Threads /\ op.left \in SUBSET Prots /\ Sound(op) /\ op.pc = "cancel"
  BY DEF CoreInv, Sound, Threads, CancelNext, At
<1>2. CASE op.left = {}
  <2>1. op'.pc \in Plain
    BY <1>1, <1>2, PcReturns DEF CancelNext
  <2> QED
    BY <2>1 DEF Plain
<1>3. CASE op.left # {}
  <2> DEFINE k == Min(op.left)
  <2>1. k \in op.left /\ k \in Prots
    BY <1>1, <1>3, MinRow
  <2>2. (\E a, d : AnswerFor(k, "canceled", a, d)) \/ op' = [op EXCEPT !.left = @ \ {k}, !.ok = FALSE]
    BY <1>3, Zenon DEF CancelNext, CancelAlgo
  <2> HIDE DEF k
  <2>3. CASE \E a, d : AnswerFor(k, "canceled", a, d)
    BY <1>1, <1>3, <2>1, <2>3 DEF AnswerFor, Threads
  <2>4. CASE op' = [op EXCEPT !.left = @ \ {k}, !.ok = FALSE]
    BY <1>1, <1>3, <2>1, <2>4 DEF Threads
  <2> QED
    BY <2>2, <2>3, <2>4
<1> QED
  BY <1>2, <1>3

LEMMA AnsweredTracked ==
  ASSUME CoreInv, TrackInv, CancelAnswered
  PROVE  op'.left = op.left \ {op.k} /\ \A j \in Prots \ {op.k} : prot'[j] = prot[j]
<1>1. op \in Threads /\ prot \in [Prots -> RowTypes]
  BY DEF CoreInv, Sound, JournalTypes, RowTypes
<1>2. \E g : op' = [op EXCEPT !.pc = "cancel", !.left = @ \ {op.k}, !.ok = g]
  BY Zenon DEF CancelAnswered
<1>3. SetState(op.k, AlgoView(op.k)) \/ SetState(op.k, "unknown") \/ prot' = [prot EXCEPT ![op.k] = Store(op.k)]
  BY Zenon DEF CancelAnswered
<1> QED
  BY <1>1, <1>2, <1>3 DEF Threads, SetState

LEMMA CancelsTracked ==
  ASSUME CoreInv, TrackInv, Next, op'.pc \in {"cancel", "canceled"}
  PROVE  op'.left \subseteq ActiveOnly' /\ (op'.pc = "canceled" => op'.k \in op'.left)
<1>1. op.left \in SUBSET Prots
  BY DEF CoreInv, Sound, Threads
<1>2. CASE UNCHANGED <<op, prot>>
  BY <1>2 DEF TrackInv, ActiveOnly
<1>3. CASE Cancels
  BY <1>3 DEF Cancels, ActiveOnly
<1>4. CASE CancelNext
  <2>1. UNCHANGED prot /\ op.left \subseteq ActiveOnly
    BY <1>4 DEF CancelNext, journal, At, TrackInv
  <2>2. ActiveOnly' = ActiveOnly
    BY <2>1 DEF ActiveOnly
  <2> QED
    BY <1>4, <2>1, <2>2, CancelTracked
<1>5. CASE CancelAnswered
  <2>1. op.left \subseteq ActiveOnly
    BY <1>5 DEF CancelAnswered, At, TrackInv
  <2>2. op'.left \subseteq ActiveOnly'
    BY <1>1, <1>5, <2>1, AnsweredTracked DEF ActiveOnly
  <2>3. op'.pc = "cancel"
    BY <1>5, PcSpecial
  <2> QED
    BY <2>2, <2>3
<1>6. op'.pc \notin Plain
  BY DEF Plain
<1>7. ~(EnsureActive \/ EnsureBlocked \/ EnsureNew \/ MarkSubmitting \/ Place \/ Amend)
  BY PcSpecial DEF Plain
<1> QED
  BY <1>2, <1>3, <1>4, <1>5, <1>6, <1>7, PcStep

\* Whatever is placed has its row, and a refusal is one.
LEMMA PlaceTracked ==
  ASSUME CoreInv, TrackInv, Next, op'.pc = "placed"
  PROVE  prot'[op'.k].state = "submitting" /\ (op'.ans = "no" => algo'[op'.k].state = "none" \/ algo'[op'.k].misread)
<1>1. op \in Threads /\ op.k \in Prots
  BY DEF CoreInv, Sound, Threads
<1>2. CASE UNCHANGED <<op, prot>>
  <2>1. /\ prot'[op'.k].state = "submitting" /\ op.pc = "placed"
        /\ op.ans = "no" => algo[op.k].state = "none" \/ algo[op.k].misread
    BY <1>2 DEF TrackInv
  <2>2. /\ algo[op.k].state = "none" => algo'[op.k].state = "none"
        /\ algo'[op.k].misread = algo[op.k].misread
    BY <1>1, <2>1, ExchangeMoves DEF AlgosMove, AlgoKeeps, AlgoFires, AlgoLeaves, AlgoPlaced, LiveAlgos
  <2> QED
    BY <1>2, <2>1, <2>2
<1>3. CASE Place
  <2>1. prot[op.k].state = "submitting" /\ algo[op.k].state = "none" /\ UNCHANGED prot
    BY <1>3 DEF Place, At, CoreInv, RowsBooked, journal
  <2>2. CASE UNCHANGED algo
    <3>1. \E a, d : Answer("placed", a, d)
      BY <1>3 DEF Place
    <3>2. op'.k = op.k
      BY <1>1, <3>1 DEF Answer, AnswerFor, Threads
    <3> QED
      BY <2>1, <2>2, <3>2
  <2>3. CASE ~UNCHANGED algo
    <3>1. PICK a \in Answered :
            /\ Answer("placed", a, "ok")
            /\ algo' = [algo EXCEPT ![op.k] = [state |-> "live", qty |-> op.want, past |-> {op.want}, child |-> 0,
                                              misread |-> a = "no"]]
      BY <1>3, <2>3, Zenon DEF Place
    <3>2. op'.k = op.k /\ op'.ans = a
      BY <1>1, <3>1 DEF Answer, AnswerFor, Threads
    <3>3. algo'[op.k].misread = (a = "no")
      BY <1>1, <3>1 DEF CoreInv, ExchangeTypes
    <3> QED
      BY <2>1, <3>2, <3>3
  <2> QED
    BY <2>2, <2>3
<1>4. op'.pc \notin Plain /\ ~Cancels
  BY DEF Plain, Cancels
<1>5. ~(EnsureActive \/ EnsureBlocked \/ EnsureNew \/ MarkSubmitting \/ Amend \/ CancelNext \/ CancelAnswered)
  BY PcSpecial DEF Plain
<1> QED
  BY <1>2, <1>3, <1>4, <1>5, PcStep

\* Whatever is amended has its row.
LEMMA AmendTracked ==
  ASSUME CoreInv, TrackInv, Next, op'.pc \in {"amend", "amended"}
  PROVE  prot'[op'.k].state = "amending"
<1>1. op \in Threads /\ op.k \in Prots /\ prot \in [Prots -> RowTypes] /\ Sound(op)
  BY DEF CoreInv, Sound, Threads, JournalTypes, RowTypes
<1>2. CASE UNCHANGED <<op, prot>>
  BY <1>2 DEF TrackInv
<1>3. CASE Amend
  <2>1. prot[op.k].state = "amending" /\ UNCHANGED prot
    BY <1>3 DEF Amend, At, TrackInv, journal
  <2>2. \E a, d : Answer("amended", a, d)
    BY <1>3 DEF Amend
  <2>3. op'.k = op.k
    BY <1>1, <2>2 DEF Answer, AnswerFor, Threads
  <2> QED
    BY <2>1, <2>3
<1>4. op'.pc \notin Plain /\ ~Cancels
  BY DEF Plain, Cancels
<1>5. CASE EnsureActive
  <2>1. ~Return
    BY <1>1, <1>4, PcReturns
  <2>2. Actives \in SUBSET Prots /\ Actives # {}
    BY <1>5 DEF EnsureActive, Actives
  <2>3. StartAmend(Min(Actives)) /\ SetState(Min(Actives), "amending")
    BY <1>5, <2>1 DEF EnsureActive
  <2>4. Min(Actives) \in Prots
    BY <2>2, MinRow
  <2> QED
    BY <1>1, <2>3, <2>4 DEF StartAmend, SetState, Threads, RowTypes
<1>6. CASE EnsureBlocked
  <2> DEFINE k == Min(Unsettled)
             r == [Store(k) EXCEPT !.state = IF algo[k].qty = op.want THEN "active" ELSE "amending"]
  <2>1. ~Return /\ ~Raised
    BY <1>1, <1>4, PcReturns, PcRaised
  <2>2. Unsettled \in SUBSET Prots /\ Unsettled # {}
    BY <1>6 DEF EnsureBlocked, Unsettled
  <2>3. k \in Prots
    BY <2>2, MinRow
  <2>4. StartAmend(k) /\ prot' = [prot EXCEPT ![k] = r] /\ algo[k].qty # op.want
    BY <1>6, <2>1 DEF EnsureBlocked
  <2>5. r.state = "amending"
    BY <2>3, <2>4, Stored DEF RowTypes
  <2>6. op'.k = k
    BY <1>1, <2>4 DEF StartAmend, Threads
  <2> HIDE DEF k, r
  <2> QED
    BY <1>1, <2>3, <2>4, <2>5, <2>6
<1>7. ~(EnsureNew \/ MarkSubmitting \/ Place \/ CancelNext \/ CancelAnswered)
  BY PcSpecial DEF Plain
<1> QED
  BY <1>2, <1>3, <1>4, <1>5, <1>6, <1>7, PcStep

LEMMA TrackInit == Init => TrackInv
<1> SUFFICES ASSUME Init PROVE TrackInv
  OBVIOUS
<1>1. op.pc = "idle"
  BY IdleSound DEF Init
<1>2. \A k \in Prots : prot[k].state = "none" /\ algo[k].state = "none"
  BY DEF Init
<1> QED
  BY <1>1, <1>2 DEF TrackInv, Unended, Outstanding, LiveAlgos

LEMMA TrackStep ==
  ASSUME CoreInv, TrackInv, [Next]_vars
  PROVE  TrackInv'
<1>1. CASE Next
  <2>1. \A k \in LiveAlgos' : prot'[k].state \in Outstanding \/ GivenUp(k)'
    BY <1>1, TrackRows
  <2>2. /\ \A k \in Prots : algo'[k].state = "triggered" => prot'[k].state \in Unended \/ GivenUp(k)'
        /\ \A j, k \in Prots : prot'[j].state \in Unended /\ prot'[k].state \in Unended => j = k
    BY <1>1, TrackRows
  <2> QED
    BY <1>1, <2>1, <2>2, CancelsTracked, PlaceTracked, AmendTracked DEF TrackInv
<1>2. CASE UNCHANGED vars
  BY <1>2 DEF vars, journal, exchange, TrackInv, LiveAlgos, ActiveOnly, GivenUp
<1> QED
  BY <1>1, <1>2

LEMMA TrackHolds == Spec => []TrackInv
BY TrackInit, TrackStep, CoreHolds, PTL DEF Spec

-----------------------------------------------------------------------------
(* An exit counts what there is to sell once every SELL and every trigger  *)
(* has been settled, and sells before anybody else can.                    *)

\* Whom ensure_for_position returns to.
Callers == {"idle", "xopen", "xsells", "rend"}

\* Between the last look at the open SELLs and the exit's own.
Settles == {"xt1", "xt2", "xcanceled", "xsell"}

Settling ==
  op.pc \in Settles \/ (op.pc \in {"cancel", "canceled"} /\ op.ret \in Settles)

\* A trigger of row k has come to nothing.
Clear(k) == prot[k].state = "triggered" => sell[algo[k].child].state = "canceled"

Matching == {"rremote", "rcanceled", "rlocal"}

ExitInv ==
  /\ op.pc \in Protecting => op.ret \in Callers
  /\ op.pc \in Matching => op.ret \in {"rremote", "rlocal"}
  /\ op.pc = "cancel" /\ op.ret \in {"xt1", "xt2"} => op.left = {}
  /\ op.pc = "canceled" => op.ret \notin {"xt1", "xt2"}
  /\ Settling => PendingSells = {}
  /\ op.pc = "xt2" \/ (op.pc = "cancel" /\ op.ret = "xt2") => \A k \in Prots \ op.todo : Clear(k)
  /\ op.pc = "xsell" => (\A k \in Prots : Clear(k)) /\ op.want <= Available /\ op.want <= position

\* Where a step may leave the thread without anything to be said of an exit.
Outside == PC \ (Protecting \union Matching \union Settles \union {"cancel", "canceled"})

Harmless ==
  \/ op'.pc \in Outside
  \/ op'.pc \in Protecting /\ op'.ret \in Callers
  \/ op'.pc \in Matching /\ op'.ret \in {"rremote", "rlocal"}
  \/ op'.pc = "cancel" /\ op'.ret \in {"idle", "xopen", "xreturn"}

LEMMA HarmlessHolds == Harmless => ExitInv'
BY DEF Harmless, Outside, ExitInv, Settling, Settles, Protecting, Matching, PC

LEMMA CallersOutside == Callers \subseteq Outside
BY DEF Callers, Outside, PC, Protecting, Matching, Settles

LEMMA RaisedHarmless ==
  ASSUME Sound(op), op.ret \in Callers, Raised
  PROVE  Harmless
<1>1. CASE Return
  BY <1>1, ThreadReturns, CallersOutside DEF Harmless
<1>2. CASE Go("esell")
  BY <1>2 DEF Go, Sound, Threads, Harmless, Protecting
<1> QED
  BY <1>1, <1>2 DEF Raised

LEMMA ProtectHarmless ==
  ASSUME CoreInv, ExitInv, Protect, ~CancelNext, ~CancelAnswered
  PROVE  Harmless
<1>1. Sound(op) /\ op \in Threads
  BY DEF CoreInv, Sound
<1>2. op.pc \in Protecting
  BY DEF Protect, EnsureRefused, EnsureActive, EnsureBlocked, EnsureNew, MarkSubmitting, Place, PlacedSeen,
     PlacedUnresolved, PlacedRefused, Amend, AmendSeen, AmendFailed, Abort, AbortSeen, AbortFailed, EmergencySell,
     At, Protecting
<1>3. op.ret \in Callers
  BY <1>2 DEF ExitInv
<1>4. ASSUME Return PROVE Harmless
  BY <1>1, <1>3, <1>4, ThreadReturns, CallersOutside DEF Harmless
<1>5. ASSUME NEW p \in Protecting, Go(p) PROVE Harmless
  BY <1>1, <1>3, <1>5 DEF Go, Threads, Harmless
<1>6. ASSUME NEW k, NEW p \in Protecting, NEW a, NEW d, AnswerFor(k, p, a, d) PROVE Harmless
  BY <1>1, <1>3, <1>6 DEF AnswerFor, Threads, Harmless
<1>7. ASSUME NEW k, NEW p \in {"amend", "submit"}, op' = [op EXCEPT !.pc = p, !.k = k] PROVE Harmless
  BY <1>1, <1>3, <1>7 DEF Threads, Harmless, Protecting
<1>8. {"esell", "place", "abort", "placed", "amended", "aborted"} \subseteq Protecting
  BY DEF Protecting
<1>9. CASE EnsureRefused \/ EnsureActive \/ EnsureBlocked
  <2>1. Raised \/ Return \/ \E k : StartAmend(k)
    BY <1>9, Zenon DEF EnsureRefused, EnsureActive, EnsureBlocked
  <2> QED
    BY <1>1, <1>3, <1>4, <1>7, <2>1, RaisedHarmless DEF StartAmend
<1>10. CASE EnsureNew
  <2>1. Go("esell") \/ \E k : op' = [op EXCEPT !.pc = "submit", !.k = k]
    BY <1>10, Zenon DEF EnsureNew
  <2> QED
    BY <1>5, <1>7, <1>8, <2>1
<1>11. CASE MarkSubmitting
  BY <1>5, <1>8, <1>11 DEF MarkSubmitting
<1>12. CASE Place \/ Amend
  <2>1. \E p \in {"placed", "amended"} : \E a, d : Answer(p, a, d)
    BY <1>12 DEF Place, Amend
  <2> QED
    BY <1>6, <1>8, <2>1 DEF Answer
<1>13. CASE Abort
  <2>1. \E k, a, d : AnswerFor(k, "aborted", a, d)
    BY <1>13, Zenon DEF Abort, CancelAlgo
  <2> QED
    BY <1>6, <1>8, <2>1
<1>14. CASE PlacedSeen \/ PlacedUnresolved \/ PlacedRefused \/ AmendSeen \/ AmendFailed \/ AbortSeen \/ AbortFailed
            \/ EmergencySell
  <2>1. Return \/ Raised \/ \E p \in {"abort", "esell"} : Go(p)
    BY <1>14 DEF PlacedSeen, PlacedUnresolved, PlacedRefused, AmendSeen, AmendFailed, AbortSeen, AbortFailed,
       EmergencySell, GiveUp
  <2> QED
    BY <1>1, <1>3, <1>4, <1>5, <1>8, <2>1, RaisedHarmless
<1> QED
  BY <1>9, <1>10, <1>11, <1>12, <1>13, <1>14 DEF Protect

LEMMA ReconcileHarmless ==
  ASSUME CoreInv, ExitInv, Reconcile
  PROVE  Harmless
<1>1. Sound(op) /\ op \in Threads /\ Idle.pc = "idle"
  BY IdleSound DEF CoreInv, Sound
<1>2. {"idle", "ralgos", "rend"} \subseteq Outside /\ "ensure" \in Protecting /\ "rend" \in Callers
      /\ {"rremote", "rcanceled", "rlocal"} = Matching
  BY DEF Outside, PC, Protecting, Matching, Settles, Callers
<1>3. CASE RecOrders
  <2>1. \E g : op' = [op EXCEPT !.pc = "ralgos", !.want = 0, !.safe = g]
    BY <1>3 DEF RecOrders
  <2> QED
    BY <1>1, <1>2, <2>1 DEF Threads, Harmless
<1>4. CASE RecAlgos
  <2>1. \E l, g : op' = [op EXCEPT !.pc = "rremote", !.ret = "rremote", !.left = l, !.todo = l, !.safe = g]
    BY <1>4, Zenon DEF RecAlgos
  <2> QED
    BY <1>1, <1>2, <2>1 DEF Threads, Harmless
<1>5. CASE RecRemoteDone
  <2>1. \E l, g : op' = [op EXCEPT !.pc = "rlocal", !.ret = "rlocal", !.left = l, !.safe = g]
    BY <1>5, Zenon DEF RecRemoteDone
  <2> QED
    BY <1>1, <1>2, <2>1 DEF Threads, Harmless
<1>6. CASE RecRemote \/ RecLocal
  <2>1. op.pc \in {"rremote", "rlocal"} /\ ((\E k, a, d : AnswerFor(k, "rcanceled", a, d)) \/ \E g : Looked(g))
    <3>1. CASE RecRemote
      BY <3>1, Zenon DEF RecRemote, CancelAlgo, At
    <3>2. CASE RecLocal
      BY <3>2, Zenon DEF RecLocal, CancelAlgo, At
    <3> QED
      BY <1>6, <3>1, <3>2
  <2>2. op.pc \in Matching /\ op.ret \in {"rremote", "rlocal"}
    BY <1>2, <2>1 DEF ExitInv
  <2>3. CASE \E k, a, d : AnswerFor(k, "rcanceled", a, d)
    BY <1>1, <1>2, <2>2, <2>3 DEF AnswerFor, Threads, Harmless
  <2>4. CASE \E g : Looked(g)
    BY <1>1, <2>2, <2>4 DEF Looked, Threads, Harmless
  <2> QED
    BY <2>1, <2>3, <2>4
<1>7. CASE RecCanceled
  <2>1. \E g, l : op' = [op EXCEPT !.pc = op.ret, !.left = l, !.safe = g]
    BY <1>7, Zenon DEF RecCanceled
  <2>2. op.ret \in {"rremote", "rlocal"}
    BY <1>2, <1>7 DEF RecCanceled, At, ExitInv
  <2> QED
    BY <1>1, <1>2, <2>1, <2>2 DEF Threads, Harmless
<1>8. CASE RecLocalDone
  <2>1. op' = [op EXCEPT !.pc = "ensure", !.want = position, !.ret = "rend"] \/ op' = [op EXCEPT !.pc = "rend"]
    BY <1>8 DEF RecLocalDone
  <2> QED
    BY <1>1, <1>2, <2>1 DEF Threads, Harmless
<1>9. CASE RecEnd
  BY <1>1, <1>2, <1>9 DEF RecEnd, Harmless
<1> QED
  BY <1>3, <1>4, <1>5, <1>6, <1>7, <1>8, <1>9 DEF Reconcile

\* The exchange and whatever takes no lock.
Aside == Exchange \/ Watchdog \/ LeaseExpires \/ ExitDeadline

LEMMA NewsHarmless ==
  ASSUME CoreInv, Next, ~Protect, ~Exit, ~Reconcile, ~Aside
  PROVE  Harmless
<1>1. /\ Sound(op) /\ op \in Threads /\ op.ret \in Rets /\ Idle \in Threads /\ Idle.pc = "idle" /\ Idle.ret \in Rets
  BY IdleSound DEF CoreInv, Sound
<1>2. {"idle", "restarted", "xbuys", "rorders"} \subseteq Outside /\ "ensure" \in Protecting /\ "idle" \in Callers
      /\ "idle" \in Rets
  BY DEF Outside, PC, Protecting, Matching, Settles, Callers, Rets
<1>3. CASE AlgoNews \/ NewBuy \/ Flatten
  BY <1>2, <1>3 DEF AlgoNews, NewBuy, Flatten, At, Harmless
<1>4. CASE ExitBegin
  <2>1. \/ op.pc = "idle" /\ UNCHANGED op
        \/ op' = [Idle EXCEPT !.pc = "xbuys"] \/ op' = [Idle EXCEPT !.pc = "xbuys", !.by = "task"]
    BY <1>4 DEF ExitBegin, At
  <2> QED
    BY <1>1, <1>2, <2>1 DEF Threads, Harmless
<1>5. CASE RecBegin
  <2>1. op' = [Idle EXCEPT !.pc = "rorders", !.ctx = "rec", !.want = base]
    BY <1>5 DEF RecBegin
  <2> QED
    BY <1>1, <1>2, <2>1 DEF Threads, Harmless
<1>6. CASE Crash
  BY <1>1, <1>2, <1>6 DEF Crash, Threads, Harmless
<1>7. CASE BuyNews
  <2>1. (op.pc = "idle" /\ UNCHANGED op) \/ op' = AfterBuy(Idle, position', "idle")
    BY <1>7 DEF BuyNews, At
  <2> QED
    BY <1>1, <1>2, <2>1 DEF AfterBuy, Threads, Harmless
<1>8. CASE SellNews
  <2>1. (op.pc = "idle" /\ UNCHANGED op) \/ op' = AfterSell(Idle, position', "idle")
    BY <1>8 DEF SellNews, At
  <2>2. CASE op' = AfterSell(Idle, position', "idle")
    <3>1. \/ op' = [Idle EXCEPT !.pc = "cancel", !.left = ActiveOnly, !.ok = TRUE, !.ret = "idle"]
          \/ op' = [Idle EXCEPT !.pc = "ensure", !.ctx = "sell", !.want = position', !.ret = "idle"]
          \/ op' = Idle
      BY <2>2 DEF AfterSell, BackTo
    <3> QED
      BY <1>1, <1>2, <3>1 DEF Threads, Harmless
  <2> QED
    BY <1>2, <2>1, <2>2 DEF Harmless
<1> QED
  BY <1>3, <1>4, <1>5, <1>6, <1>7, <1>8 DEF Next, Aside

\* What goes on beside the thread leaves it as many lots to sell.
LEMMA AsideFrees ==
  ASSUME CoreInv, Aside
  PROVE  base' - Claimed' >= base - Claimed
<1>1. CASE Watchdog \/ LeaseExpires \/ ExitDeadline
  <2>1. UNCHANGED exchange
    BY <1>1 DEF Watchdog, WatchDetects, WatchDeadline, WatchClears, LeaseExpires, ExitDeadline
  <2>2. base' = base /\ Claimed' = Claimed
    BY <2>1 DEF exchange, Claimed, AlgoLots, SellLots, LiveAlgos, LiveSells
  <2> QED
    BY <2>2, Booked
<1>2. CASE Exchange
  BY <1>2, FillsBooked, TriggerBooked, AlgoEndsBooked, SellFillBooked, SellEndsBooked DEF Exchange, Freer
<1> QED
  BY <1>1, <1>2 DEF Aside

LEMMA AsideHolds ==
  ASSUME CoreInv, CoreInv', ExitInv, Next, Aside
  PROVE  ExitInv'
<1>1. UNCHANGED <<op, prot, sell, position>>
  BY DEF Aside, Exchange, XBuyFill, XBuyEnds, XTrigger, XAlgoEnds, XSellFill, XSellEnds, Watchdog, WatchDetects,
     WatchDeadline, WatchClears, LeaseExpires, ExitDeadline, journal, exchange
<1>2. PendingSells' = PendingSells
  BY <1>1 DEF PendingSells
<1>3. ASSUME NEW k \in Prots, Clear(k) PROVE Clear(k)'
  <2>1. CASE prot[k].state = "triggered"
    <3>1. algo[k].state = "triggered"
      BY <2>1 DEF CoreInv, RowsBooked
    <3>2. algo'[k].child = algo[k].child
      <4>1. op.pc # "place" \/ op'.pc # "placed"
        BY <1>1
      <4> QED
        BY <3>1, <4>1, ExchangeMoves DEF AlgosMove, AlgoKeeps, AlgoFires, AlgoLeaves, AlgoPlaced, LiveAlgos
    <3> QED
      BY <1>1, <1>3, <3>2 DEF Clear
  <2> QED
    BY <1>1, <2>1 DEF Clear
<1>4. op.want \in Nat
  BY DEF CoreInv, Sound, Threads
<1>5. op.want <= Available => op.want <= Available'
  <2>1. Available \in Nat /\ Available = base - Claimed
    BY Booked
  <2>2. Claimed' <= base' /\ base' \in Nat /\ Claimed' \in Nat
    <3>1. IsFiniteSet(AlgoLots') /\ IsFiniteSet(SellLots')
      BY AllFinite, LotsAreNext
    <3>2. Claimed' \in Nat
      BY <3>1, FS_CardinalityType DEF Claimed
    <3> QED
      BY <3>2 DEF CoreInv, LotsBooked, ExchangeTypes
  <2>3. base \in Nat /\ Claimed \in Nat /\ Claimed <= base /\ base' - Claimed' >= base - Claimed
    BY AsideFrees, Booked
  <2>4. ASSUME op.want <= Available PROVE op.want <= IF Claimed' < base' THEN base' - Claimed' ELSE 0
    <3>1. op.want <= base - Claimed
      BY <2>1, <2>4
    <3> QED
      BY <1>4, <2>2, <2>3, <3>1, StillFree
  <2> QED
    BY <2>4 DEF Available
<1>6. Settling => PendingSells = {}
  BY DEF ExitInv
<1>7. op.pc = "xsell" => (\A k \in Prots : Clear(k)) /\ op.want <= Available /\ op.want <= position
  BY DEF ExitInv
<1>8. op.pc = "xt2" \/ (op.pc = "cancel" /\ op.ret = "xt2") => \A k \in Prots \ op.todo : Clear(k)
  BY DEF ExitInv
<1>9. (Settling => PendingSells = {})'
  BY <1>1, <1>2, <1>6 DEF Settling
<1>10. op'.pc = "xsell" => (\A k \in Prots : Clear(k)') /\ op'.want <= Available' /\ op'.want <= position'
  BY <1>1, <1>3, <1>5, <1>7
<1>11. op'.pc = "xt2" \/ (op'.pc = "cancel" /\ op'.ret = "xt2") => \A k \in Prots \ op'.todo : Clear(k)'
  BY <1>1, <1>3, <1>8
<1>12. /\ op'.pc \in Protecting => op'.ret \in Callers
       /\ op'.pc \in Matching => op'.ret \in {"rremote", "rlocal"}
       /\ op'.pc = "cancel" /\ op'.ret \in {"xt1", "xt2"} => op'.left = {}
       /\ op'.pc = "canceled" => op'.ret \notin {"xt1", "xt2"}
  BY <1>1 DEF ExitInv
<1> QED
  BY <1>9, <1>10, <1>11, <1>12 DEF ExitInv

\* cancel_all, for whomever it works.
LEMMA CancelHolds ==
  ASSUME CoreInv, ExitInv, CancelNext \/ CancelAnswered
  PROVE  ExitInv'
<1>1. /\ Sound(op) /\ op \in Threads /\ op.ret \in Rets /\ op.pc \in {"cancel", "canceled"}
  BY DEF CoreInv, Sound, CancelNext, CancelAnswered, At
<1>2. UNCHANGED sell
  BY DEF CancelNext, CancelAnswered, journal
<1>3. PendingSells' = PendingSells
  BY <1>2 DEF PendingSells
<1>4. Rets \cap (Protecting \union Matching) = {"rremote", "rlocal"} /\ Rets \cap Settles = {"xt1", "xt2", "xcanceled"}
      /\ {"cancel", "canceled"} \cap (Protecting \union Matching \union Settles) = {}
      /\ {"rremote", "rlocal"} \cap Protecting = {}
  BY DEF Rets, Protecting, Matching, Settles
<1>5. CASE op.pc = "cancel" /\ op.left = {} /\ Return
  <2>1. op' = IF op.ret = "idle" THEN Idle ELSE [op EXCEPT !.pc = op.ret, !.k = 1, !.want = 0, !.ans = "ok"]
    BY <1>5 DEF Return, BackTo
  <2>2. CASE op.ret = "idle"
    <3>1. op'.pc = "idle"
      BY <2>1, <2>2, IdleSound
    <3> QED
      BY <3>1, HarmlessHolds DEF Harmless, Outside, PC, Protecting, Matching, Settles
  <2>3. CASE op.ret # "idle"
    <3>1. op'.pc = op.ret /\ op'.ret = op.ret /\ op'.todo = op.todo
      BY <1>1, <2>1, <2>3 DEF Threads
    <3>2. UNCHANGED <<prot, sell, algo>>
      BY <1>5 DEF CancelNext, CancelAnswered, journal, At
    <3>3. ASSUME NEW k PROVE Clear(k)' = Clear(k)
      BY <3>2 DEF Clear
    <3>4. op'.pc = "xt2" => \A k \in Prots \ op'.todo : Clear(k)'
      BY <1>5, <3>1, <3>3 DEF ExitInv
    <3>5. Settling' => PendingSells' = {}
      BY <1>3, <1>4, <1>5, <3>1 DEF ExitInv, Settling
    <3>6. op'.pc \notin Protecting /\ op'.pc \notin {"xsell", "cancel", "canceled"}
      BY <1>1, <1>4, <3>1 DEF Rets
    <3> QED
      BY <1>1, <1>4, <3>1, <3>4, <3>5, <3>6 DEF ExitInv
  <2> QED
    BY <2>2, <2>3
<1>6. CASE op'.pc \in {"cancel", "canceled"} /\ op'.ret = op.ret /\ op.ret \notin {"xt1", "xt2"}
  <2>1. Settling' => PendingSells' = {}
    BY <1>1, <1>3, <1>4, <1>6 DEF ExitInv, Settling
  <2> QED
    BY <1>4, <1>6, <2>1 DEF ExitInv
<1>7. CASE CancelNext
  <2>1. CASE op.left = {}
    BY <1>5, <1>7, <2>1 DEF CancelNext, At
  <2>2. CASE op.left # {}
    <3>1. op.pc = "cancel" /\ op.ret \notin {"xt1", "xt2"}
      BY <1>7, <2>2 DEF CancelNext, At, ExitInv
    <3>2. (\E k, a, d : AnswerFor(k, "canceled", a, d)) \/ \E l : op' = [op EXCEPT !.left = l, !.ok = FALSE]
      BY <1>7, <2>2, Zenon DEF CancelNext, CancelAlgo
    <3>3. op'.pc \in {"cancel", "canceled"} /\ op'.ret = op.ret
      BY <1>1, <3>1, <3>2 DEF AnswerFor, Threads
    <3> QED
      BY <1>6, <3>1, <3>3
  <2> QED
    BY <2>1, <2>2
<1>8. CASE CancelAnswered
  <2>1. \E l, g : op' = [op EXCEPT !.pc = "cancel", !.left = l, !.ok = g]
    BY <1>8, Zenon DEF CancelAnswered
  <2>2. op'.pc = "cancel" /\ op'.ret = op.ret
    BY <1>1, <2>1 DEF Threads
  <2>3. op.ret \notin {"xt1", "xt2"}
    BY <1>8 DEF CancelAnswered, At, ExitInv
  <2> QED
    BY <1>6, <2>2, <2>3
<1> QED
  BY <1>7, <1>8

\* A row whose trigger is known leaves no other to be looked after.
LEMMA OneTrigger ==
  ASSUME CoreInv, TrackInv, NEW k \in Prots, prot[k].state = "triggered"
  PROVE  ActiveOnly = {} /\ Actives = {} /\ algo[k].child \in Sells /\ xsell[algo[k].child].state # "none"
<1>1. \A j \in Prots : prot[j].state \in Outstanding \union {"triggered"} => j = k
  BY DEF TrackInv, Unended
<1>2. "triggered" \notin Outstanding /\ "active" \in Outstanding
  BY DEF Outstanding
<1>3. algo[k].child \in Sells /\ xsell[algo[k].child].state # "none"
  BY DEF CoreInv, RowsBooked
<1> QED
  BY <1>1, <1>2, <1>3 DEF ActiveOnly, Actives

\* Its SELL has ended without all of it sold: on with the next row.
LEMMA TriggerHolds ==
  ASSUME CoreInv, TrackInv, ExitInv, ExitSettlesTrigger
  PROVE  ExitInv'
<1> DEFINE k == Min(op.todo)
           s == algo[k].child
           r == IF xsell[s].state = "filled" THEN "filled" ELSE "none"
           on == [op EXCEPT !.todo = @ \ {k}, !.result = r]
           next == IF xsell[s].state = "live" THEN "xopen"
                   ELSE IF xsell[s].state = "filled" THEN "xreturn" ELSE op.pc
<1>1. /\ Sound(op) /\ op \in Threads /\ op.todo \in SUBSET Prots /\ op.pc \in {"xt1", "xt2"}
  BY DEF CoreInv, Sound, Threads, ExitSettlesTrigger
<1>2. k \in Prots /\ k \in op.todo /\ prot[k].state = "triggered"
  BY <1>1, MinRow DEF ExitSettlesTrigger
<1>3. ActiveOnly = {} /\ Actives = {} /\ s \in Sells /\ xsell[s].state # "none"
  BY <1>2, OneTrigger
<1>4. xsell[s].state \in {"live", "filled", "canceled"}
  BY <1>3, Booked DEF SellTypes
<1>5. on \in Threads /\ on.todo = op.todo \ {k} /\ on.ret = op.ret /\ on.pc = op.pc
  BY <1>1 DEF Threads
<1>6. \/ Go("xopen")
      \/ SyncSell(s) /\ (op' = AfterSell(on, position', next) \/ op' = [on EXCEPT !.pc = next])
  BY DEF ExitSettlesTrigger
<1>7. UNCHANGED <<prot, algo>>
  BY DEF ExitSettlesTrigger, exchange
<1>8. {"xopen", "xreturn", "idle"} \subseteq Outside
  BY DEF Outside, PC, Protecting, Matching, Settles
<1>9. CASE Go("xopen")
  <2>1. op'.pc = "xopen"
    BY <1>1, <1>9 DEF Go, Threads
  <2> QED
    BY <1>8, <2>1, HarmlessHolds DEF Harmless
<1>10. CASE SyncSell(s) /\ (op' = AfterSell(on, position', next) \/ op' = [on EXCEPT !.pc = next])
  <2>1. next \in {"xopen", "xreturn", "xt1", "xt2"} /\ (next \in {"xt1", "xt2"} => xsell[s].state = "canceled" /\ next = op.pc)
    BY <1>1, <1>4
  <2> HIDE DEF on, next, r
  <2>2. \/ op'.pc = "cancel" /\ op'.left = {} /\ op'.ret = next /\ op'.todo = op.todo \ {k}
        \/ op'.pc = next /\ op'.ret = op.ret /\ op'.todo = op.todo \ {k}
    <3>1. CASE op' = [on EXCEPT !.pc = next]
      BY <1>5, <3>1 DEF Threads
    <3>2. CASE op' = AfterSell(on, position', next)
      <4>1. \/ op' = [on EXCEPT !.pc = "cancel", !.left = {}, !.ok = TRUE, !.ret = next]
            \/ op' = BackTo(on, next)
        BY <1>3, <3>2 DEF AfterSell
      <4>2. CASE op' = [on EXCEPT !.pc = "cancel", !.left = {}, !.ok = TRUE, !.ret = next]
        BY <1>5, <4>2 DEF Threads
      <4>3. CASE op' = BackTo(on, next)
        <5>1. op' = [on EXCEPT !.pc = next, !.k = 1, !.want = 0, !.ans = "ok"]
          BY <2>1, <4>3 DEF BackTo
        <5> QED
          BY <1>5, <5>1 DEF Threads
      <4> QED
        BY <4>1, <4>2, <4>3
    <3> QED
      BY <1>10, <3>1, <3>2
  <2>3. CASE next \in {"xopen", "xreturn"}
    BY <1>8, <2>2, <2>3, HarmlessHolds DEF Harmless
  <2>4. CASE next \in {"xt1", "xt2"}
    <3>1. xsell[s].state = "canceled" /\ next = op.pc
      BY <2>1, <2>4
    <3>2. sell' = [sell EXCEPT ![s] = [state |-> "canceled", acc |-> xsell[s].acc]]
      BY <1>10, <3>1 DEF SyncSell
    <3>3. sell \in [Sells -> SellRows]
      BY DEF CoreInv, JournalTypes, SellRows
    <3> HIDE DEF s
    <3>4. sell'[s].state = "canceled" /\ \A t \in Sells \ {s} : sell'[t] = sell[t]
      BY <1>3, <3>2, <3>3
    <3>5. PendingSells = {}
      BY <1>1 DEF ExitInv, Settling, Settles
    <3>6. PendingSells' = {}
      BY <3>4, <3>5 DEF PendingSells
    <3>7. ASSUME NEW j \in Prots, Clear(j) \/ j = k PROVE Clear(j)'
      <4>1. CASE prot[j].state # "triggered"
        BY <1>7, <4>1 DEF Clear
      <4>2. CASE prot[j].state = "triggered"
        <5>1. algo[j].child \in Sells
          BY <4>2, OneTrigger
        <5>2. sell'[algo[j].child].state = "canceled"
          BY <3>4, <3>7, <4>2, <5>1 DEF Clear, s
        <5> QED
          BY <1>7, <5>2 DEF Clear
      <4> QED
        BY <4>1, <4>2
    <3>8. next = "xt2" => \A j \in Prots \ op'.todo : Clear(j)'
      <4>1. op'.todo = op.todo \ {k}
        BY <2>2
      <4>2. next = "xt2" => \A j \in Prots \ op.todo : Clear(j)
        BY <3>1 DEF ExitInv
      <4> QED
        BY <3>7, <4>1, <4>2
    <3> QED
      BY <2>2, <2>4, <3>6, <3>8 DEF ExitInv, Protecting, Matching
  <2> QED
    BY <2>1, <2>3, <2>4
<1> QED
  BY <1>6, <1>9, <1>10

LEMMA ExitHolds ==
  ASSUME CoreInv, TrackInv, ExitInv, Exit
  PROVE  ExitInv'
<1>1. /\ Sound(op) /\ op \in Threads /\ op.todo \in SUBSET Prots /\ op.ret \in Rets /\ Idle.pc = "idle"
      /\ prot \in [Prots -> RowTypes]
  BY IdleSound DEF CoreInv, Sound, Threads, JournalTypes, RowTypes
<1>2. {"xopen", "xbuycancel", "xsells", "xbuyanswer", "xreturn", "idle"} \subseteq Outside
      /\ "ensure" \in Protecting /\ {"xopen", "xsells"} \subseteq Callers
  BY DEF Outside, PC, Protecting, Matching, Settles, Callers
<1>3. ASSUME NEW p \in Outside, Go(p) PROVE ExitInv'
  BY <1>1, <1>3, HarmlessHolds DEF Go, Threads, Harmless
<1>4. ASSUME NEW q, Leave(q) PROVE ExitInv'
  <2>1. op'.pc = "xreturn"
    BY <1>1, <1>4 DEF Leave, Threads
  <2> QED
    BY <1>2, <2>1, HarmlessHolds DEF Harmless
<1>5. CASE ExitResolvesBuy
  <2>1. \E p \in {"xopen", "xbuycancel", "xsells"} : Go(p)
    BY <1>5 DEF ExitResolvesBuy
  <2> QED
    BY <1>2, <1>3, <2>1
<1>6. CASE ExitCancelsBuy
  <2>1. \E a, d : Answer("xbuyanswer", a, d)
    BY <1>6 DEF ExitCancelsBuy
  <2>2. op'.pc = "xbuyanswer"
    BY <1>1, <2>1 DEF Answer, AnswerFor, Threads
  <2> QED
    BY <1>2, <2>2, HarmlessHolds DEF Harmless
<1>7. CASE ExitBuyAnswered
  <2>1. PICK next \in {"xopen", "xsells"} : Go(next) \/ op' = AfterBuy(op, position', next)
    BY <1>7 DEF ExitBuyAnswered
  <2>2. CASE op' = AfterBuy(op, position', next)
    <3>1. op'.pc = "ensure" /\ op'.ret = next
      BY <1>1, <2>2 DEF AfterBuy, Threads
    <3> QED
      BY <1>2, <3>1, HarmlessHolds DEF Harmless
  <2> QED
    BY <1>2, <1>3, <2>1, <2>2
<1>8. CASE ExitResolvesSells
  <2>1. \/ PendingSells = {} /\ op' = Settle(op, "xt1") /\ UNCHANGED sell
        \/ Go("xopen") \/ Leave("filled") \/ (op.pc = "xsells" /\ UNCHANGED op)
    BY <1>8 DEF ExitResolvesSells, At
  <2>2. CASE PendingSells = {} /\ op' = Settle(op, "xt1") /\ UNCHANGED sell
    <3>1. op'.pc = "xt1"
      BY <1>1, <2>2 DEF Settle, Threads
    <3>2. PendingSells' = {}
      BY <2>2 DEF PendingSells
    <3> QED
      BY <3>1, <3>2 DEF ExitInv, Protecting, Matching
  <2>3. CASE op.pc = "xsells" /\ UNCHANGED op
    BY <1>2, <2>3, HarmlessHolds DEF Harmless
  <2> QED
    BY <1>2, <1>3, <1>4, <2>1, <2>2, <2>3
<1>9. ASSUME op.pc \in {"xt1", "xt2"}, op'.pc = op.pc, UNCHANGED sell,
             op.pc = "xt2" => \A j \in Prots \ op'.todo : Clear(j)'
      PROVE  ExitInv'
  <2>1. PendingSells = {}
    BY <1>9 DEF ExitInv, Settling, Settles
  <2>2. PendingSells' = {}
    BY <1>9, <2>1 DEF PendingSells
  <2> QED
    BY <1>9, <2>2 DEF ExitInv, Protecting, Matching
<1>10. CASE ExitSkipsRow
  <2> DEFINE k == Min(op.todo)
  <2>1. op.pc \in {"xt1", "xt2"} /\ prot[k].state # "triggered" /\ UNCHANGED <<prot, sell, algo>>
        /\ op' = [op EXCEPT !.todo = @ \ {k}]
    BY <1>10 DEF ExitSkipsRow, journal, exchange
  <2> HIDE DEF k
  <2>2. op'.pc = op.pc /\ op'.todo = op.todo \ {k}
    BY <1>1, <2>1 DEF Threads
  <2>3. op.pc = "xt2" => \A j \in Prots \ op'.todo : Clear(j)
    BY <2>1, <2>2 DEF ExitInv, Clear
  <2>4. \A j : Clear(j)' = Clear(j)
    BY <2>1 DEF Clear
  <2> QED
    BY <1>9, <2>1, <2>2, <2>3, <2>4
<1>11. CASE ExitSeesTrigger
  <2> DEFINE k == Min(op.todo)
  <2>1. op.pc \in {"xt1", "xt2"} /\ k \in op.todo /\ k \in Prots /\ UNCHANGED <<sell, algo>>
        /\ (Leave("raised") \/ (SetState(k, "triggered") /\ UNCHANGED op))
    BY <1>1, <1>11, MinRow DEF ExitSeesTrigger, exchange
  <2> HIDE DEF k
  <2>2. CASE SetState(k, "triggered") /\ UNCHANGED op
    <3>1. \A j \in Prots \ {k} : prot'[j] = prot[j]
      BY <1>1, <2>1, <2>2 DEF SetState
    <3>2. \A j \in Prots \ {k} : Clear(j)' = Clear(j)
      BY <2>1, <3>1 DEF Clear
    <3>3. op.pc = "xt2" => \A j \in Prots \ op'.todo : Clear(j)'
      BY <2>1, <2>2, <3>2 DEF ExitInv
    <3> QED
      BY <1>9, <2>1, <2>2, <3>3
  <2> QED
    BY <1>4, <2>1, <2>2
<1>12. CASE ExitCancelsAll
  <2>1. UNCHANGED sell /\ op.pc = "xt1" /\ op'.pc = "cancel" /\ op'.ret = "xcanceled"
    BY <1>1, <1>12 DEF ExitCancelsAll, At, Threads, journal
  <2>2. PendingSells' = {}
    BY <2>1 DEF ExitInv, Settling, Settles, PendingSells
  <2> QED
    BY <2>1, <2>2 DEF ExitInv, Protecting, Matching
<1>13. CASE ExitCanceled
  <2>1. op' = [[op EXCEPT !.pc = "xt2", !.todo = Rows] EXCEPT !.free = op.ok]
    BY <1>13 DEF ExitCanceled, Settle
  <2>2. UNCHANGED <<prot, sell, algo>> /\ op.pc = "xcanceled" /\ op'.pc = "xt2" /\ op'.todo = Rows
    BY <1>1, <1>13, <2>1 DEF ExitCanceled, At, Threads, journal, exchange
  <2>3. PendingSells' = {}
    BY <2>2 DEF ExitInv, Settling, Settles, PendingSells
  <2>4. \A j \in Prots \ op'.todo : Clear(j)'
    BY <2>2 DEF Rows, Clear
  <2> QED
    BY <2>2, <2>3, <2>4 DEF ExitInv, Protecting, Matching
<1>14. CASE ExitCounts
  <2> DEFINE w == IF position < Available THEN position ELSE Available
  <2>1. (\E q : Leave(q)) \/ op' = [op EXCEPT !.pc = "xsell", !.want = w]
    BY <1>14, Zenon DEF ExitCounts
  <2>2. position \in Nat /\ Available \in Nat
    BY Booked DEF CoreInv, JournalTypes
  <2>3. w \in Nat /\ w <= position /\ w <= Available
    BY <2>2
  <2> HIDE DEF w
  <2>4. CASE op' = [op EXCEPT !.pc = "xsell", !.want = w]
    <3>1. op'.pc = "xsell" /\ op'.want = w
      BY <1>1, <2>4 DEF Threads
    <3>2. UNCHANGED <<sell, prot, position, algo, base, xsell>> /\ op.pc = "xt2" /\ op.todo = {}
      BY <1>14 DEF ExitCounts, At, exchange
    <3>3. PendingSells' = {}
      BY <3>2 DEF ExitInv, Settling, Settles, PendingSells
    <3>4. \A k \in Prots : Clear(k)
      BY <3>2 DEF ExitInv
    <3>5. \A k \in Prots : Clear(k)'
      BY <3>2, <3>4 DEF Clear
    <3>6. Available' = Available
      BY <3>2 DEF Available, Claimed, AlgoLots, SellLots, LiveAlgos, LiveSells
    <3>7. op'.want <= Available' /\ op'.want <= position'
      BY <2>3, <3>1, <3>2, <3>6
    <3> QED
      BY <3>1, <3>3, <3>5, <3>7 DEF ExitInv, Protecting, Matching
  <2> QED
    BY <1>4, <2>1, <2>4
<1>15. CASE ExitSell
  <2>1. \E q : Leave(q)
    BY <1>15, Zenon DEF ExitSell
  <2> QED
    BY <1>4, <2>1
<1>16. CASE ExitReturn
  BY <1>1, <1>2, <1>16, HarmlessHolds DEF ExitReturn, Harmless
<1> QED
  BY <1>5, <1>6, <1>7, <1>8, <1>10, <1>11, <1>12, <1>13, <1>14, <1>15, <1>16, TriggerHolds DEF Exit

LEMMA ExitInit == Init => ExitInv
<1> SUFFICES ASSUME Init PROVE ExitInv
  OBVIOUS
<1>1. op.pc = "idle"
  BY IdleSound DEF Init
<1> QED
  BY <1>1 DEF ExitInv, Settling, Settles, Protecting, Matching

LEMMA ExitStep ==
  ASSUME CoreInv, CoreInv', TrackInv, ExitInv, [Next]_vars
  PROVE  ExitInv'
<1>1. CASE Next
  BY <1>1, HarmlessHolds, ProtectHarmless, ReconcileHarmless, NewsHarmless, AsideHolds, CancelHolds, ExitHolds
<1>2. CASE UNCHANGED vars
  BY <1>2 DEF vars, journal, exchange, ExitInv, Settling, PendingSells, Clear, Available, Claimed, AlgoLots, SellLots,
     LiveAlgos, LiveSells
<1> QED
  BY <1>1, <1>2

LEMMA ExitInvHolds == Spec => []ExitInv
BY ExitInit, ExitStep, CoreHolds, TrackHolds, PTL DEF Spec

\* Whatever queries fail: when an exit submits its SELL no other is undecided, no
\* trigger it knows of may still sell, and every lot it asks for is free.
THEOREM ExitsSellAlone == Spec => []ExitSellsAlone
<1>1. ExitInv => ExitSellsAlone
  BY DEF ExitInv, ExitSellsAlone, At, Settling, Settles, Clear
<1> QED
  BY <1>1, ExitInvHolds, PTL

-----------------------------------------------------------------------------
(* READY means that somebody looks after the position: what a whole        *)
(* reconciliation may leave behind when it says so.                        *)

\* A row looks after the position: an OCO, or a SELL nobody has heard of yet; or
\* one that was given up keeps every exit from it.
Guarded ==
  \E k \in Prots :
    \/ prot[k].state = "active"
    \/ prot[k].state = "triggered" /\ sell[algo[k].child].state = "none"
    \/ Jams(k)

\* The journal knows the SELL of a trigger whose row is still outstanding.
Stale(k) ==
  /\ algo[k].state = "triggered" /\ prot[k].state \in Outstanding
  /\ sell[algo[k].child].state # "none"

\* Of the SELLs of triggers, the journal knows those that have ended.
ChildrenEnded ==
  \A k \in Prots : algo[k].state = "triggered" => sell[algo[k].child].state \in {"none", "filled", "canceled"}

Fresh == ChildrenEnded /\ \A k \in Prots : ~Stale(k)

\* A reconciliation after it has seen the orders, and once it has seen everything.
Reading == {"ralgos", "rremote", "rcanceled", "rlocal"}

Judging == op.pc = "rend" \/ (op.pc \in Protecting /\ op.ret = "rend")

Recon == op.pc = "rorders" \/ op.pc \in Reading \/ Judging

\* An exit on its way to the SELLs that are open.
Resolving == {"xbuys", "xbuycancel", "xbuyanswer", "xsells"}

\* What the journal says has ended has.
EndsSeen == \A s \in Sells : sell[s].state \in {"filled", "canceled"} => xsell[s].state = sell[s].state

\* Nor has it counted a fill that was not.
SoldSeen == \A s \in Sells : sell[s].acc <= xsell[s].acc /\ (sell[s].state = "none" => sell[s].acc = 0)

\* A task that an emergency has left behind meets no open SELL but those of triggers:
\* Flatten found none.
TaskSells ==
  mode # "emergency" /\ watch.task =>
    \A s \in LiveSells : \E k \in Prots : algo[k].state = "triggered" /\ algo[k].child = s

\* Who may call the protection of a position, what cancel_all is for, and where an
\* orphan's cancellation returns to.
RolesKept ==
  /\ op.pc \in Protecting /\ op.ctx = "rec" => op.ret = "rend"
  /\ op.pc = "esell" => mode = "emergency"
  /\ op.pc \in {"cancel", "canceled"} => (position = 0 /\ op.ret \in {"idle", "xopen", "xreturn", "xt1", "xt2"})
                                          \/ op.ret = "xcanceled"
  /\ op.pc \in {"rremote", "rlocal"} => op.ret = op.pc

\* READY has heard of no trigger's SELL that is open, or whose row does not say so, ...
ReadyFresh == mode = "ready" /\ ~Recon => Fresh

\* ... and a reconciliation that calls itself safe has made sure of it.
RecFresh ==
  /\ op.safe /\ op.pc \in Reading => ChildrenEnded
  /\ op.safe /\ Judging => Fresh
  /\ op.pc \in Matching => \A k \in op.todo : ~Stale(k)
  /\ op.safe /\ (op.pc = "rlocal" \/ (op.pc = "rcanceled" /\ op.ret = "rlocal")) =>
       \A k \in Prots : Stale(k) => k \in op.left
  /\ op.pc = "rcanceled" /\ op.ans = "ok" => ~Stale(op.k)

\* While the watchdog's task is due, no SELL of READY is undecided.
ReadyQuiet == mode = "ready" /\ watch.task /\ ~Recon => PendingSells = {}

RecQuiet ==
  op.safe /\ (op.pc \in Reading \/ Judging) /\ mode # "emergency" /\ watch.task => PendingSells = {}

ReadyWatched ==
  /\ mode = "ready" /\ op.pc \in {"idle", "xreturn"} => position = 0 \/ Guarded
  /\ mode = "ready" /\ op.pc \in Resolving => Guarded \/ PendingSells = {}

GuardInv ==
  /\ EndsSeen /\ SoldSeen /\ TaskSells /\ RolesKept
  /\ ReadyFresh /\ RecFresh /\ ReadyQuiet /\ RecQuiet /\ ReadyWatched

\* One SELL of the exchange moves: it was open, or it is new, and then a trigger's
\* or sent by whoever has stopped the system.
SellMoved(t) ==
  /\ \A u \in Sells \ {t} : xsell'[u] = xsell[u]
  /\ \/ xsell[t].state = "live" /\ xsell[t].acc <= xsell'[t].acc
     \/ /\ t \in FreeSells
        /\ EmergencySell \/ ExitSell \/ \E k \in Prots : algo'[k].state = "triggered" /\ algo'[k].child = t

LEMMA OneSellMoves ==
  ASSUME CoreInv, Next
  PROVE  UNCHANGED xsell \/ \E t \in Sells : SellMoved(t)
<1>1. xsell \in [Sells -> SellTypes] /\ algo \in [Prots -> AlgoTypes]
  BY DEF CoreInv, ExchangeTypes, SellTypes, AlgoTypes
<1> DEFINE m == Min(FreeSells)
<1>2. FreeSells # {} => m \in Sells /\ m \in FreeSells
  <2>1. FreeSells \in SUBSET Sells
    BY DEF FreeSells
  <2> QED
    BY <2>1, MinSell
<1> HIDE DEF m
<1>3. CASE XTrigger
  <2>1. PICK k \in LiveAlgos :
          /\ FreeSells # {}
          /\ algo' = [algo EXCEPT ![k].state = "triggered", ![k].child = m]
          /\ xsell' = [xsell EXCEPT ![m] = [state |-> "live", qty |-> algo[k].qty, acc |-> 0]]
    BY <1>3 DEF XTrigger, m
  <2>2. k \in Prots
    BY DEF LiveAlgos
  <2>3. algo'[k].state = "triggered" /\ algo'[k].child = m
    BY <1>1, <2>1, <2>2 DEF AlgoTypes
  <2>4. \A u \in Sells \ {m} : xsell'[u] = xsell[u]
    BY <1>1, <2>1
  <2> QED
    BY <1>2, <2>1, <2>2, <2>3, <2>4 DEF SellMoved
<1>4. CASE XSellFill \/ XSellEnds
  <2>1. PICK t \in LiveSells : \/ \E x : xsell' = [xsell EXCEPT ![t].acc = @ + 1, ![t].state = x]
                               \/ xsell' = [xsell EXCEPT ![t].state = "canceled"]
    <3>1. CASE XSellEnds
      BY <3>1 DEF XSellEnds
    <3>2. CASE XSellFill
      BY <3>2 DEF XSellFill
    <3> QED
      BY <1>4, <3>1, <3>2
  <2>2. t \in Sells /\ xsell[t].state = "live"
    BY DEF LiveSells
  <2>3. \A u \in Sells \ {t} : xsell'[u] = xsell[u]
    BY <1>1, <2>1, <2>2
  <2>4. xsell[t].acc \in Nat /\ (xsell'[t].acc = xsell[t].acc \/ xsell'[t].acc = xsell[t].acc + 1)
    BY <1>1, <2>1, <2>2 DEF SellTypes
  <2> QED
    BY <2>2, <2>3, <2>4 DEF SellMoved
<1>5. CASE EmergencySell \/ ExitSell
  <2>1. UNCHANGED xsell \/ (FreeSells # {} /\ SubmitSell(m))
    BY <1>5 DEF EmergencySell, ExitSell, m
  <2>2. CASE FreeSells # {} /\ SubmitSell(m)
    <3>1. UNCHANGED xsell \/ xsell' = [xsell EXCEPT ![m] = [state |-> "live", qty |-> op.want, acc |-> 0]]
      BY <2>2 DEF SubmitSell
    <3>2. \A u \in Sells \ {m} : xsell'[u] = xsell[u]
      BY <1>1, <3>1
    <3> QED
      BY <1>2, <1>5, <2>2, <3>2 DEF SellMoved
  <2> QED
    BY <2>1, <2>2
<1>6. CASE \/ ExchangeRests \/ XBuyFill \/ XBuyEnds \/ XAlgoEnds \/ Place \/ Amend \/ Abort \/ CancelNext \/ ExitResolvesBuy
           \/ ExitCancelsBuy \/ ExitBuyAnswered \/ RecOrders \/ RecRemote \/ RecLocal \/ BuyNews \/ NewBuy
  BY <1>6 DEF ExchangeRests, XBuyFill, XBuyEnds, XAlgoEnds, Place, Amend, Abort, CancelNext, ExitResolvesBuy,
     ExitCancelsBuy, ExitBuyAnswered, RecOrders, RecRemote, RecLocal, BuyNews, NewBuy, exchange
<1> QED
  BY <1>3, <1>4, <1>5, <1>6, BooksElsewhere

\* The steps in which the journal hears of SELLs, and those that send one.
Hears == SellNews \/ ExitResolvesSells \/ ExitSettlesTrigger \/ RecOrders

Sends == EmergencySell \/ ExitSell

LEMMA SellRests ==
  ASSUME Next, ~Hears, ~Sends
  PROVE  UNCHANGED sell
<1>1. CASE Exchange \/ Watchdog \/ NewBuy \/ Flatten \/ LeaseExpires \/ ExitDeadline \/ AlgoNews \/ BuyNews \/ ExitBegin
           \/ RecBegin \/ Crash
  BY <1>1 DEF Exchange, XBuyFill, XBuyEnds, XTrigger, XAlgoEnds, XSellFill, XSellEnds, Watchdog, WatchDetects,
     WatchDeadline, WatchClears, NewBuy, Flatten, LeaseExpires, ExitDeadline, AlgoNews, BuyNews, ExitBegin, RecBegin,
     Crash, journal
<1>2. CASE Protect
  BY <1>2, Zenon DEF Sends, Protect, EnsureRefused, EnsureActive, EnsureBlocked, EnsureNew, MarkSubmitting, Place, PlacedSeen,
     PlacedUnresolved, PlacedRefused, Amend, AmendSeen, AmendFailed, Abort, AbortSeen, AbortFailed, CancelNext,
     CancelAnswered, journal
<1>3. CASE Exit
  BY <1>3 DEF Hears, Sends, Exit, ExitResolvesBuy, ExitCancelsBuy, ExitBuyAnswered, ExitSkipsRow, ExitSeesTrigger,
     ExitCancelsAll, ExitCanceled, ExitCounts, ExitReturn, journal
<1>4. CASE Reconcile
  BY <1>4, Zenon DEF Hears, Reconcile, RecAlgos, RecRemote, RecCanceled, RecRemoteDone, RecLocal, RecLocalDone, RecEnd, journal
<1> QED
  BY <1>1, <1>2, <1>3, <1>4 DEF Next, Hears

\* Whoever sends one takes a number that was free.
LEMMA SendsFree ==
  ASSUME CoreInv, Sends
  PROVE  \/ UNCHANGED sell
         \/ \E t \in FreeSells : /\ sell'[t].state \in {"unknown", "live"} /\ sell'[t].acc = sell[t].acc
                                 /\ \A u \in Sells \ {t} : sell'[u] = sell[u]
<1> DEFINE m == Min(FreeSells)
<1>1. UNCHANGED sell \/ (FreeSells # {} /\ SubmitSell(m))
  BY DEF Sends, EmergencySell, ExitSell
<1>2. CASE FreeSells # {} /\ SubmitSell(m)
  <2>1. FreeSells \in SUBSET Sells
    BY DEF FreeSells
  <2>2. m \in FreeSells /\ m \in Sells
    BY <1>2, <2>1, MinSell
  <2>3. PICK t \in {"live", "unknown"} : sell' = [sell EXCEPT ![m].state = t]
    BY <1>2 DEF SubmitSell
  <2>4. sell \in [Sells -> SellRows]
    BY DEF CoreInv, JournalTypes, SellRows
  <2> HIDE DEF m
  <2>5. sell'[m].state = t /\ sell'[m].acc = sell[m].acc /\ \A u \in Sells \ {m} : sell'[u] = sell[u]
    BY <2>2, <2>3, <2>4 DEF SellRows
  <2> QED
    BY <2>2, <2>5
<1> QED
  BY <1>1, <1>2

\* The SELLs of triggers are as the journal had them.
ChildrenRest == \A k \in Prots : algo[k].state = "triggered" => sell'[algo[k].child].state = sell[algo[k].child].state

LEMMA ChildrenLeft ==
  ASSUME CoreInv, Next, ~Hears
  PROVE  ChildrenRest
<1>1. CASE UNCHANGED sell
  BY <1>1 DEF ChildrenRest
<1>2. CASE Sends
  <2>1. \A k \in Prots : algo[k].state = "triggered" => algo[k].child \in Sells /\ xsell[algo[k].child].state # "none"
    BY DEF CoreInv, RowsBooked
  <2>2. \A t \in FreeSells : xsell[t].state = "none"
    BY DEF FreeSells
  <2> QED
    BY <1>1, <1>2, <2>1, <2>2, SendsFree DEF ChildrenRest
<1> QED
  BY <1>1, <1>2, SellRests

\* A row that is not outstanding stays so while its OCO has fired.
LEMMA StaleStep ==
  ASSUME CoreInv, TrackInv, Next, ChildrenRest
  PROVE  /\ \A k \in Prots : Stale(k)' => Stale(k)
         /\ ChildrenEnded => ChildrenEnded'
<1>1. prot \in [Prots -> RowTypes]
  BY DEF CoreInv, JournalTypes, RowTypes
<1>2. CASE UNCHANGED prot
  <2>1. AlgosMove
    BY ExchangeMoves
  <2>2. ASSUME NEW k \in Prots, algo'[k].state = "triggered"
        PROVE  \/ algo[k].state = "triggered" /\ algo'[k].child = algo[k].child
                  /\ sell'[algo'[k].child].state = sell[algo[k].child].state
               \/ AlgoFires(k)
    BY <2>1, <2>2 DEF AlgosMove, AlgoKeeps, AlgoLeaves, AlgoPlaced, ChildrenRest
  <2>3. ASSUME NEW k \in Prots, AlgoFires(k) PROVE sell'[algo'[k].child].state = "none"
    <3>1. CASE UNCHANGED sell
      BY <2>3, <3>1 DEF AlgoFires
    <3>2. CASE ~UNCHANGED sell
      <4>1. Hears \/ Sends
        BY <3>2, SellRests
      <4>2. UNCHANGED algo
        BY <4>1 DEF Hears, Sends, SellNews, ExitResolvesSells, ExitSettlesTrigger, RecOrders, EmergencySell, ExitSell,
           exchange
      <4> QED
        BY <2>3, <4>2 DEF AlgoFires, LiveAlgos
    <3> QED
      BY <3>1, <3>2
  <2> QED
    BY <1>2, <2>2, <2>3 DEF Stale, ChildrenEnded
<1>3. CASE RowTracked
  <2>1. UNCHANGED algo
    BY <1>3 DEF RowTracked
  <2>2. PICK k \in Prots : \E r \in RowTypes : prot' = [prot EXCEPT ![k] = r] /\ Tracks(k, r.state)
    BY <1>3, Zenon DEF RowTracked
  <2>3. PICK r \in RowTypes : prot' = [prot EXCEPT ![k] = r] /\ Tracks(k, r.state)
    BY <2>2
  <2>4. prot'[k] = r /\ \A j \in Prots \ {k} : prot'[j] = prot[j]
    BY <1>1, <2>3
  <2>5. algo[k].state = "triggered" /\ r.state \in Outstanding => prot[k].state \in Outstanding
    <3>1. "triggered" \notin Outstanding /\ "emergency_exit" \notin Outstanding
      BY DEF Outstanding
    <3>2. prot[k].state = "none" => algo[k].state = "none"
      BY DEF CoreInv, RowsBooked
    <3>3. algo[k].state = "triggered" => AlgoView(k) = "triggered"
      BY DEF AlgoView
    <3> QED
      BY <2>3, <3>1, <3>2, <3>3 DEF Tracks
  <2> QED
    BY <2>1, <2>4, <2>5 DEF Stale, ChildrenEnded, ChildrenRest
<1> QED
  BY <1>2, <1>3, RowsTracked

\* What the journal hears is what the exchange says.
LEMMA HearsSeen ==
  ASSUME CoreInv, Hears
  PROVE  /\ UNCHANGED xsell
         /\ \A s \in Sells : \/ sell'[s] = sell[s]
                             \/ /\ sell'[s].state = xsell[s].state /\ sell'[s].acc = xsell[s].acc
                                /\ xsell[s].state # "none"
<1>1. sell \in [Sells -> SellRows] /\ op.todo \in SUBSET Prots
  BY DEF CoreInv, JournalTypes, SellRows, Sound, Threads
<1>2. UNCHANGED xsell
  BY DEF Hears, SellNews, ExitResolvesSells, ExitSettlesTrigger, RecOrders, exchange
<1>3. ASSUME NEW s, xsell[s].state # "none", SyncSell(s), NEW u \in Sells
      PROVE  \/ sell'[u] = sell[u]
             \/ sell'[u].state = xsell[u].state /\ sell'[u].acc = xsell[u].acc /\ xsell[u].state # "none"
  BY <1>1, <1>3 DEF SyncSell
<1>4. CASE SellNews
  <2>1. \E s \in Sells : xsell[s].state # "none" /\ SyncSell(s)
    BY <1>4, Zenon DEF SellNews
  <2> QED
    BY <1>2, <1>3, <2>1
<1>5. CASE ExitResolvesSells
  <2>1. UNCHANGED sell \/ \E s : xsell[s].state # "none" /\ SyncSell(s)
    BY <1>5, Zenon DEF ExitResolvesSells
  <2> QED
    BY <1>2, <1>3, <2>1
<1>6. CASE ExitSettlesTrigger
  <2> DEFINE k == Min(op.todo)
  <2>1. k \in Prots /\ prot[k].state = "triggered" /\ (UNCHANGED sell \/ SyncSell(algo[k].child))
    BY <1>1, <1>6, MinRow DEF ExitSettlesTrigger
  <2>2. xsell[algo[k].child].state # "none"
    BY <2>1 DEF CoreInv, RowsBooked
  <2> HIDE DEF k
  <2> QED
    BY <1>2, <1>3, <2>1, <2>2
<1>7. CASE RecOrders
  <2>1. PICK M \in SUBSET Sells :
          sell' = [s \in Sells |-> IF s \in Visible \ M THEN [state |-> xsell[s].state, acc |-> xsell[s].acc] ELSE sell[s]]
    <3>1. {s \in Visible : xsell[s].state # "live"} \subseteq Sells
      BY DEF Visible
    <3>2. \E M \in SUBSET {s \in Visible : xsell[s].state # "live"} :
            sell' = [s \in Sells |-> IF s \in Visible \ M THEN [state |-> xsell[s].state, acc |-> xsell[s].acc] ELSE sell[s]]
      BY <1>7, Zenon DEF RecOrders
    <3> QED
      BY <3>1, <3>2
  <2>2. \A s \in Visible : xsell[s].state # "none"
    BY DEF Visible
  <2> QED
    BY <1>2, <2>1, <2>2
<1> QED
  BY <1>4, <1>5, <1>6, <1>7 DEF Hears

\* A SELL that has ended stays as it is.
LEMMA EndedStays ==
  ASSUME CoreInv, Next, NEW s \in Sells, xsell[s].state \in {"filled", "canceled"}
  PROVE  xsell'[s] = xsell[s]
BY OneSellMoves DEF SellMoved, FreeSells

LEMMA EndsSeenHolds ==
  ASSUME CoreInv, Next, EndsSeen
  PROVE  EndsSeen'
<1> SUFFICES ASSUME NEW s \in Sells, sell'[s].state \in {"filled", "canceled"}
             PROVE  xsell'[s].state = sell'[s].state
  BY DEF EndsSeen
<1>1. CASE sell'[s] = sell[s]
  BY <1>1, EndedStays DEF EndsSeen
<1>2. CASE Hears /\ sell'[s] # sell[s]
  BY <1>2, HearsSeen
<1>3. CASE Sends /\ sell'[s] # sell[s]
  <2>1. sell'[s].state \in {"unknown", "live"}
    BY <1>3, SendsFree
  <2> QED
    BY <2>1
<1> QED
  BY <1>1, <1>2, <1>3, SellRests

LEMMA SoldSeenHolds ==
  ASSUME CoreInv, CoreInv', Next, SoldSeen
  PROVE  SoldSeen'
<1> SUFFICES ASSUME NEW s \in Sells
             PROVE  sell'[s].acc <= xsell'[s].acc /\ (sell'[s].state = "none" => sell'[s].acc = 0)
  BY DEF SoldSeen
<1>1. xsell[s].acc \in Nat /\ xsell'[s].acc \in Nat /\ sell[s].acc \in Nat
  BY DEF CoreInv, ExchangeTypes, JournalTypes
<1>2. sell[s].acc <= xsell[s].acc /\ (sell[s].state = "none" => sell[s].acc = 0)
  BY DEF SoldSeen
<1>3. xsell[s].acc <= xsell'[s].acc \/ sell[s].acc = 0
  <2>1. CASE xsell'[s] = xsell[s]
    BY <1>1, <2>1
  <2>2. CASE SellMoved(s)
    BY <1>2, <2>2 DEF SellMoved, FreeSells
  <2> QED
    BY <2>1, <2>2, OneSellMoves DEF SellMoved
<1>4. CASE sell'[s].acc = sell[s].acc /\ (sell'[s].state = "none" => sell[s].state = "none")
  BY <1>1, <1>2, <1>3, <1>4
<1>5. CASE Hears
  <2>1. CASE sell'[s] = sell[s]
    BY <1>4, <2>1
  <2>2. CASE sell'[s].state = xsell[s].state /\ sell'[s].acc = xsell[s].acc /\ xsell[s].state # "none"
    BY <1>1, <1>5, <2>2, HearsSeen
  <2> QED
    BY <1>5, <2>1, <2>2, HearsSeen
<1>6. CASE Sends
  <2>1. \/ sell'[s] = sell[s]
        \/ sell'[s].state \in {"unknown", "live"} /\ sell'[s].acc = sell[s].acc
    BY <1>6, SendsFree
  <2> QED
    BY <1>4, <2>1
<1> QED
  BY <1>4, <1>5, <1>6, SellRests

\* An emergency ends with everything at rest, and a task starts with one.
LEMMA EmergencyStays ==
  ASSUME CoreInv, Next
  PROVE  /\ mode' # "emergency" => mode # "emergency" \/ (LiveSells = {} /\ UNCHANGED xsell)
         /\ mode' # "emergency" /\ watch'.task => watch.task
<1>1. watch \in Watches
  BY DEF CoreInv, JournalTypes, Watches
<1>2. mode' # "emergency" => mode # "emergency" \/ (LiveSells = {} /\ UNCHANGED xsell)
  BY ModeMoves DEF Degrade, Emergency, RecEnd, Flatten, exchange
<1>3. UNCHANGED watch \/ Emergency \/ WatchClears \/ ExitBegin \/ ExitReturn \/ Crash
  <2>1. CASE Exchange \/ Watchdog \/ NewBuy \/ Flatten \/ LeaseExpires \/ ExitDeadline \/ AlgoNews \/ BuyNews \/ ExitBegin
             \/ RecBegin \/ Crash \/ SellNews
    BY <2>1, Zenon DEF Exchange, XBuyFill, XBuyEnds, XTrigger, XAlgoEnds, XSellFill, XSellEnds, Watchdog, WatchDetects,
       WatchDeadline, NewBuy, Flatten, LeaseExpires, ExitDeadline, AlgoNews, BuyNews, RecBegin, SellNews
  <2>2. CASE Protect
    BY <2>2 DEF Protect, EnsureRefused, EnsureActive, EnsureBlocked, EnsureNew, MarkSubmitting, Place, PlacedSeen,
       PlacedUnresolved, PlacedRefused, Amend, AmendSeen, AmendFailed, Abort, AbortSeen, AbortFailed, EmergencySell,
       CancelNext, CancelAnswered
  <2>3. CASE Exit
    BY <2>3 DEF Exit, ExitResolvesBuy, ExitCancelsBuy, ExitBuyAnswered, ExitResolvesSells, ExitSkipsRow,
       ExitSeesTrigger, ExitSettlesTrigger, ExitCancelsAll, ExitCanceled, ExitCounts, ExitSell
  <2>4. CASE Reconcile
    BY <2>4 DEF Reconcile, RecOrders, RecAlgos, RecRemote, RecCanceled, RecRemoteDone, RecLocal, RecLocalDone, RecEnd
  <2> QED
    BY <2>1, <2>2, <2>3, <2>4 DEF Next
<1>4. CASE WatchClears \/ ExitBegin
  <2>1. \/ UNCHANGED watch \/ watch' = [watch EXCEPT !.since = FALSE, !.reported = FALSE]
        \/ watch' = [watch EXCEPT !.task = FALSE, !.reported = FALSE]
    BY <1>4, Zenon DEF WatchClears, ExitBegin
  <2> QED
    BY <1>1, <1>2, <2>1 DEF Watches
<1>5. CASE ExitReturn
  <2>1. PICK b : watch' = [watch EXCEPT !.task = FALSE, !.reported = b] \/ watch' = watch
    BY <1>5 DEF ExitReturn
  <2> QED
    BY <1>1, <1>2, <2>1 DEF Watches
<1>6. CASE Crash
  BY <1>2, <1>6 DEF Crash
<1> QED
  BY <1>2, <1>3, <1>4, <1>5, <1>6 DEF Emergency

LEMMA TaskSellsHolds ==
  ASSUME CoreInv, Next, TaskSells, RolesKept
  PROVE  TaskSells'
<1> SUFFICES ASSUME mode' # "emergency", watch'.task, NEW s \in LiveSells'
             PROVE  \E k \in Prots : algo'[k].state = "triggered" /\ algo'[k].child = s
  BY DEF TaskSells
<1>1. s \in Sells /\ xsell'[s].state = "live"
  BY DEF LiveSells
<1>2. CASE LiveSells = {} /\ UNCHANGED xsell
  BY <1>1, <1>2 DEF LiveSells
<1>3. CASE mode # "emergency"
  <2>1. watch.task
    BY EmergencyStays
  <2>2. CASE s \in LiveSells
    <3>1. PICK k \in Prots : algo[k].state = "triggered" /\ algo[k].child = s
      BY <1>3, <2>1, <2>2 DEF TaskSells
    <3>2. op.pc = "place" => algo[op.k].state = "none"
      BY DEF CoreInv, RowsBooked
    <3>3. AlgoKeeps(k)
      BY <3>1, <3>2, ExchangeMoves DEF AlgosMove, AlgoFires, AlgoLeaves, AlgoPlaced, LiveAlgos
    <3> QED
      BY <3>1, <3>3 DEF AlgoKeeps
  <2>3. CASE s \notin LiveSells
    <3>1. SellMoved(s) /\ xsell[s].state # "live"
      BY <1>1, <2>3, OneSellMoves DEF SellMoved, LiveSells
    <3>2. ~EmergencySell /\ ~ExitSell
      BY <1>3 DEF EmergencySell, ExitSell, Emergency, At, RolesKept
    <3> QED
      BY <3>1, <3>2 DEF SellMoved
  <2> QED
    BY <2>2, <2>3
<1> QED
  BY <1>2, <1>3, EmergencyStays

-----------------------------------------------------------------------------
(* While a position is being protected.                                    *)

\* The thread works on for whoever called it, and sells only in an emergency.
Works ==
  /\ op'.pc \in Protecting /\ op'.ret = op.ret /\ op'.ctx = op.ctx /\ op'.safe = op.safe
  /\ op'.pc = "esell" => mode' = "emergency"

\* It hands back, to any but a reconciliation with a guarded position.
HandsBack == Return /\ (mode' = "ready" /\ op.ret # "rend" => Guarded')

LEMMA RaisedGuards ==
  ASSUME CoreInv, RolesKept, op.pc \in Protecting, Raised
  PROVE  Works \/ HandsBack
<1>1. op \in Threads
  BY DEF CoreInv, Sound
<1>2. CASE op.ctx = "buy"
  <2>1. mode' = "emergency" /\ Go("esell")
    BY <1>2 DEF Raised
  <2> QED
    BY <1>1, <2>1 DEF Go, Threads, Works, Protecting
<1>3. CASE op.ctx # "buy"
  <2>1. Return /\ (mode' = "ready" => op.ctx = "rec")
    BY <1>3 DEF Raised
  <2> QED
    BY <2>1 DEF HandsBack, RolesKept
<1> QED
  BY <1>2, <1>3

\* A row that becomes active guards, and one that becomes triggered when the
\* journal has not heard of its SELL.
LEMMA RowGuards ==
  ASSUME CoreInv, NEW k \in Prots, UNCHANGED <<algo, sell>>, NEW r, prot' = [prot EXCEPT ![k] = r],
         \/ r.state = "active"
         \/ r.state = "triggered" /\ sell[algo[k].child].state = "none"
  PROVE  Guarded'
<1>1. prot'[k] = r
  BY DEF CoreInv, JournalTypes
<1> QED
  BY <1>1 DEF Guarded

LEMMA StoreGuards ==
  ASSUME CoreInv, NEW k \in Prots, UNCHANGED <<algo, sell>>, prot' = [prot EXCEPT ![k] = Store(k)],
         \/ AlgoView(k) = "active"
         \/ AlgoView(k) = "triggered" /\ prot[k].state \in Outstanding /\ ~Stale(k)
  PROVE  Guarded'
<1>1. Store(k).state = AlgoView(k)
  BY DEF Store
<1>2. AlgoView(k) = "triggered" => algo[k].state = "triggered"
  BY DEF AlgoView
<1>3. AlgoView(k) = "active" \/ (AlgoView(k) = "triggered" /\ sell[algo[k].child].state = "none")
  BY <1>2 DEF Stale
<1> QED
  BY <1>1, <1>3, RowGuards

LEMMA EnsureGuards ==
  ASSUME CoreInv, TrackInv, RolesKept, EnsureRefused \/ EnsureActive \/ EnsureBlocked \/ EnsureNew
  PROVE  Works \/ HandsBack
<1>1. op \in Threads /\ op.pc \in Protecting /\ UNCHANGED <<algo, sell>>
  BY DEF CoreInv, Sound, EnsureRefused, EnsureActive, EnsureBlocked, EnsureNew, At, Protecting, exchange
<1>2. {"amend", "submit", "esell"} \subseteq Protecting /\ "amend" # "esell" /\ "submit" # "esell"
  BY DEF Protecting
<1>3. ASSUME NEW k, NEW p \in {"amend", "submit"}, op' = [op EXCEPT !.pc = p, !.k = k] PROVE Works
  BY <1>1, <1>2, <1>3 DEF Threads, Works
<1>4. CASE EnsureRefused
  BY <1>1, <1>4, RaisedGuards DEF EnsureRefused
<1>5. CASE EnsureActive
  <2>1. (Return /\ UNCHANGED prot) \/ \E k : StartAmend(k)
    BY <1>5, Zenon DEF EnsureActive
  <2>2. CASE Return /\ UNCHANGED prot
    <3>1. Guarded
      BY <1>5 DEF EnsureActive, Actives, Guarded
    <3>2. Guarded'
      BY <1>1, <2>2, <3>1 DEF Guarded, Jams
    <3> QED
      BY <2>2, <3>2 DEF HandsBack
  <2> QED
    BY <1>3, <2>1, <2>2 DEF StartAmend
<1>6. CASE EnsureBlocked
  <2> DEFINE k == Min(Unsettled)
             r == [Store(k) EXCEPT !.state = IF algo[k].qty = op.want THEN "active" ELSE "amending"]
  <2>1. \/ Raised \/ StartAmend(k)
        \/ Return /\ prot' = [prot EXCEPT ![k] = r] /\ algo[k].qty = op.want
    BY <1>6, Zenon DEF EnsureBlocked
  <2>2. CASE Return /\ prot' = [prot EXCEPT ![k] = r] /\ algo[k].qty = op.want
    <3>1. k \in Prots
      <4>1. Unsettled \in SUBSET Prots /\ Unsettled # {}
        BY <1>6 DEF EnsureBlocked, Unsettled
      <4> QED
        BY <4>1, MinRow
    <3>2. r.state = "active"
      BY <2>2 DEF Store
    <3> HIDE DEF k, r
    <3>3. Guarded'
      BY <1>1, <2>2, <3>1, <3>2, RowGuards
    <3> QED
      BY <2>2, <3>3 DEF HandsBack
  <2> QED
    BY <1>1, <1>3, <2>1, <2>2, RaisedGuards DEF StartAmend
<1>7. CASE EnsureNew
  <2>1. (Emergency /\ Go("esell")) \/ \E k : op' = [op EXCEPT !.pc = "submit", !.k = k]
    BY <1>7, Zenon DEF EnsureNew
  <2>2. CASE Emergency /\ Go("esell")
    BY <1>1, <1>2, <2>2 DEF Emergency, Go, Threads, Works
  <2> QED
    BY <1>3, <2>1, <2>2
<1> QED
  BY <1>4, <1>5, <1>6, <1>7

LEMMA AnswersGuard ==
  ASSUME CoreInv, TrackInv, RolesKept, ReadyFresh,
         \/ MarkSubmitting \/ Place \/ PlacedSeen \/ PlacedUnresolved \/ PlacedRefused \/ Amend \/ AmendSeen \/ AmendFailed
         \/ Abort \/ AbortSeen \/ AbortFailed \/ EmergencySell
  PROVE  Works \/ HandsBack
<1>1. op \in Threads /\ op.k \in Prots /\ op.pc \in Protecting
  BY DEF CoreInv, Sound, Threads, MarkSubmitting, Place, PlacedSeen, PlacedUnresolved, PlacedRefused, Amend, AmendSeen,
     AmendFailed, Abort, AbortSeen, AbortFailed, EmergencySell, At, Protecting
<1>2. {"place", "placed", "amended", "abort", "aborted", "esell"} \subseteq Protecting
  BY DEF Protecting
<1>3. ASSUME NEW p \in {"place", "abort"}, Go(p) PROVE Works
  BY <1>1, <1>2, <1>3 DEF Go, Threads, Works
<1>4. ASSUME NEW k, NEW p \in {"placed", "amended", "aborted"}, NEW a, NEW d, AnswerFor(k, p, a, d) PROVE Works
  BY <1>1, <1>2, <1>4 DEF AnswerFor, Threads, Works
<1>5. ASSUME Emergency, Go("esell") PROVE Works
  BY <1>1, <1>2, <1>5 DEF Emergency, Go, Threads, Works
<1>6. ASSUME Return, Emergency \/ Degrade \/ op.ret = "rend" PROVE HandsBack
  BY <1>6 DEF Emergency, Degrade, HandsBack
<1>7. ASSUME Return, mode' = "ready" /\ op.ret # "rend" => Guarded' PROVE HandsBack
  BY <1>7 DEF HandsBack
<1>8. CASE MarkSubmitting
  BY <1>3, <1>8 DEF MarkSubmitting
<1>9. CASE Place \/ Amend
  <2>1. \E p \in {"placed", "amended"} : \E a, d : Answer(p, a, d)
    BY <1>9 DEF Place, Amend
  <2> QED
    BY <1>4, <2>1 DEF Answer
<1>10. CASE Abort
  <2>1. \E k, a, d : AnswerFor(k, "aborted", a, d)
    BY <1>10, Zenon DEF Abort, CancelAlgo
  <2> QED
    BY <1>4, <2>1
<1>11. CASE PlacedSeen
  <2>1. op.pc = "placed" /\ prot[op.k].state \in Outstanding /\ UNCHANGED <<algo, sell>>
    BY <1>11 DEF PlacedSeen, At, TrackInv, Outstanding, exchange
  <2>2. \/ AlgoView(op.k) \in {"active", "triggered"} /\ prot' = [prot EXCEPT ![op.k] = Store(op.k)] /\ Return
           /\ (Degrade \/ UNCHANGED mode)
        \/ Emergency /\ Go("esell")
        \/ Raised
    BY <1>11 DEF PlacedSeen, GiveUp
  <2>3. CASE AlgoView(op.k) \in {"active", "triggered"} /\ prot' = [prot EXCEPT ![op.k] = Store(op.k)] /\ Return
             /\ (Degrade \/ UNCHANGED mode)
    <3>1. ASSUME mode' = "ready", op.ret # "rend" PROVE Guarded'
      <4>1. mode = "ready" /\ ~Recon
        <5>1. op.pc \notin {"rorders", "rend"} /\ op.pc \notin Reading
          BY <2>1 DEF Reading
        <5> QED
          BY <2>3, <3>1, <5>1 DEF Degrade, Recon, Judging
      <4>2. ~Stale(op.k)
        BY <1>1, <4>1 DEF ReadyFresh, Fresh
      <4> QED
        BY <1>1, <2>1, <2>3, <4>2, StoreGuards
    <3> QED
      BY <1>7, <2>3, <3>1
  <2> QED
    BY <1>1, <1>5, <2>2, <2>3, RaisedGuards
<1>12. CASE PlacedUnresolved \/ AbortFailed
  BY <1>6, <1>12 DEF PlacedUnresolved, AbortFailed
<1>13. CASE PlacedRefused
  BY <1>5, <1>13 DEF PlacedRefused
<1>14. CASE AmendSeen
  <2>1. /\ prot' = [prot EXCEPT ![op.k] = Store(op.k)] /\ UNCHANGED <<algo, sell>>
        /\ \/ Return /\ (AlgoView(op.k) = "active" \/ Degrade)
           \/ Go("abort")
    BY <1>14 DEF AmendSeen, exchange
  <2>2. CASE Return /\ AlgoView(op.k) = "active"
    BY <1>1, <1>7, <2>1, <2>2, StoreGuards
  <2> QED
    BY <1>3, <1>6, <2>1, <2>2
<1>15. CASE AmendFailed
  BY <1>3, <1>15 DEF AmendFailed
<1>16. CASE AbortSeen
  <2>1. Raised \/ (Return /\ (Degrade \/ Emergency)) \/ (Emergency /\ Go("esell"))
    <3>1. "canceled" # "triggered"
      OBVIOUS
    <3> QED
      BY <1>16, <3>1 DEF AbortSeen
  <2> QED
    BY <1>1, <1>5, <1>6, <2>1, RaisedGuards
<1>17. CASE EmergencySell
  <2>1. Return /\ mode = "emergency" /\ (UNCHANGED mode \/ Degrade)
    BY <1>17 DEF EmergencySell, At, RolesKept
  <2>2. mode' = "emergency"
    BY <2>1 DEF Degrade
  <2> QED
    BY <1>7, <2>1, <2>2
<1> QED
  BY <1>8, <1>9, <1>10, <1>11, <1>12, <1>13, <1>14, <1>15, <1>16, <1>17

LEMMA ProtectGuards ==
  ASSUME CoreInv, TrackInv, ExitInv, RolesKept, ReadyFresh, Protect, ~CancelNext, ~CancelAnswered
  PROVE  /\ op.pc \in Protecting /\ op.ret \in Callers /\ op.ret \in Rets /\ op \in Threads
         /\ Works \/ HandsBack
<1>1. op.pc \in Protecting
  BY DEF Protect, EnsureRefused, EnsureActive, EnsureBlocked, EnsureNew, MarkSubmitting, Place, PlacedSeen,
     PlacedUnresolved, PlacedRefused, Amend, AmendSeen, AmendFailed, Abort, AbortSeen, AbortFailed, EmergencySell,
     At, Protecting
<1>2. op.ret \in Callers /\ op.ret \in Rets /\ op \in Threads
  BY <1>1 DEF ExitInv, CoreInv, Sound
<1> QED
  BY <1>1, <1>2, EnsureGuards, AnswersGuard DEF Protect

-----------------------------------------------------------------------------
(* While the system is READY and no reconciliation is at work.             *)

\* The journal changes only what it knew of SELLs that were undecided.
LEMMA ReadySells ==
  ASSUME CoreInv, EndsSeen, RolesKept, Next, ~RecOrders, mode' = "ready"
  PROVE  \A s \in Sells \ PendingSells : sell'[s].state = sell[s].state
<1>1. sell \in [Sells -> SellRows]
  BY DEF CoreInv, JournalTypes, SellRows
<1>2. \A s \in Sells \ PendingSells : sell[s].state \in {"none", "filled", "canceled"}
  BY <1>1 DEF SellRows, PendingSells
<1>3. ASSUME NEW s \in Sells \ PendingSells, Hears, sell[s].state # "none" PROVE sell'[s].state = sell[s].state
  BY <1>2, <1>3, HearsSeen DEF EndsSeen
<1>4. ASSUME NEW s \in Sells, NEW u, sell[u].state # "none", SyncSell(u), sell[s].state = "none"
      PROVE  sell'[s].state = sell[s].state
  BY <1>1, <1>4 DEF SyncSell
<1>5. CASE SellNews
  <2>1. ASSUME NEW s \in Sells, sell[s].state = "none" PROVE sell'[s].state = sell[s].state
    <3>1. PICK u \in Sells : SyncSell(u) /\ (sell[u].state = "none" => Degrade)
      BY <1>5 DEF SellNews
    <3>2. sell[u].state # "none"
      BY <3>1 DEF Degrade
    <3> QED
      BY <1>4, <2>1, <3>1, <3>2
  <2> QED
    BY <1>3, <1>5, <2>1 DEF Hears
<1>6. CASE ExitResolvesSells
  <2>1. ASSUME NEW s \in Sells, sell[s].state = "none" PROVE sell'[s].state = sell[s].state
    <3> DEFINE u == Min(PendingSells)
    <3>1. UNCHANGED sell \/ (PendingSells # {} /\ SyncSell(u))
      BY <1>6 DEF ExitResolvesSells
    <3>2. PendingSells # {} => u \in PendingSells
      <4>1. PendingSells \in SUBSET Sells
        BY DEF PendingSells
      <4> QED
        BY <4>1, MinSell
    <3>3. \A t \in PendingSells : sell[t].state # "none"
      BY DEF PendingSells
    <3> HIDE DEF u
    <3> QED
      BY <1>4, <2>1, <3>1, <3>2, <3>3
  <2> QED
    BY <1>3, <1>6, <2>1 DEF Hears
<1>7. CASE ExitSettlesTrigger
  BY <1>7 DEF ExitSettlesTrigger, Degrade
<1>8. CASE Sends
  <2>1. EmergencySell => mode = "emergency" /\ (UNCHANGED mode \/ Degrade)
    BY DEF EmergencySell, At, RolesKept
  <2>2. ExitSell => Emergency
    BY DEF ExitSell
  <2> QED
    BY <1>8, <2>1, <2>2 DEF Sends, Emergency, Degrade
<1> QED
  BY <1>5, <1>6, <1>7, <1>8, SellRests DEF Hears

LEMMA ReadyRest ==
  ASSUME CoreInv, EndsSeen, RolesKept, ReadyFresh, Next, mode' = "ready", ~Recon
  PROVE  mode = "ready" /\ Fresh /\ ChildrenRest /\ \A s \in Sells \ PendingSells : sell'[s].state = sell[s].state
<1>1. ~RecEnd /\ ~RecOrders
  BY DEF RecEnd, RecOrders, At, Recon, Judging
<1>2. mode = "ready"
  BY <1>1, ModeMoves DEF Degrade, Emergency, Flatten
<1>3. Fresh
  BY <1>2 DEF ReadyFresh
<1>4. \A s \in Sells \ PendingSells : sell'[s].state = sell[s].state
  BY <1>1, ReadySells
<1>5. ASSUME NEW k \in Prots, algo[k].state = "triggered" PROVE algo[k].child \in Sells \ PendingSells
  <2>1. algo[k].child \in Sells
    BY <1>5 DEF CoreInv, RowsBooked
  <2>2. sell[algo[k].child].state \in {"none", "filled", "canceled"}
    BY <1>3, <1>5 DEF Fresh, ChildrenEnded
  <2> QED
    BY <2>1, <2>2 DEF PendingSells
<1> QED
  BY <1>2, <1>3, <1>4, <1>5 DEF ChildrenRest

\* What looked after the position goes on to.
LEMMA GuardStays ==
  ASSUME CoreInv, Next, UNCHANGED prot, ChildrenRest, Guarded
  PROVE  Guarded'
<1>1. PICK k \in Prots : \/ prot[k].state = "active"
                         \/ prot[k].state = "triggered" /\ sell[algo[k].child].state = "none"
                         \/ Jams(k)
  BY DEF Guarded
<1>2. CASE prot[k].state = "active"
  BY <1>2 DEF Guarded
<1>3. CASE prot[k].state = "triggered" /\ sell[algo[k].child].state = "none"
  <2>1. algo[k].state = "triggered" /\ (op.pc = "place" => algo[op.k].state = "none")
    BY <1>3 DEF CoreInv, RowsBooked
  <2>2. AlgoKeeps(k)
    BY <2>1, ExchangeMoves DEF AlgosMove, AlgoFires, AlgoLeaves, AlgoPlaced, LiveAlgos
  <2> QED
    BY <1>3, <2>1, <2>2 DEF ChildrenRest, AlgoKeeps, Guarded
<1>4. CASE Jams(k)
  <2>1. algo[k].state = "triggered" /\ (op.pc = "place" => algo[op.k].state = "none")
    BY <1>4 DEF Jams, CoreInv, RowsBooked
  <2>2. AlgoKeeps(k)
    BY <2>1, ExchangeMoves DEF AlgosMove, AlgoFires, AlgoLeaves, AlgoPlaced, LiveAlgos
  <2>3. Jams(k)'
    BY <1>4, <2>2 DEF AlgoKeeps, Jams
  <2> QED
    BY <2>3 DEF Guarded
<1> QED
  BY <1>1, <1>2, <1>3, <1>4

\* Where a step may leave the thread without anything to be said of a reconciliation.
Aloof == PC \ (Protecting \union Reading \union {"rend", "cancel", "canceled"})

Quietly ==
  \/ op'.pc \in Aloof
  \/ op'.pc = "ensure" /\ op'.ctx \in {"buy", "sell"} /\ op'.ret \in {"idle", "xopen", "xsells"}
  \/ /\ op'.pc \in {"cancel", "canceled"}
     /\ (position' = 0 /\ op'.ret \in {"idle", "xopen", "xreturn", "xt1", "xt2"}) \/ op'.ret = "xcanceled"

LEMMA QuietlyHolds ==
  ASSUME Quietly
  PROVE  RolesKept' /\ RecFresh' /\ RecQuiet'
<1>1. op'.pc \notin Reading /\ ~Judging'
  BY DEF Quietly, Aloof, Reading, Judging, Protecting
<1>2. Matching \subseteq Reading /\ {"rlocal", "rcanceled"} \subseteq Reading
  BY DEF Matching, Reading
<1>3. RolesKept'
  BY DEF Quietly, Aloof, RolesKept, Protecting, Reading
<1> QED
  BY <1>1, <1>2, <1>3 DEF RecFresh, RecQuiet

LEMMA CancelQuietly ==
  ASSUME CoreInv, RolesKept, CancelNext \/ CancelAnswered
  PROVE  /\ Quietly /\ op.pc \in {"cancel", "canceled"}
         /\ op'.pc \notin Resolving /\ (op'.pc \in {"idle", "xreturn"} => position' = 0)
<1>1. Sound(op) /\ op \in Threads /\ op.pc \in {"cancel", "canceled"} /\ UNCHANGED position
  BY DEF CoreInv, Sound, CancelNext, CancelAnswered, At, journal
<1>2. (position = 0 /\ op.ret \in {"idle", "xopen", "xreturn", "xt1", "xt2"}) \/ op.ret = "xcanceled"
  BY <1>1 DEF RolesKept
<1>3. {"idle", "xopen", "xreturn", "xt1", "xt2", "xcanceled"} \subseteq Aloof
      /\ Resolving \cap {"idle", "xopen", "xreturn", "xt1", "xt2", "xcanceled", "cancel", "canceled"} = {}
  BY DEF Aloof, PC, Protecting, Reading, Resolving
<1>4. CASE Return
  <2>1. op'.pc = op.ret
    BY <1>1, <1>4, ThreadReturns
  <2> QED
    BY <1>1, <1>2, <1>3, <2>1 DEF Quietly
<1>5. CASE op'.pc \in {"cancel", "canceled"} /\ op'.ret = op.ret
  BY <1>1, <1>2, <1>3, <1>5 DEF Quietly
<1>6. CASE CancelNext
  <2>1. Return \/ (\E k, a, d : AnswerFor(k, "canceled", a, d)) \/ \E l : op' = [op EXCEPT !.left = l, !.ok = FALSE]
    BY <1>6, Zenon DEF CancelNext, CancelAlgo
  <2>2. CASE \E k, a, d : AnswerFor(k, "canceled", a, d)
    BY <1>1, <1>5, <2>2 DEF AnswerFor, Threads
  <2>3. CASE \E l : op' = [op EXCEPT !.left = l, !.ok = FALSE]
    BY <1>1, <1>5, <2>3 DEF Threads
  <2> QED
    BY <1>4, <2>1, <2>2, <2>3
<1>7. CASE CancelAnswered
  <2>1. \E l, g : op' = [op EXCEPT !.pc = "cancel", !.left = l, !.ok = g]
    BY <1>7, Zenon DEF CancelAnswered
  <2> QED
    BY <1>1, <1>5, <2>1 DEF Threads
<1> QED
  BY <1>6, <1>7

LEMMA ExitQuietly ==
  ASSUME CoreInv, TrackInv, Exit
  PROVE  Quietly
<1>1. /\ Sound(op) /\ op \in Threads /\ op.todo \in SUBSET Prots /\ Idle.pc = "idle"
  BY IdleSound DEF CoreInv, Sound, Threads
<1>2. {"xopen", "xbuycancel", "xsells", "xbuyanswer", "xt1", "xt2", "xsell", "idle", "xreturn"} \subseteq Aloof
  BY DEF Aloof, PC, Protecting, Reading
<1>3. ASSUME NEW p \in Aloof, Go(p) PROVE Quietly
  BY <1>1, <1>3 DEF Go, Threads, Quietly
<1>4. ASSUME NEW r, Leave(r) PROVE Quietly
  BY <1>1, <1>2, <1>4 DEF Leave, Threads, Quietly
<1>5. CASE ExitResolvesBuy
  <2>1. \E p \in {"xopen", "xbuycancel", "xsells"} : Go(p)
    BY <1>5 DEF ExitResolvesBuy
  <2> QED
    BY <1>2, <1>3, <2>1
<1>6. CASE ExitCancelsBuy
  BY <1>1, <1>2, <1>6 DEF ExitCancelsBuy, Answer, AnswerFor, Threads, Quietly
<1>7. CASE ExitBuyAnswered
  <2>1. PICK next \in {"xopen", "xsells"} : Go(next) \/ op' = AfterBuy(op, position', next)
    BY <1>7 DEF ExitBuyAnswered
  <2>2. CASE op' = AfterBuy(op, position', next)
    BY <1>1, <2>2 DEF AfterBuy, Threads, Quietly
  <2> QED
    BY <1>2, <1>3, <2>1, <2>2
<1>8. CASE ExitResolvesSells
  <2>1. op' = Settle(op, "xt1") \/ Go("xopen") \/ Leave("filled") \/ (op.pc = "xsells" /\ UNCHANGED op)
    BY <1>8 DEF ExitResolvesSells, At
  <2>2. Settle(op, "xt1").pc = "xt1"
    BY <1>1 DEF Settle, Threads
  <2> QED
    BY <1>2, <1>3, <1>4, <2>1, <2>2 DEF Quietly
<1>9. CASE ExitSkipsRow
  BY <1>1, <1>2, <1>9 DEF ExitSkipsRow, Threads, Quietly
<1>10. CASE ExitSeesTrigger
  <2>1. Leave("raised") \/ (op.pc \in {"xt1", "xt2"} /\ UNCHANGED op)
    BY <1>10 DEF ExitSeesTrigger
  <2> QED
    BY <1>2, <1>4, <2>1 DEF Quietly
<1>11. CASE ExitSettlesTrigger
  <2> DEFINE k == Min(op.todo)
             s == algo[k].child
             r == IF xsell[s].state = "filled" THEN "filled" ELSE "none"
             on == [op EXCEPT !.todo = @ \ {k}, !.result = r]
             next == IF xsell[s].state = "live" THEN "xopen"
                     ELSE IF xsell[s].state = "filled" THEN "xreturn" ELSE op.pc
  <2>1. op.pc \in {"xt1", "xt2"} /\ k \in Prots /\ prot[k].state = "triggered"
    BY <1>1, <1>11, MinRow DEF ExitSettlesTrigger
  <2>2. on \in Threads /\ next \in {"xopen", "xreturn", "xt1", "xt2"}
    BY <1>1, <2>1 DEF Threads
  <2>3. Go("xopen") \/ op' = AfterSell(on, position', next) \/ op' = [on EXCEPT !.pc = next]
    BY <1>11 DEF ExitSettlesTrigger
  <2>4. Actives = {}
    BY <2>1, OneTrigger
  <2> HIDE DEF on, next, s
  <2>5. CASE op' = AfterSell(on, position', next)
    <3>1. \/ position' = 0 /\ op' = [on EXCEPT !.pc = "cancel", !.left = ActiveOnly, !.ok = TRUE, !.ret = next]
          \/ op' = BackTo(on, next)
      BY <2>4, <2>5 DEF AfterSell
    <3>2. CASE op' = BackTo(on, next)
      <4>1. op' = [on EXCEPT !.pc = next, !.k = 1, !.want = 0, !.ans = "ok"]
        BY <2>2, <3>2 DEF BackTo
      <4> QED
        BY <1>2, <2>2, <4>1 DEF Threads, Quietly
    <3>3. CASE position' = 0 /\ op' = [on EXCEPT !.pc = "cancel", !.left = ActiveOnly, !.ok = TRUE, !.ret = next]
      <4>1. op'.pc = "cancel" /\ op'.ret = next
        BY <2>2, <3>3 DEF Threads
      <4> QED
        BY <2>2, <3>3, <4>1 DEF Quietly
    <3> QED
      BY <3>1, <3>2, <3>3
  <2>6. CASE op' = [on EXCEPT !.pc = next]
    BY <1>2, <2>2, <2>6 DEF Threads, Quietly
  <2> QED
    BY <1>2, <1>3, <2>3, <2>5, <2>6
<1>12. CASE ExitCancelsAll
  BY <1>1, <1>12 DEF ExitCancelsAll, Threads, Quietly
<1>13. CASE ExitCanceled
  <2>1. op' = [[op EXCEPT !.pc = "xt2", !.todo = Rows] EXCEPT !.free = op.ok]
    BY <1>13 DEF ExitCanceled, Settle
  <2> QED
    BY <1>1, <1>2, <2>1 DEF Threads, Quietly
<1>14. CASE ExitCounts
  <2>1. (\E r : Leave(r)) \/ \E w : op' = [op EXCEPT !.pc = "xsell", !.want = w]
    BY <1>14, Zenon DEF ExitCounts
  <2> QED
    BY <1>1, <1>2, <1>4, <2>1 DEF Threads, Quietly
<1>15. CASE ExitSell
  <2>1. \E r : Leave(r)
    BY <1>15, Zenon DEF ExitSell
  <2> QED
    BY <1>4, <2>1
<1>16. CASE ExitReturn
  BY <1>1, <1>2, <1>16 DEF ExitReturn, Quietly
<1> QED
  BY <1>5, <1>6, <1>7, <1>8, <1>9, <1>10, <1>11, <1>12, <1>13, <1>14, <1>15, <1>16 DEF Exit

\* An OCO that has fired can be taken for triggered by the row that knows it, or
\* that row was given up.
LEMMA TriggerMoves ==
  ASSUME CoreInv, TrackInv, NEW k \in Prots, prot[k].id, algo[k].state = "triggered"
  PROVE  CanMove(prot[k].state, "triggered") \/ Jams(k)
<1>1. prot[k].state \in Unended \/ Jams(k)
  BY DEF TrackInv, GivenUp, Jams
<1>2. prot[k].state # "required"
  BY DEF CoreInv, RowsBooked
<1> QED
  BY <1>1, <1>2 DEF Unended, Outstanding, CanMove, AllowedProtectionTransitions

LEMMA ExitWatched ==
  ASSUME CoreInv, TrackInv, GuardInv, Next, Exit
  PROVE  ReadyWatched'
<1> SUFFICES ASSUME mode' = "ready"
             PROVE  /\ op'.pc \in {"idle", "xreturn"} => position' = 0 \/ Guarded'
                    /\ op'.pc \in Resolving => Guarded' \/ PendingSells' = {}
  BY DEF ReadyWatched
<1>1. /\ Sound(op) /\ op \in Threads /\ op.todo \in SUBSET Prots /\ Idle.pc = "idle"
  BY IdleSound DEF CoreInv, Sound, Threads
<1>2. ~Recon /\ op.pc \in PC
  BY DEF Exit, ExitResolvesBuy, ExitCancelsBuy, ExitBuyAnswered, ExitResolvesSells, ExitSkipsRow, ExitSeesTrigger,
     ExitSettlesTrigger, ExitCancelsAll, ExitCanceled, ExitCounts, ExitSell, ExitReturn, At, Recon, Judging, Reading,
     Protecting, PC
<1>3. mode = "ready" /\ ChildrenRest
  BY <1>2, ReadyRest DEF GuardInv
<1>4. op.pc \in {"idle", "xreturn"} => position = 0 \/ Guarded
  BY <1>3 DEF GuardInv, ReadyWatched
<1>5. op.pc \in Resolving => Guarded \/ PendingSells = {}
  BY <1>3 DEF GuardInv, ReadyWatched
<1>6. {"xopen", "xt1", "xt2", "xsell", "cancel", "ensure"} \cap (Resolving \union {"idle", "xreturn"}) = {}
      /\ Resolving \cap {"idle", "xreturn"} = {}
  BY DEF Resolving
<1>7. CASE ExitResolvesBuy \/ ExitCancelsBuy \/ ExitBuyAnswered
  <2>1. op.pc \in Resolving /\ UNCHANGED <<prot, sell>>
    BY <1>7 DEF ExitResolvesBuy, ExitCancelsBuy, ExitBuyAnswered, At, Resolving, journal
  <2>2. Guarded' \/ PendingSells' = {}
    BY <1>3, <1>5, <2>1, GuardStays DEF PendingSells
  <2>3. op'.pc \in Resolving \union {"xopen", "ensure"}
    <3>1. CASE ExitResolvesBuy
      <4>1. \E p \in {"xopen", "xbuycancel", "xsells"} : Go(p)
        BY <3>1 DEF ExitResolvesBuy
      <4> QED
        BY <1>1, <4>1 DEF Go, Threads, Resolving
    <3>2. CASE ExitCancelsBuy
      BY <1>1, <3>2 DEF ExitCancelsBuy, Answer, AnswerFor, Threads, Resolving
    <3>3. CASE ExitBuyAnswered
      <4>1. PICK next \in {"xopen", "xsells"} : Go(next) \/ op' = AfterBuy(op, position', next)
        BY <3>3 DEF ExitBuyAnswered
      <4> QED
        BY <1>1, <4>1 DEF Go, AfterBuy, Threads, Resolving
    <3> QED
      BY <1>7, <3>1, <3>2, <3>3
  <2> QED
    BY <1>6, <2>2, <2>3
<1>8. CASE ExitResolvesSells
  <2>1. \/ op' = Settle(op, "xt1") \/ Go("xopen")
        \/ PendingSells # {} /\ (Leave("filled") \/ UNCHANGED op)
    BY <1>8 DEF ExitResolvesSells
  <2>2. op.pc = "xsells" /\ UNCHANGED prot
    BY <1>8 DEF ExitResolvesSells, At
  <2>3. CASE PendingSells # {}
    <3>1. Guarded
      BY <1>5, <2>2, <2>3 DEF Resolving
    <3> QED
      BY <1>3, <2>2, <3>1, GuardStays
  <2>4. Settle(op, "xt1").pc = "xt1"
    BY <1>1 DEF Settle, Threads
  <2>5. Go("xopen") => op'.pc = "xopen"
    BY <1>1 DEF Go, Threads
  <2> QED
    BY <1>6, <2>1, <2>3, <2>4, <2>5
<1>9. CASE ExitSkipsRow
  <2>1. op'.pc = op.pc /\ op.pc \in {"xt1", "xt2"}
    BY <1>1, <1>9 DEF ExitSkipsRow, Threads
  <2> QED
    BY <1>6, <2>1
<1>10. CASE ExitSeesTrigger
  <2> DEFINE k == Min(op.todo)
  <2>1. k \in Prots
    BY <1>1, <1>10, MinRow DEF ExitSeesTrigger
  <2>2. /\ prot[k].id /\ algo[k].state = "triggered" /\ UNCHANGED algo
        /\ Degrade \/ (~CanMove(prot[k].state, "triggered") /\ UNCHANGED prot)
    BY <1>10 DEF ExitSeesTrigger, exchange
  <2> HIDE DEF k
  <2>3. CASE Degrade
    BY <2>3 DEF Degrade
  <2>4. CASE ~CanMove(prot[k].state, "triggered") /\ UNCHANGED prot
    <3>1. PICK j \in Prots : Jams(j)
      BY <2>1, <2>2, <2>4, TriggerMoves
    <3>2. Jams(j)'
      BY <2>2, <2>4, <3>1 DEF Jams
    <3> QED
      BY <3>2 DEF Guarded
  <2> QED
    BY <2>2, <2>3, <2>4
<1>11. CASE ExitSettlesTrigger
  <2>1. Go("xopen")
    BY <1>11 DEF ExitSettlesTrigger, Degrade
  <2>2. op'.pc = "xopen"
    BY <1>1, <2>1 DEF Go, Threads
  <2> QED
    BY <1>6, <2>2
<1>12. CASE ExitCancelsAll
  <2>1. op'.pc = "cancel"
    BY <1>1, <1>12 DEF ExitCancelsAll, Threads
  <2> QED
    BY <1>6, <2>1
<1>13. CASE ExitCanceled
  <2>1. op' = [[op EXCEPT !.pc = "xt2", !.todo = Rows] EXCEPT !.free = op.ok]
    BY <1>13 DEF ExitCanceled, Settle
  <2>2. op'.pc = "xt2"
    BY <1>1, <2>1 DEF Threads
  <2> QED
    BY <1>6, <2>2
<1>14. CASE ExitCounts
  <2>1. (position = 0 /\ Leave("other")) \/ \E w : op' = [op EXCEPT !.pc = "xsell", !.want = w]
    BY <1>14 DEF ExitCounts, Degrade
  <2>2. UNCHANGED position
    BY <1>14 DEF ExitCounts
  <2>3. CASE position = 0 /\ Leave("other")
    <3>1. op'.pc = "xreturn"
      BY <1>1, <2>3 DEF Leave, Threads
    <3> QED
      BY <1>6, <2>2, <2>3, <3>1
  <2>4. CASE \E w : op' = [op EXCEPT !.pc = "xsell", !.want = w]
    <3>1. op'.pc = "xsell"
      BY <1>1, <2>4 DEF Threads
    <3> QED
      BY <1>6, <3>1
  <2> QED
    BY <2>1, <2>3, <2>4
<1>15. CASE ExitSell
  BY <1>15 DEF ExitSell, Emergency
<1>16. CASE ExitReturn
  <2>1. op.pc = "xreturn" /\ op'.pc = "idle" /\ UNCHANGED <<position, prot>>
    BY <1>1, <1>16 DEF ExitReturn, At, Degrade
  <2> QED
    BY <1>3, <1>4, <1>6, <2>1, GuardStays
<1> QED
  BY <1>7, <1>8, <1>9, <1>10, <1>11, <1>12, <1>13, <1>14, <1>15, <1>16 DEF Exit

LEMMA NewsQuietly ==
  ASSUME CoreInv, Next, ~Protect, ~Exit, ~Reconcile, ~Aside
  PROVE  Quietly /\ op'.pc \in {"idle", "restarted", "xbuys", "rorders", "ensure", "cancel"}
<1>1. /\ Sound(op) /\ op \in Threads /\ Idle \in Threads /\ Idle.pc = "idle"
  BY IdleSound DEF CoreInv, Sound
<1>2. {"idle", "restarted", "xbuys", "rorders"} \subseteq Aloof
  BY DEF Aloof, PC, Protecting, Reading
<1>3. CASE AlgoNews \/ NewBuy \/ Flatten
  BY <1>2, <1>3 DEF AlgoNews, NewBuy, Flatten, At, Quietly
<1>4. CASE ExitBegin
  <2>1. \/ op.pc = "idle" /\ UNCHANGED op
        \/ op' = [Idle EXCEPT !.pc = "xbuys"] \/ op' = [Idle EXCEPT !.pc = "xbuys", !.by = "task"]
    BY <1>4 DEF ExitBegin, At
  <2> QED
    BY <1>1, <1>2, <2>1 DEF Threads, Quietly
<1>5. CASE RecBegin
  <2>1. op' = [Idle EXCEPT !.pc = "rorders", !.ctx = "rec", !.want = base]
    BY <1>5 DEF RecBegin
  <2> QED
    BY <1>1, <1>2, <2>1 DEF Threads, Quietly
<1>6. CASE Crash
  BY <1>1, <1>2, <1>6 DEF Crash, Threads, Quietly
<1>7. CASE BuyNews
  <2>1. (op.pc = "idle" /\ UNCHANGED op) \/ op' = AfterBuy(Idle, position', "idle")
    BY <1>7 DEF BuyNews, At
  <2> QED
    BY <1>1, <1>2, <2>1 DEF AfterBuy, Threads, Quietly
<1>8. CASE SellNews
  <2>1. (op.pc = "idle" /\ UNCHANGED op) \/ op' = AfterSell(Idle, position', "idle")
    BY <1>8 DEF SellNews, At
  <2>2. CASE op' = AfterSell(Idle, position', "idle")
    <3>1. \/ position' = 0 /\ op' = [Idle EXCEPT !.pc = "cancel", !.left = ActiveOnly, !.ok = TRUE, !.ret = "idle"]
          \/ op' = [Idle EXCEPT !.pc = "ensure", !.ctx = "sell", !.want = position', !.ret = "idle"]
          \/ op' = Idle
      BY <2>2 DEF AfterSell, BackTo
    <3> QED
      BY <1>1, <1>2, <3>1 DEF Threads, Quietly
  <2> QED
    BY <1>2, <2>1, <2>2 DEF Quietly
<1> QED
  BY <1>3, <1>4, <1>5, <1>6, <1>7, <1>8 DEF Next, Aside

\* A message about an OCO takes no guard from a position without stopping the system.
LEMMA AlgoNewsGuards ==
  ASSUME CoreInv, TrackInv, Fresh, AlgoNews, mode' = "ready", Guarded
  PROVE  position = 0 \/ Guarded'
<1>0. PICK k \in Prots :
        \E n \in ({"active"} \X algo[k].past) \union ({AlgoView(k), "unknown"} \X {algo[k].qty}) :
          /\ AlgoView(k) # "none"
          /\ LET was == prot[k].state
                 lost == was = "active" /\ n[1] \in {"canceled", "failed", "unknown"}
             IN IF CanMove(was, n[1]) \/ lost
                THEN /\ prot' = [prot EXCEPT ![k] = [state |-> n[1], qty |-> n[2], id |-> TRUE]]
                     /\ IF lost /\ position > 0
                        THEN Emergency /\ watch' = [watch EXCEPT !.since = TRUE]
                        ELSE UNCHANGED <<mode, watch>>
                ELSE Degrade /\ UNCHANGED <<prot, watch>>
  BY DEF AlgoNews
<1>1. PICK n \in ({"active"} \X algo[k].past) \union ({AlgoView(k), "unknown"} \X {algo[k].qty}) :
        /\ AlgoView(k) # "none"
        /\ LET was == prot[k].state
               lost == was = "active" /\ n[1] \in {"canceled", "failed", "unknown"}
           IN IF CanMove(was, n[1]) \/ lost
              THEN /\ prot' = [prot EXCEPT ![k] = [state |-> n[1], qty |-> n[2], id |-> TRUE]]
                   /\ IF lost /\ position > 0
                      THEN Emergency /\ watch' = [watch EXCEPT !.since = TRUE]
                      ELSE UNCHANGED <<mode, watch>>
              ELSE Degrade /\ UNCHANGED <<prot, watch>>
  BY <1>0
<1> DEFINE lost == prot[k].state = "active" /\ n[1] \in {"canceled", "failed", "unknown"}
           r == [state |-> n[1], qty |-> n[2], id |-> TRUE]
<1>2. UNCHANGED <<algo, sell, position>> /\ position \in Nat /\ prot \in [Prots -> RowTypes]
  BY DEF AlgoNews, exchange, CoreInv, JournalTypes, RowTypes
<1>3. CanMove(prot[k].state, n[1]) \/ lost
  BY <1>1 DEF Degrade
<1>4. prot' = [prot EXCEPT ![k] = r] /\ (lost => position = 0)
  BY <1>1, <1>2, <1>3 DEF Emergency
<1>5. n[1] \in {"active", "unknown", AlgoView(k)}
  BY <1>1
<1>6. AlgoView(k) \in AlgoFact
  BY <1>1, RowTyped
<1>7. ASSUME ~lost, prot[k].state = "active" \/ (prot[k].state = "triggered" /\ sell[algo[k].child].state = "none")
      PROVE  Guarded'
  <2>1. n[1] \in {"active", "triggered"}
    <3>1. n[1] \in AlgoFact \union {"unknown"}
      BY <1>5, <1>6 DEF AlgoFact
    <3>2. prot[k].state = "triggered" => n[1] = "triggered"
      BY <1>3, <1>7 DEF CanMove, AllowedProtectionTransitions
    <3> QED
      BY <1>7, <3>1, <3>2 DEF AlgoFact
  <2>2. n[1] = "triggered" => sell[algo[k].child].state = "none"
    <3>1. CASE prot[k].state = "triggered"
      BY <1>7, <3>1
    <3>2. CASE prot[k].state = "active"
      <4>1. n[1] = "triggered" => algo[k].state = "triggered"
        BY <1>5 DEF AlgoView
      <4> QED
        BY <3>2, <4>1 DEF Fresh, Stale, Outstanding
    <3> QED
      BY <1>7, <3>1, <3>2
  <2>3. r.state = n[1]
    OBVIOUS
  <2> QED
    BY <1>2, <1>4, <2>1, <2>2, <2>3, RowGuards
<1>8. PICK j \in Prots : \/ prot[j].state = "active"
                         \/ prot[j].state = "triggered" /\ sell[algo[j].child].state = "none"
                         \/ Jams(j)
  BY DEF Guarded
<1>9. CASE j # k
  <2>1. prot'[j] = prot[j]
    BY <1>2, <1>4, <1>9
  <2> QED
    BY <1>2, <1>8, <2>1 DEF Guarded, Jams
<1>10. ~Jams(k)
  <2>1. n[1] # "emergency_exit" /\ (lost => prot[k].state # "emergency_exit")
    BY <1>5, <1>6 DEF AlgoFact
  <2> QED
    BY <1>3, <2>1, GivenUpStays DEF Jams
<1> QED
  BY <1>4, <1>7, <1>8, <1>9, <1>10

LEMMA NewsWatched ==
  ASSUME CoreInv, TrackInv, GuardInv, Next, ~Protect, ~Exit, ~Reconcile, ~Aside
  PROVE  ReadyWatched'
<1> SUFFICES ASSUME mode' = "ready"
             PROVE  /\ op'.pc \in {"idle", "xreturn"} => position' = 0 \/ Guarded'
                    /\ op'.pc \in Resolving => Guarded' \/ PendingSells' = {}
  BY DEF ReadyWatched
<1>1. {"idle", "restarted", "rorders", "ensure", "cancel"} \cap Resolving = {} /\ "xbuys" \notin {"idle", "xreturn"}
      /\ {"restarted", "xbuys", "rorders", "ensure", "cancel"} \cap {"idle", "xreturn"} = {}
  BY DEF Resolving
<1>2. op'.pc \in {"idle", "restarted", "xbuys", "rorders", "ensure", "cancel"}
  BY NewsQuietly
<1>3. CASE RecBegin
  <2>1. op'.pc = "rorders"
    BY <1>3, IdleSound DEF RecBegin, Sound, Threads
  <2> QED
    BY <1>1, <2>1
<1>4. CASE Crash \/ Flatten
  BY <1>4 DEF Crash, Flatten, Degrade
<1>5. ASSUME op.pc = "idle"
      PROVE  mode = "ready" /\ Fresh /\ ChildrenRest /\ (position = 0 \/ Guarded)
             /\ (watch.task => PendingSells = {}) /\ position \in Nat
  <2>1. ~Recon
    BY <1>5 DEF Recon, Judging, Reading, Protecting
  <2> QED
    BY <1>5, <2>1, ReadyRest DEF GuardInv, ReadyWatched, ReadyQuiet, CoreInv, JournalTypes
<1>6. CASE ExitBegin
  <2>1. op.pc = "idle" /\ UNCHANGED <<prot, sell, position>> /\ (UNCHANGED op \/ position > 0 \/ watch.task)
    BY <1>6 DEF ExitBegin, At
  <2>2. Guarded => Guarded'
    BY <1>5, <2>1, GuardStays
  <2>3. UNCHANGED op \/ Guarded' \/ PendingSells' = {}
    BY <1>5, <2>1, <2>2 DEF PendingSells
  <2> QED
    BY <1>1, <1>2, <1>5, <2>1, <2>2, <2>3
<1>7. CASE BuyNews
  <2>1. op.pc = "idle" /\ UNCHANGED prot
    BY <1>7 DEF BuyNews, At
  <2>2. PICK a \in buy.acc..xbuy.acc : /\ position' = position + (a - buy.acc)
                                       /\ op' = IF a > buy.acc THEN AfterBuy(Idle, position', "idle") ELSE op
    BY <1>7 DEF BuyNews
  <2>3. CASE a > buy.acc
    <3>1. op'.pc = "ensure"
      BY <2>2, <2>3, IdleSound DEF AfterBuy, Sound, Threads
    <3> QED
      BY <1>1, <3>1
  <2>4. CASE ~(a > buy.acc)
    <3>1. buy.acc \in Nat /\ xbuy.acc \in Nat
      BY DEF CoreInv, JournalTypes, ExchangeTypes
    <3>2. position' = position
      BY <1>5, <2>1, <2>2, <2>4, <3>1
    <3> QED
      BY <1>1, <1>5, <2>1, <2>2, <2>4, <3>2, GuardStays
  <2> QED
    BY <2>3, <2>4
<1>8. CASE SellNews
  <2>1. op.pc = "idle" /\ UNCHANGED prot
    BY <1>8 DEF SellNews, At
  <2>2. position = 0 => position' = 0
    <3>1. PICK s \in Sells : SyncSell(s)
      BY <1>8 DEF SellNews
    <3>2. sell[s].acc \in Nat /\ xsell[s].acc \in Nat /\ sell[s].acc <= xsell[s].acc
      BY DEF CoreInv, JournalTypes, ExchangeTypes, GuardInv, SoldSeen
    <3>3. xsell[s].acc - sell[s].acc \in Nat
      BY <3>2
    <3> QED
      BY <3>1, <3>3 DEF SyncSell
  <2>3. op'.pc \in {"idle", "ensure", "cancel"}
    <3>1. UNCHANGED op \/ op' = AfterSell(Idle, position', "idle")
      BY <1>8 DEF SellNews
    <3>2. CASE op' = AfterSell(Idle, position', "idle")
      <4>1. \/ op' = [Idle EXCEPT !.pc = "cancel", !.left = ActiveOnly, !.ok = TRUE, !.ret = "idle"]
            \/ op' = [Idle EXCEPT !.pc = "ensure", !.ctx = "sell", !.want = position', !.ret = "idle"]
            \/ op' = Idle
        BY <3>2 DEF AfterSell, BackTo
      <4> QED
        BY <4>1, IdleSound DEF Sound, Threads
    <3> QED
      BY <2>1, <3>1, <3>2
  <2> QED
    BY <1>1, <1>5, <2>1, <2>2, <2>3, GuardStays
<1>9. CASE AlgoNews
  <2>1. op.pc = "idle" /\ UNCHANGED <<op, position>>
    BY <1>9 DEF AlgoNews, At
  <2> QED
    BY <1>1, <1>5, <1>9, <2>1, AlgoNewsGuards
<1>10. CASE NewBuy
  <2>1. op.pc = "idle" /\ UNCHANGED <<op, position, prot>>
    BY <1>10 DEF NewBuy, At
  <2> QED
    BY <1>1, <1>5, <2>1, GuardStays
<1> QED
  BY <1>3, <1>4, <1>6, <1>7, <1>8, <1>9, <1>10 DEF Next, Aside

\* What goes on beside the thread.
LEMMA AsideGuards ==
  ASSUME CoreInv, TrackInv, GuardInv, Next, Aside
  PROVE  RolesKept' /\ RecFresh' /\ RecQuiet' /\ ReadyWatched'
<1>1. UNCHANGED <<op, prot, sell, position>>
  BY DEF Aside, Exchange, XBuyFill, XBuyEnds, XTrigger, XAlgoEnds, XSellFill, XSellEnds, Watchdog, WatchDetects,
     WatchDeadline, WatchClears, LeaseExpires, ExitDeadline, journal, exchange
<1>2. UNCHANGED mode \/ Degrade \/ Emergency
  BY DEF Aside, Exchange, XBuyFill, XBuyEnds, XTrigger, XAlgoEnds, XSellFill, XSellEnds, Watchdog, WatchDetects,
     WatchDeadline, WatchClears, LeaseExpires, ExitDeadline, journal, exchange
<1>3. /\ mode' = "ready" => mode = "ready"
      /\ mode' # "emergency" => mode # "emergency"
      /\ mode' # "emergency" /\ watch'.task => watch.task
  BY <1>2, EmergencyStays DEF Degrade, Emergency
<1>4. ChildrenRest
  BY <1>1 DEF ChildrenRest
<1>5. (\A k \in Prots : Stale(k)' => Stale(k)) /\ (ChildrenEnded => ChildrenEnded')
  BY <1>4, StaleStep
<1>6. Fresh => Fresh'
  BY <1>5 DEF Fresh
<1>7. op.k \in Prots /\ op.todo \in SUBSET Prots /\ Judging' = Judging /\ PendingSells' = PendingSells
  BY <1>1 DEF CoreInv, Sound, Threads, Judging, PendingSells
<1>8. RolesKept'
  BY <1>1, <1>3 DEF GuardInv, RolesKept
<1>9. RecFresh'
  <2>1. RecFresh
    BY DEF GuardInv
  <2>2. (op.safe /\ op.pc \in Reading => ChildrenEnded')
    BY <1>5, <2>1 DEF RecFresh
  <2>3. (op.safe /\ Judging => Fresh')
    BY <1>6, <2>1 DEF RecFresh
  <2>4. op.pc \in Matching => \A k \in op.todo : ~Stale(k)'
    BY <1>5, <1>7, <2>1 DEF RecFresh
  <2>5. op.safe /\ (op.pc = "rlocal" \/ (op.pc = "rcanceled" /\ op.ret = "rlocal")) =>
          \A k \in Prots : Stale(k)' => k \in op.left
    BY <1>5, <2>1 DEF RecFresh
  <2>6. \A k \in Prots : k = op.k /\ op.pc = "rcanceled" /\ op.ans = "ok" => ~Stale(k)'
    BY <1>5, <2>1 DEF RecFresh
  <2>7. (op.pc = "rcanceled" /\ op.ans = "ok" => ~Stale(op.k))'
    BY <1>1, <1>7, <2>6 DEF Stale
  <2> QED
    BY <1>1, <1>7, <2>2, <2>3, <2>4, <2>5, <2>7 DEF RecFresh
<1>10. RecQuiet'
  BY <1>1, <1>3, <1>7 DEF GuardInv, RecQuiet
<1>11. ReadyWatched'
  BY <1>1, <1>3, <1>4, <1>7, GuardStays DEF GuardInv, ReadyWatched
<1> QED
  BY <1>8, <1>9, <1>10, <1>11

-----------------------------------------------------------------------------
(* A reconciliation, from the orders it has seen to its verdict.           *)

\* What one of its steps leaves alone, and where it leaves the thread.
LEMMA RecMoves ==
  ASSUME CoreInv, ExitInv, Reconcile, ~RecOrders, ~RecEnd
  PROVE  /\ UNCHANGED <<mode, watch, sell, position>> /\ op.pc \in Reading /\ (op'.safe => op.safe)
         /\ \/ op'.pc \in {"rremote", "rlocal", "rcanceled", "rend"}
            \/ op'.pc = "ensure" /\ op'.ret = "rend"
         /\ op'.pc \in {"rremote", "rlocal"} => op'.ret = op'.pc \/ (op'.pc = op.pc /\ op'.ret = op.ret)
<1>1. op \in Threads
  BY DEF CoreInv, Sound
<1>2. UNCHANGED <<mode, watch, sell, position>> /\ op.pc \in Reading
  BY DEF Reconcile, RecAlgos, RecRemote, RecCanceled, RecRemoteDone, RecLocal, RecLocalDone, journal, At, Reading
<1>3. CASE RecAlgos
  <2>1. \E l, g : op' = [op EXCEPT !.pc = "rremote", !.ret = "rremote", !.left = l, !.todo = l, !.safe = @ /\ g]
    BY <1>3, Zenon DEF RecAlgos
  <2> QED
    BY <1>1, <1>2, <2>1 DEF Threads
<1>4. CASE RecRemoteDone
  <2>1. \E l, g : op' = [op EXCEPT !.pc = "rlocal", !.ret = "rlocal", !.left = l, !.safe = @ /\ g]
    BY <1>4, Zenon DEF RecRemoteDone
  <2> QED
    BY <1>1, <1>2, <2>1 DEF Threads
<1>5. CASE RecRemote \/ RecLocal
  <2>1. op.pc \in {"rremote", "rlocal"} /\ ((\E k, a, d : AnswerFor(k, "rcanceled", a, d)) \/ \E g : Looked(g))
    <3>1. CASE RecRemote
      BY <3>1, Zenon DEF RecRemote, CancelAlgo, At
    <3>2. CASE RecLocal
      BY <3>2, Zenon DEF RecLocal, CancelAlgo, At
    <3> QED
      BY <1>5, <3>1, <3>2
  <2>2. CASE \E k, a, d : AnswerFor(k, "rcanceled", a, d)
    BY <1>1, <1>2, <2>2 DEF AnswerFor, Threads
  <2>3. CASE \E g : Looked(g)
    <3>1. op'.pc = op.pc /\ op'.ret = op.ret /\ (op'.safe => op.safe)
      BY <1>1, <2>3 DEF Looked, Threads
    <3> QED
      BY <1>2, <2>1, <3>1
  <2> QED
    BY <2>1, <2>2, <2>3
<1>6. CASE RecCanceled
  <2>1. \E g, l : op' = [op EXCEPT !.pc = op.ret, !.left = l, !.safe = @ /\ g]
    BY <1>6, Zenon DEF RecCanceled
  <2>2. op.ret \in {"rremote", "rlocal"}
    BY <1>6 DEF RecCanceled, At, ExitInv, Matching
  <2>3. op'.pc = op.ret /\ op'.ret = op.ret /\ (op'.safe => op.safe)
    BY <1>1, <2>1 DEF Threads
  <2> QED
    BY <1>2, <2>2, <2>3
<1>7. CASE RecLocalDone
  <2>1. op' = [op EXCEPT !.pc = "ensure", !.want = position, !.ret = "rend"] \/ op' = [op EXCEPT !.pc = "rend"]
    BY <1>7 DEF RecLocalDone
  <2> QED
    BY <1>1, <1>2, <2>1 DEF Threads
<1> QED
  BY <1>3, <1>4, <1>5, <1>6, <1>7 DEF Reconcile

\* The orders it has seen: safe with an open SELL only if that is no trigger's.
LEMMA RecOrdersGuard ==
  ASSUME CoreInv, GuardInv, RecOrders
  PROVE  RolesKept' /\ RecFresh' /\ RecQuiet' /\ ReadyWatched'
<1>1. PICK M \in SUBSET {s \in Visible : xsell[s].state # "live"}, seen \in {TRUE, xbuy.live} :
        /\ sell' = [s \in Sells |-> IF s \in Visible \ M
                      THEN [state |-> xsell[s].state, acc |-> xsell[s].acc] ELSE sell[s]]
        /\ op' = [op EXCEPT !.pc = "ralgos", !.want = 0, !.safe =
             /\ M = {} /\ seen
             /\ PendingSells \subseteq Visible
             /\ \A s \in Children \intersect Visible :
                  sell[s].state # "none" /\ xsell[s].state # "live"]
  BY DEF RecOrders
<1>2. op \in Threads /\ sell \in [Sells -> SellRows] /\ xsell \in [Sells -> SellTypes]
  BY DEF CoreInv, Sound, JournalTypes, SellRows, ExchangeTypes, SellTypes
<1>3. op'.pc = "ralgos"
  BY <1>1, <1>2 DEF Threads
<1>4. UNCHANGED <<mode, algo, watch>>
  BY DEF RecOrders, exchange
<1>5. RolesKept' /\ ReadyWatched'
  BY <1>3 DEF RolesKept, Protecting, ReadyWatched, Resolving
<1>6. ~Judging' /\ op'.pc \notin Matching /\ op'.pc \notin {"rlocal", "rcanceled"} /\ op'.pc \in Reading
  BY <1>3 DEF Judging, Protecting, Matching, Reading
<1>7. ASSUME op'.safe PROVE ChildrenEnded' /\ (mode # "emergency" /\ watch.task => PendingSells' = {})
  <2>1. /\ M = {} /\ PendingSells \subseteq Visible
        /\ \A s \in Children \intersect Visible : xsell[s].state # "live"
    BY <1>1, <1>2, <1>7 DEF Threads
  <2>2. \A s \in Sells : sell'[s].state = IF s \in Visible THEN xsell[s].state ELSE sell[s].state
    BY <1>1, <2>1
  <2>3. \A s \in Sells \ Visible : sell[s].state = "none" \/ xsell[s].state = "none"
    BY DEF Visible
  <2>4. ASSUME NEW k \in Prots, algo[k].state = "triggered"
        PROVE  /\ algo[k].child \in Sells /\ xsell[algo[k].child].state # "none" /\ algo[k].child \in Children
    <3>1. algo[k].child \in Sells /\ xsell[algo[k].child].state # "none"
      BY <2>4 DEF CoreInv, RowsBooked
    <3>2. algo[k].child # 0
      BY <3>1, ExitConstants DEF Sells
    <3> QED
      BY <3>1, <3>2 DEF Children
  <2>5. ChildrenEnded'
    <3>1. SUFFICES ASSUME NEW k \in Prots, algo'[k].state = "triggered"
                   PROVE  sell'[algo'[k].child].state \in {"none", "filled", "canceled"}
      BY DEF ChildrenEnded
    <3> DEFINE c == algo[k].child
    <3>2. algo[k].state = "triggered" /\ algo'[k].child = c
      BY <1>4, <3>1
    <3>3. c \in Sells /\ xsell[c].state # "none" /\ c \in Children
      BY <2>4, <3>2
    <3> HIDE DEF c
    <3>4. CASE c \in Visible
      <4>1. xsell[c].state \in {"filled", "canceled"}
        BY <1>2, <2>1, <3>3, <3>4 DEF SellTypes
      <4> QED
        BY <2>2, <3>2, <3>3, <3>4, <4>1
    <3>5. CASE c \notin Visible
      BY <2>2, <2>3, <3>2, <3>3, <3>5
    <3> QED
      BY <3>4, <3>5
  <2>6. ASSUME mode # "emergency", watch.task PROVE PendingSells' = {}
    <3>1. SUFFICES ASSUME NEW s \in Sells, sell'[s].state \in {"submitting", "unknown", "live"}
                   PROVE  FALSE
      BY DEF PendingSells
    <3>2. s \in Visible /\ xsell[s].state = "live"
      <4>1. CASE s \in Visible
        BY <1>2, <2>2, <3>1, <4>1 DEF SellTypes
      <4>2. CASE s \notin Visible
        BY <2>1, <2>2, <3>1, <4>2 DEF PendingSells
      <4> QED
        BY <4>1, <4>2
    <3>3. PICK k \in Prots : algo[k].state = "triggered" /\ algo[k].child = s
      BY <2>6, <3>2 DEF GuardInv, TaskSells, LiveSells
    <3> QED
      BY <2>1, <2>4, <3>2, <3>3
  <2> QED
    BY <2>5, <2>6
<1>8. RecFresh'
  BY <1>6, <1>7 DEF RecFresh
<1>9. RecQuiet'
  BY <1>4, <1>6, <1>7 DEF RecQuiet
<1> QED
  BY <1>5, <1>8, <1>9

\* An OCO that is being canceled on request has not fired.
LEMMA CancelFresh ==
  ASSUME CoreInv, NEW k \in Prots, NEW p, CancelAlgo(k, p)
  PROVE  /\ op'.pc = p /\ op'.k = k /\ op'.ret = op.ret /\ op'.left = op.left /\ op'.todo = op.todo /\ op'.safe = op.safe
         /\ op'.ans = "ok" => algo'[k].state = "canceling"
<1>1. op \in Threads /\ algo \in [Prots -> AlgoTypes]
  BY DEF CoreInv, Sound, ExchangeTypes, AlgoTypes
<1>2. \/ algo' = [algo EXCEPT ![k].state = "canceling"] /\ \E a, d : AnswerFor(k, p, a, d)
      \/ \E a \in {"lost", "no"}, d \in {"ok", "no"} : AnswerFor(k, p, a, d)
  BY DEF CancelAlgo, Unanswered
<1>3. ASSUME NEW a, NEW d, AnswerFor(k, p, a, d)
      PROVE  /\ op'.pc = p /\ op'.k = k /\ op'.ret = op.ret /\ op'.left = op.left /\ op'.todo = op.todo
             /\ op'.safe = op.safe /\ op'.ans = a
  BY <1>1, <1>3 DEF AnswerFor, Threads
<1>4. algo' = [algo EXCEPT ![k].state = "canceling"] => algo'[k].state = "canceling"
  BY <1>1 DEF AlgoTypes
<1> QED
  BY <1>2, <1>3, <1>4

LEMMA RecFreshStep ==
  ASSUME CoreInv, TrackInv, ExitInv, GuardInv, Next, Reconcile, ~RecOrders, ~RecEnd
  PROVE  RecFresh'
<1>1. /\ op \in Threads /\ op.k \in Prots /\ op.todo \in SUBSET Prots /\ op.left \in SUBSET Prots /\ RecFresh
  BY DEF CoreInv, Sound, Threads, GuardInv
<1>2. op.pc \in Reading /\ (op'.safe => op.safe) /\ (op'.pc \in {"rremote", "rlocal", "rcanceled", "rend"} \/ op'.pc = "ensure")
  BY RecMoves
<1>3. (\A k \in Prots : Stale(k)' => Stale(k)) /\ (ChildrenEnded => ChildrenEnded')
  <2>1. ~Hears
    BY <1>2 DEF Hears, SellNews, ExitResolvesSells, ExitSettlesTrigger, At, Reading
  <2> QED
    BY <2>1, ChildrenLeft, StaleStep
<1>4. op'.safe => ChildrenEnded'
  BY <1>1, <1>2, <1>3 DEF RecFresh
<1>5. op.pc \in Matching /\ op'.todo = op.todo => \A k \in op'.todo : ~Stale(k)'
  BY <1>1, <1>3 DEF RecFresh
<1>6. {"rremote", "rcanceled", "rlocal"} = Matching /\ "rremote" \notin Protecting /\ "rlocal" \notin Protecting
      /\ "rcanceled" \notin Protecting /\ "ensure" \notin Reading /\ "rend" \notin Reading
  BY DEF Matching, Protecting, Reading
<1>7. CASE RecAlgos
  <2>1. \E g : op' = [op EXCEPT !.pc = "rremote", !.ret = "rremote", !.left = LiveAlgos, !.todo = LiveAlgos, !.safe = g]
    BY <1>7 DEF RecAlgos
  <2>2. op'.pc = "rremote" /\ op'.todo = LiveAlgos
    BY <1>1, <2>1 DEF Threads
  <2>3. \A k \in LiveAlgos : k \in Prots /\ ~Stale(k)
    BY DEF LiveAlgos, Stale
  <2>4. \A k \in op'.todo : ~Stale(k)'
    BY <1>3, <2>2, <2>3
  <2> QED
    BY <1>4, <1>6, <2>2, <2>4 DEF RecFresh, Judging
<1>8. CASE RecRemoteDone
  <2>1. \E g : op' = [op EXCEPT !.pc = "rlocal", !.ret = "rlocal", !.left = Rows, !.safe = g]
    BY <1>8 DEF RecRemoteDone
  <2>2. op.pc = "rremote" /\ op'.pc = "rlocal" /\ op'.todo = op.todo /\ op'.left = Rows
    BY <1>1, <1>8, <2>1 DEF RecRemoteDone, At, Threads
  <2>3. \A k \in Prots : Stale(k) => k \in Rows
    BY DEF Stale, Rows, Outstanding
  <2>4. \A k \in Prots : Stale(k)' => k \in op'.left
    BY <1>3, <2>2, <2>3
  <2>5. \A k \in op'.todo : ~Stale(k)'
    BY <1>5, <1>6, <2>2
  <2> QED
    BY <1>4, <1>6, <2>2, <2>4, <2>5 DEF RecFresh, Judging
<1>9. CASE RecLocalDone
  <2>1. op' = [op EXCEPT !.pc = "ensure", !.want = position, !.ret = "rend"] \/ op' = [op EXCEPT !.pc = "rend"]
    BY <1>9 DEF RecLocalDone
  <2>2. op'.pc \in {"ensure", "rend"} /\ op.pc = "rlocal" /\ op.left = {}
    BY <1>1, <1>9, <2>1 DEF RecLocalDone, At, Threads
  <2>3. op.safe => \A k \in Prots : ~Stale(k)
    BY <1>1, <2>2 DEF RecFresh
  <2>4. op'.safe => Fresh'
    BY <1>2, <1>3, <1>4, <2>3 DEF Fresh
  <2> QED
    BY <1>6, <2>2, <2>4 DEF RecFresh
<1>10. ASSUME NEW k \in Prots, op.pc \in {"rremote", "rlocal"}, CancelAlgo(k, "rcanceled") PROVE RecFresh'
  <2>1. /\ op'.pc = "rcanceled" /\ op'.k = k /\ op'.ret = op.ret /\ op'.left = op.left /\ op'.todo = op.todo
        /\ op'.ans = "ok" => algo'[k].state = "canceling"
    BY <1>10, CancelFresh
  <2>2. op.ret = op.pc
    BY <1>10 DEF GuardInv, RolesKept
  <2>3. op.pc = "rlocal" /\ op.safe => \A j \in Prots : Stale(j) => j \in op.left
    BY <1>1 DEF RecFresh
  <2>4. op'.safe /\ op'.ret = "rlocal" => \A j \in Prots : Stale(j)' => j \in op'.left
    BY <1>2, <1>3, <2>1, <2>2, <2>3
  <2>5. \A j \in op'.todo : ~Stale(j)'
    BY <1>5, <1>6, <1>10, <2>1
  <2>6. (op.ans = "ok" => ~Stale(op.k))'
    BY <2>1 DEF Stale
  <2> QED
    BY <1>4, <1>6, <2>1, <2>4, <2>5, <2>6 DEF RecFresh, Judging
<1>11. CASE RecRemote
  <2> DEFINE k == Min(op.left)
  <2>1. op.pc = "rremote" /\ k \in Prots /\ (CancelAlgo(k, "rcanceled") \/ \E g : Looked(g))
    <3>1. op.pc = "rremote" /\ op.left # {} /\ (CancelAlgo(k, "rcanceled") \/ \E g : Looked(g))
      BY <1>11 DEF RecRemote, At
    <3> QED
      BY <1>1, <3>1, MinRow
  <2> HIDE DEF k
  <2>2. CASE \E g : Looked(g)
    <3>1. op'.pc = "rremote" /\ op'.todo = op.todo
      BY <1>1, <2>1, <2>2 DEF Looked, Threads
    <3>2. \A j \in op'.todo : ~Stale(j)'
      BY <1>5, <1>6, <2>1, <3>1
    <3> QED
      BY <1>4, <1>6, <3>1, <3>2 DEF RecFresh, Judging
  <2> QED
    BY <1>10, <2>1, <2>2
<1>12. CASE RecLocal
  <2> DEFINE k == Min(op.left)
             s == prot[k].state
             open == s \in Outstanding \ {"required"}
  <2>1. /\ op.pc = "rlocal"
        /\ \/ CancelAlgo(k, "rcanceled")
           \/ Looked(FALSE)
           \/ Looked(AlgoView(k) = "active")
           \/ ((~open \/ k \in op.todo) /\ \E g : Looked(g))
    BY <1>12, Zenon DEF RecLocal, At
  <2>2. k \in Prots
    <3>1. op.left # {}
      BY <1>12 DEF RecLocal
    <3> QED
      BY <1>1, <3>1, MinRow
  <2> HIDE DEF k
  <2>3. ASSUME NEW g, Looked(g), op'.safe => ~Stale(k) PROVE RecFresh'
    <3>1. op'.pc = "rlocal" /\ op'.todo = op.todo /\ op'.left = op.left \ {Min(op.left)}
      BY <1>1, <2>1, <2>3 DEF Looked, Threads
    <3>2. op'.left = op.left \ {k}
      BY <3>1 DEF k
    <3>3. op'.safe => \A j \in Prots : Stale(j) => j \in op.left
      BY <1>1, <1>2, <2>1 DEF RecFresh
    <3>4. op'.safe => \A j \in Prots : Stale(j)' => j \in op'.left
      BY <1>3, <2>3, <3>2, <3>3
    <3>5. \A j \in op'.todo : ~Stale(j)'
      BY <1>5, <1>6, <2>1, <3>1
    <3> QED
      BY <1>4, <1>6, <3>1, <3>4, <3>5 DEF RecFresh, Judging
  <2>4. ASSUME Looked(FALSE) PROVE ~op'.safe
    BY <1>1, <2>4 DEF Looked, Threads
  <2>5. ASSUME Looked(AlgoView(k) = "active"), op'.safe PROVE ~Stale(k)
    <3>1. AlgoView(k) = "active"
      BY <1>1, <2>5 DEF Looked, Threads
    <3> QED
      BY <3>1 DEF AlgoView, Stale
  <2>6. k \in op.todo => ~Stale(k)
    BY <1>1, <1>6, <2>1 DEF RecFresh
  <2>7. ~open => ~Stale(k)
    BY <2>2 DEF Stale, CoreInv, RowsBooked
  <2> QED
    BY <1>10, <2>1, <2>2, <2>3, <2>4, <2>5, <2>6, <2>7
<1>13. CASE RecCanceled
  <2>1. \E g : (g => op.ans = "ok") /\ op' = [op EXCEPT !.pc = op.ret, !.left = @ \ {op.k}, !.safe = @ /\ g]
    BY <1>13 DEF RecCanceled
  <2>2. op.pc = "rcanceled" /\ op.ret \in {"rremote", "rlocal"}
    BY <1>6, <1>13 DEF RecCanceled, At, ExitInv
  <2>3. /\ op'.pc = op.ret /\ op'.left = op.left \ {op.k} /\ op'.todo = op.todo
        /\ op'.safe => op.safe /\ op.ans = "ok"
    BY <1>1, <2>1 DEF Threads
  <2>4. op'.safe => ~Stale(op.k)
    BY <1>1, <2>2, <2>3 DEF RecFresh
  <2>5. op'.safe /\ op.ret = "rlocal" => \A j \in Prots : Stale(j) => j \in op.left
    BY <1>1, <2>2, <2>3 DEF RecFresh
  <2>6. op'.safe /\ op'.pc = "rlocal" => \A j \in Prots : Stale(j)' => j \in op'.left
    BY <1>3, <2>3, <2>4, <2>5
  <2>7. \A j \in op'.todo : ~Stale(j)'
    BY <1>5, <1>6, <2>2, <2>3
  <2> QED
    BY <1>4, <1>6, <2>2, <2>3, <2>6, <2>7 DEF RecFresh, Judging
<1> QED
  BY <1>7, <1>8, <1>9, <1>11, <1>12, <1>13 DEF Reconcile

\* It says READY of a position only with its protection before it.
LEMMA RecEndGuards ==
  ASSUME CoreInv, RecEnd
  PROVE  Quietly /\ ReadyWatched' /\ (mode' = "ready" => op.safe /\ mode # "emergency")
<1>1. op'.pc = "idle" /\ UNCHANGED <<position, prot>> /\ position \in Nat
  BY IdleSound DEF RecEnd, CoreInv, JournalTypes
<1>2. mode' = "ready" => mode # "emergency" /\ op.safe /\ (position > 0 => FullyProtected)
  BY DEF RecEnd
<1>3. FullyProtected => Guarded'
  <2>1. ASSUME FullyProtected PROVE ActiveOnly # {}
    BY <2>1, FS_EmptySet DEF FullyProtected
  <2> QED
    BY <1>1, <2>1 DEF FullyProtected, ActiveOnly, Guarded
<1>4. ReadyWatched'
  BY <1>1, <1>2, <1>3 DEF ReadyWatched, Resolving
<1> QED
  BY <1>1, <1>2, <1>4 DEF Quietly, Aloof, PC, Protecting, Reading

LEMMA ReconcileGuards ==
  ASSUME CoreInv, TrackInv, ExitInv, GuardInv, Next, Reconcile
  PROVE  RolesKept' /\ RecFresh' /\ RecQuiet' /\ ReadyWatched'
<1>1. CASE RecOrders
  BY <1>1, RecOrdersGuard
<1>2. CASE RecEnd
  BY <1>2, RecEndGuards, QuietlyHolds
<1>3. CASE ~RecOrders /\ ~RecEnd
  <2>1. /\ UNCHANGED <<mode, watch, sell, position>> /\ op.pc \in Reading /\ (op'.safe => op.safe)
        /\ \/ op'.pc \in {"rremote", "rlocal", "rcanceled", "rend"}
           \/ op'.pc = "ensure" /\ op'.ret = "rend"
        /\ op'.pc \in {"rremote", "rlocal"} => op'.ret = op'.pc \/ (op'.pc = op.pc /\ op'.ret = op.ret)
    BY <1>3, RecMoves
  <2>2. RolesKept'
    BY <2>1 DEF GuardInv, RolesKept, Protecting
  <2>3. RecQuiet'
    BY <2>1 DEF GuardInv, RecQuiet, PendingSells
  <2>4. ReadyWatched'
    BY <2>1 DEF ReadyWatched, Resolving
  <2> QED
    BY <1>3, <2>2, <2>3, <2>4, RecFreshStep
<1> QED
  BY <1>1, <1>2, <1>3

LEMMA ProtectStep ==
  ASSUME CoreInv, TrackInv, ExitInv, GuardInv, Next, Protect, ~CancelNext, ~CancelAnswered
  PROVE  RolesKept' /\ RecFresh' /\ RecQuiet' /\ ReadyWatched'
<1>1. /\ op.pc \in Protecting /\ op.ret \in Callers /\ op.ret \in Rets /\ op \in Threads /\ Sound(op)
      /\ Works \/ HandsBack
  BY ProtectGuards DEF GuardInv, CoreInv
<1>2. ~Hears
  BY <1>1 DEF Hears, SellNews, ExitResolvesSells, ExitSettlesTrigger, RecOrders, At, Protecting
<1>3. (\A k \in Prots : Stale(k)' => Stale(k)) /\ (ChildrenEnded => ChildrenEnded')
  BY <1>2, ChildrenLeft, StaleStep
<1>4. op.safe /\ op.ret = "rend" => Fresh'
  BY <1>1, <1>3 DEF GuardInv, RecFresh, Judging, Fresh
<1>5. mode' # "emergency" => UNCHANGED sell /\ mode # "emergency"
  <2>1. ~Flatten /\ ~RecEnd
    BY <1>1 DEF Flatten, RecEnd, At, Protecting
  <2>2. mode' # "emergency" => mode # "emergency"
    BY <2>1, ModeMoves DEF Degrade, Emergency
  <2>3. Sends => mode' = "emergency"
    BY DEF Sends, EmergencySell, ExitSell, At, GuardInv, RolesKept, Emergency, Degrade
  <2> QED
    BY <1>2, <2>2, <2>3, SellRests
<1>6. op.safe /\ op.ret = "rend" /\ mode' # "emergency" /\ watch'.task => PendingSells' = {}
  BY <1>1, <1>5, EmergencyStays DEF GuardInv, RecQuiet, Judging, PendingSells
<1>7. CASE Works
  <2>1. op'.pc \notin Reading /\ op'.pc \notin Matching /\ op'.pc \notin {"rend", "rlocal", "rcanceled", "rremote"}
        /\ op'.pc \notin {"cancel", "canceled", "idle", "xreturn"} /\ op'.pc \notin Resolving
    BY <1>7 DEF Works, Protecting, Reading, Matching, Resolving
  <2>2. RolesKept'
    BY <1>1, <1>7, <2>1 DEF Works, GuardInv, RolesKept
  <2>3. RecFresh'
    BY <1>4, <1>7, <2>1 DEF Works, RecFresh, Judging
  <2>4. RecQuiet'
    BY <1>6, <1>7, <2>1 DEF Works, RecQuiet, Judging
  <2> QED
    BY <2>1, <2>2, <2>3, <2>4 DEF ReadyWatched
<1>8. CASE HandsBack
  <2>1. op'.pc = op.ret /\ (op.ret # "idle" => op'.safe = op.safe)
    BY <1>1, <1>8, ThreadReturns DEF HandsBack, Return, BackTo, Threads
  <2>2. CASE op.ret # "rend"
    <3>1. Quietly
      BY <1>1, <2>1, <2>2 DEF Quietly, Aloof, Callers, PC, Protecting, Reading
    <3>2. mode' = "ready" => Guarded'
      BY <1>8, <2>2 DEF HandsBack
    <3> QED
      BY <3>1, <3>2, QuietlyHolds DEF ReadyWatched
  <2>3. CASE op.ret = "rend"
    <3>1. op'.pc = "rend" /\ op'.safe = op.safe
      BY <2>1, <2>3
    <3>2. RolesKept'
      BY <3>1 DEF RolesKept, Protecting
    <3>3. RecFresh'
      BY <1>4, <2>3, <3>1 DEF RecFresh, Reading, Matching
    <3>4. RecQuiet'
      BY <1>6, <2>3, <3>1 DEF RecQuiet
    <3> QED
      BY <3>1, <3>2, <3>3, <3>4 DEF ReadyWatched, Resolving
  <2> QED
    BY <2>2, <2>3
<1> QED
  BY <1>1, <1>7, <1>8

-----------------------------------------------------------------------------
(* The invariant, and what it says of READY.                               *)

LEMMA NotReconciling ==
  ASSUME Exit \/ CancelNext \/ CancelAnswered
  PROVE  ~Recon
BY DEF Exit, ExitResolvesBuy, ExitCancelsBuy, ExitBuyAnswered, ExitResolvesSells, ExitSkipsRow, ExitSeesTrigger,
   ExitSettlesTrigger, ExitCancelsAll, ExitCanceled, ExitCounts, ExitSell, ExitReturn, CancelNext, CancelAnswered, At,
   Recon, Judging, Reading, Protecting

\* A reconciliation of a system that stays READY ends with its verdict.
LEMMA ReconStays ==
  ASSUME CoreInv, TrackInv, ExitInv, GuardInv, Next, Recon, mode' = "ready"
  PROVE  Recon' \/ RecEnd
<1>1. CASE Aside
  <2>1. UNCHANGED op
    BY <1>1 DEF Aside, Exchange, XBuyFill, XBuyEnds, XTrigger, XAlgoEnds, XSellFill, XSellEnds, Watchdog, WatchDetects,
       WatchDeadline, WatchClears, LeaseExpires, ExitDeadline
  <2> QED
    BY <2>1 DEF Recon, Judging
<1>2. CASE Protect /\ ~CancelNext /\ ~CancelAnswered
  <2>1. op.pc \in Protecting /\ Sound(op) /\ (Works \/ HandsBack)
    BY <1>2, ProtectGuards DEF GuardInv, CoreInv
  <2>2. op.ret = "rend"
    BY <2>1 DEF Recon, Judging, Reading, Protecting
  <2> QED
    BY <2>1, <2>2, ThreadReturns DEF Works, HandsBack, Recon, Judging
<1>3. CASE Reconcile
  <2>1. CASE RecOrders
    <3>1. \E g : op' = [op EXCEPT !.pc = "ralgos", !.want = 0, !.safe = g]
      BY <2>1 DEF RecOrders
    <3>2. op'.pc = "ralgos"
      BY <3>1 DEF CoreInv, Sound, Threads
    <3> QED
      BY <3>2 DEF Recon, Reading
  <2>2. CASE ~RecOrders /\ ~RecEnd
    BY <1>3, <2>2, RecMoves DEF Recon, Reading, Judging, Protecting
  <2> QED
    BY <2>1, <2>2
<1>4. CASE ~Protect /\ ~Exit /\ ~Reconcile /\ ~Aside
  BY <1>4 DEF Next, Aside, ExitBegin, RecBegin, BuyNews, SellNews, AlgoNews, NewBuy, Flatten, Crash, Degrade, At,
     Recon, Judging, Reading, Protecting
<1> QED
  BY <1>1, <1>2, <1>3, <1>4, NotReconciling

LEMMA ReadyHolds ==
  ASSUME CoreInv, TrackInv, ExitInv, GuardInv, Next
  PROVE  ReadyFresh' /\ ReadyQuiet'
<1> SUFFICES ASSUME mode' = "ready", ~Recon'
             PROVE  Fresh' /\ (watch'.task => PendingSells' = {})
  BY DEF ReadyFresh, ReadyQuiet
<1>1. ASSUME Fresh, ChildrenRest PROVE Fresh'
  BY <1>1, StaleStep DEF Fresh
<1>2. watch'.task => watch.task
  BY EmergencyStays
<1>3. CASE Recon
  <2>1. RecEnd
    BY <1>3, ReconStays
  <2>2. op.safe /\ mode # "emergency" /\ Judging /\ UNCHANGED sell
    BY <2>1, RecEndGuards DEF RecEnd, At, Judging
  <2>3. Fresh /\ ChildrenRest
    BY <2>2 DEF GuardInv, RecFresh, ChildrenRest
  <2>4. watch.task => PendingSells = {}
    BY <2>2 DEF GuardInv, RecQuiet
  <2> QED
    BY <1>1, <1>2, <2>2, <2>3, <2>4 DEF PendingSells
<1>4. CASE ~Recon
  <2>1. mode = "ready" /\ Fresh /\ ChildrenRest /\ \A s \in Sells \ PendingSells : sell'[s].state = sell[s].state
    BY <1>4, ReadyRest DEF GuardInv
  <2>2. watch.task => PendingSells = {}
    BY <1>4, <2>1 DEF GuardInv, ReadyQuiet
  <2>3. PendingSells = {} => PendingSells' = {}
    BY <2>1 DEF PendingSells
  <2> QED
    BY <1>1, <1>2, <2>1, <2>2, <2>3
<1> QED
  BY <1>3, <1>4

LEMMA GuardInit == Init => GuardInv
<1> SUFFICES ASSUME Init PROVE GuardInv
  OBVIOUS
<1>1. op.pc = "idle" /\ position = 0 /\ ~watch.task
  BY IdleSound DEF Init
<1>2. \A s \in Sells : sell[s].state = "none" /\ sell[s].acc = 0 /\ xsell[s].acc = 0
  BY DEF Init
<1>3. \A k \in Prots : prot[k].state = "none" /\ algo[k].state = "none"
  BY DEF Init
<1>4. EndsSeen /\ SoldSeen /\ TaskSells
  BY <1>1, <1>2, <1>3 DEF EndsSeen, SoldSeen, TaskSells
<1>5. RolesKept /\ RecFresh /\ ReadyQuiet /\ RecQuiet /\ ReadyWatched
  BY <1>1 DEF RolesKept, RecFresh, ReadyQuiet, RecQuiet, ReadyWatched, Judging, Protecting, Reading, Matching, Resolving
<1>6. ReadyFresh
  BY <1>3 DEF ReadyFresh, Fresh, ChildrenEnded, Stale
<1> QED
  BY <1>4, <1>5, <1>6 DEF GuardInv

LEMMA GuardStep ==
  ASSUME CoreInv, CoreInv', TrackInv, ExitInv, GuardInv, [Next]_vars
  PROVE  GuardInv'
<1>1. CASE Next
  <2>1. EndsSeen' /\ SoldSeen' /\ TaskSells'
    BY <1>1, EndsSeenHolds, SoldSeenHolds, TaskSellsHolds DEF GuardInv
  <2>2. ReadyFresh' /\ ReadyQuiet'
    BY <1>1, ReadyHolds
  <2>3. RolesKept' /\ RecFresh' /\ RecQuiet' /\ ReadyWatched'
    <3>1. CASE Exit
      BY <1>1, <3>1, ExitQuietly, ExitWatched, QuietlyHolds
    <3>2. CASE CancelNext \/ CancelAnswered
      BY <3>2, CancelQuietly, QuietlyHolds DEF GuardInv, ReadyWatched
    <3>3. CASE ~Protect /\ ~Exit /\ ~Reconcile /\ ~Aside
      BY <1>1, <3>3, NewsQuietly, NewsWatched, QuietlyHolds
    <3> QED
      BY <1>1, <3>1, <3>2, <3>3, AsideGuards, ProtectStep, ReconcileGuards
  <2> QED
    BY <2>1, <2>2, <2>3 DEF GuardInv
<1>2. CASE UNCHANGED vars
  BY <1>2 DEF vars, journal, exchange, GuardInv, EndsSeen, SoldSeen, TaskSells, RolesKept, ReadyFresh, RecFresh,
     ReadyQuiet, RecQuiet, ReadyWatched, Guarded, Jams, Stale, ChildrenEnded, Fresh, Recon, Judging, PendingSells, LiveSells
<1> QED
  BY <1>1, <1>2

LEMMA GuardHolds == Spec => []GuardInv
BY GuardInit, GuardStep, CoreHolds, TrackHolds, ExitInvHolds, PTL DEF Spec

\* Whatever queries fail: while the system is READY and nobody is at work on its
\* position, one OCO protects it and no other row is outstanding, or a trigger is
\* selling it whose SELL the journal has not seen end, or a row that was given up
\* and has fired ends every exit.
THEOREM ReadyGuarded == Spec => []ReadyIsGuarded
<1>1. TrackInv /\ GuardInv => ReadyIsGuarded
  <2> SUFFICES ASSUME TrackInv, GuardInv, op.pc = "idle", mode = "ready", position > 0
               PROVE  \/ Cardinality(ActiveOnly) = 1 /\ ActiveOnly = Actives
                      \/ \E k \in Prots : prot[k].state = "triggered"
                                            /\ sell[algo[k].child].state \notin {"filled", "canceled"}
                      \/ \E k \in Prots : Jams(k)
    BY DEF ReadyIsGuarded, At
  <2>1. PICK k \in Prots : \/ prot[k].state = "active"
                           \/ prot[k].state = "triggered" /\ sell[algo[k].child].state = "none"
                           \/ Jams(k)
    BY DEF GuardInv, ReadyWatched, Guarded
  <2>2. CASE prot[k].state = "active"
    <3>1. ActiveOnly = {k} /\ Actives = {k}
      BY <2>2 DEF TrackInv, Unended, Outstanding, ActiveOnly, Actives
    <3> QED
      BY <3>1, FS_Singleton
  <2>3. CASE prot[k].state = "triggered" /\ sell[algo[k].child].state = "none"
    BY <2>3
  <2> QED
    BY <2>1, <2>2, <2>3
<1> QED
  BY <1>1, GuardHolds, TrackHolds, PTL

-----------------------------------------------------------------------------
(* An OCO that is live and forgotten keeps the system from READY: whoever  *)
(* forgets it stops the system, and no reconciliation that still sees it   *)
(* calls itself safe.                                                      *)

Loud == Forgotten # {} => mode # "ready"

\* Where a reconciliation has still to meet what is forgotten, and where it has met it.
Seeking == op.pc = "rremote" \/ (op.pc = "rcanceled" /\ op.ret = "rremote")

Met == op.pc = "rlocal" \/ (op.pc = "rcanceled" /\ op.ret = "rlocal") \/ Judging

RecLoud ==
  op.safe /\ mode # "emergency" =>
    /\ Seeking => Forgotten \subseteq op.left
    /\ Met => Forgotten = {}

LoudInv == Loud /\ RecLoud

\* Nothing more is forgotten by a system that goes on.
LEMMA ForgottenLeft ==
  ASSUME CoreInv, TrackInv, Next, mode' # "emergency"
  PROVE  Forgotten' \subseteq Forgotten
<1> SUFFICES ASSUME NEW k \in Forgotten' PROVE k \in Forgotten
  OBVIOUS
<1>1. k \in Prots /\ algo'[k].state \in {"live", "canceling"} /\ algo'[k].misread /\ prot'[k].state = "emergency_exit"
  BY DEF Forgotten, LiveAlgos
<1>2. prot[k].state = "emergency_exit"
  <2>1. CASE UNCHANGED prot
    BY <1>1, <2>1
  <2>2. CASE RowTracked
    <3>1. PICK j \in Prots, r \in RowTypes : prot' = [prot EXCEPT ![j] = r] /\ r.state # "emergency_exit"
      BY <2>2 DEF RowTracked
    <3>2. prot \in [Prots -> RowTypes]
      BY DEF CoreInv, JournalTypes, RowTypes
    <3>3. j # k
      BY <1>1, <3>1, <3>2
    <3> QED
      BY <1>1, <3>1, <3>2, <3>3
  <2> QED
    BY <2>1, <2>2, RowsTracked
<1>3. k \in LiveAlgos /\ algo[k].misread
  <2>1. ~AlgoFires(k) /\ ~AlgoPlaced(k)
    BY <1>1, <1>2 DEF AlgoFires, AlgoPlaced, CoreInv, RowsBooked
  <2>2. AlgoKeeps(k) \/ AlgoLeaves(k)
    BY <1>1, <2>1, ExchangeMoves DEF AlgosMove
  <2> QED
    BY <1>1, <2>2 DEF AlgoKeeps, AlgoLeaves, LiveAlgos
<1> QED
  BY <1>2, <1>3 DEF Forgotten

LEMMA LoudMode ==
  ASSUME Next, mode' # "emergency"
  PROVE  mode # "emergency" \/ Forgotten = {}
<1>1. UNCHANGED mode \/ Degrade \/ Emergency \/ RecEnd \/ Flatten
  BY ModeMoves
<1>2. Flatten => Forgotten = {}
  BY DEF Flatten, Forgotten
<1> QED
  BY <1>1, <1>2 DEF Degrade, Emergency, RecEnd

LEMMA LoudHolds ==
  ASSUME CoreInv, TrackInv, GuardInv, Next, LoudInv
  PROVE  Loud'
<1> SUFFICES ASSUME mode' = "ready" PROVE Forgotten' = {}
  BY DEF Loud
<1>1. Forgotten' \subseteq Forgotten
  BY ForgottenLeft
<1>2. mode = "ready" \/ RecEnd
  BY ModeMoves DEF Degrade, Emergency, Flatten
<1>3. RecEnd => op.safe /\ mode # "emergency" /\ Judging
  BY RecEndGuards DEF RecEnd, At, Judging
<1>4. Forgotten = {}
  BY <1>2, <1>3 DEF LoudInv, Loud, RecLoud, Met
<1> QED
  BY <1>1, <1>4

\* A reconciliation in search of the OCOs that are live, and then of its rows.
LEMMA ReconcileLoud ==
  ASSUME CoreInv, TrackInv, ExitInv, GuardInv, RecLoud, Next, Reconcile, mode # "emergency", op'.safe,
         Forgotten' \subseteq Forgotten
  PROVE  (Seeking' => Forgotten' \subseteq op'.left) /\ (Met' => Forgotten' = {})
<1>1. op \in Threads /\ op.left \in SUBSET Prots
  BY DEF CoreInv, Sound, Threads
<1>2. {"idle", "ralgos"} \cap {"rremote", "rcanceled", "rlocal", "rend"} = {} /\ "idle" \notin Protecting
      /\ "ralgos" \notin Protecting /\ "rremote" \notin Protecting /\ "rcanceled" \notin Protecting
  BY DEF Protecting
<1>3. CASE RecOrders
  <2>1. \E g : op' = [op EXCEPT !.pc = "ralgos", !.want = 0, !.safe = g]
    BY <1>3 DEF RecOrders
  <2>2. op'.pc = "ralgos"
    BY <1>1, <2>1 DEF Threads
  <2> QED
    BY <1>2, <2>2 DEF Seeking, Met, Judging
<1>4. CASE RecEnd
  BY <1>2, <1>4, IdleSound DEF RecEnd, Seeking, Met, Judging
<1>5. CASE RecAlgos
  <2>1. \E g : op' = [op EXCEPT !.pc = "rremote", !.ret = "rremote", !.left = LiveAlgos, !.todo = LiveAlgos, !.safe = g]
    BY <1>5 DEF RecAlgos
  <2>2. op'.pc = "rremote" /\ op'.left = LiveAlgos
    BY <1>1, <2>1 DEF Threads
  <2>3. Forgotten \subseteq LiveAlgos
    BY DEF Forgotten
  <2> QED
    BY <1>2, <2>2, <2>3 DEF Met, Judging
<1>6. CASE ~RecOrders /\ ~RecEnd /\ ~RecAlgos
  <2>1. op.safe
    BY <1>6, RecMoves
  <2>2. op.pc = "rlocal" => Forgotten = {}
    BY <2>1 DEF RecLoud, Met
  <2>3. op.pc = "rremote" => Forgotten \subseteq op.left
    BY <2>1 DEF RecLoud, Seeking
  <2>4. CASE RecRemoteDone \/ RecLocal \/ RecLocalDone
    <3>1. op.pc = "rlocal" \/ (op.pc = "rremote" /\ op.left = {})
      BY <2>4 DEF RecRemoteDone, RecLocal, RecLocalDone, At
    <3>2. Forgotten' = {}
      BY <2>2, <2>3, <3>1
    <3> QED
      BY <3>2
  <2>5. CASE RecRemote
    <3> DEFINE k == Min(op.left)
    <3>1. op.pc = "rremote" /\ op.ret = "rremote" /\ op.left # {}
      BY <2>5 DEF RecRemote, At, GuardInv, RolesKept
    <3>2. k \in Prots
      BY <1>1, <3>1, MinRow
    <3>3. \/ CancelAlgo(k, "rcanceled")
          \/ Looked(TRUE) /\ CanMove(prot[k].state, "unknown")
          \/ Looked(CanMove(prot[k].state, "active"))
      BY <2>5, Zenon DEF RecRemote, Unmapped
    <3>4. CASE CancelAlgo(k, "rcanceled")
      <4>1. op'.pc = "rcanceled" /\ op'.ret = "rremote" /\ op'.left = op.left
        BY <3>1, <3>2, <3>4, CancelFresh
      <4> QED
        BY <1>2, <2>3, <3>1, <4>1 DEF Met, Judging
    <3>5. ASSUME NEW g, Looked(g), g => CanMove(prot[k].state, "unknown") \/ CanMove(prot[k].state, "active")
          PROVE  (Seeking' => Forgotten' \subseteq op'.left) /\ (Met' => Forgotten' = {})
      <4>1. op'.pc = "rremote" /\ op'.left = op.left \ {Min(op.left)} /\ g
        BY <1>1, <3>1, <3>5 DEF Looked, Threads
      <4>2. Min(op.left) \notin Forgotten
        BY <3>5, <4>1, MayBeUnknown, GivenUpStays DEF Forgotten
      <4> QED
        BY <1>2, <2>3, <3>1, <4>1, <4>2 DEF Met, Judging
    <3> HIDE DEF k
    <3> QED
      BY <3>3, <3>4, <3>5
  <2>6. CASE RecCanceled
    <3>1. op.pc = "rcanceled" /\ op.ret \in {"rremote", "rlocal"}
      BY <2>6 DEF RecCanceled, At, ExitInv, Matching
    <3>2. \E g : /\ op' = [op EXCEPT !.pc = op.ret, !.left = @ \ {op.k}, !.safe = @ /\ g]
                 /\ g => CanMove(prot[op.k].state, AlgoView(op.k)) \/ CanMove(prot[op.k].state, "unknown")
      BY <2>6, Zenon DEF RecCanceled, Unmapped
    <3>3. /\ op'.pc = op.ret /\ op'.left = op.left \ {op.k}
          /\ CanMove(prot[op.k].state, AlgoView(op.k)) \/ CanMove(prot[op.k].state, "unknown")
      BY <1>1, <3>2 DEF Threads
    <3>4. op.k \in Prots
      BY <1>1 DEF Threads
    <3>5. op.k \notin Forgotten
      BY <3>3, <3>4, ViewMoves, MayBeUnknown, GivenUpStays DEF Forgotten
    <3>6. CASE op.ret = "rremote"
      <4>1. Forgotten \subseteq op.left
        BY <2>1, <3>1, <3>6 DEF RecLoud, Seeking
      <4> QED
        BY <1>2, <3>3, <3>5, <3>6, <4>1 DEF Met, Judging
    <3>7. CASE op.ret = "rlocal"
      <4>1. Forgotten = {}
        BY <2>1, <3>1, <3>7 DEF RecLoud, Met
      <4> QED
        BY <4>1
    <3> QED
      BY <3>1, <3>6, <3>7
  <2> QED
    BY <1>6, <2>4, <2>5, <2>6 DEF Reconcile
<1> QED
  BY <1>3, <1>4, <1>5, <1>6

LEMMA RecLoudHolds ==
  ASSUME CoreInv, TrackInv, ExitInv, GuardInv, Next, LoudInv
  PROVE  RecLoud'
<1> SUFFICES ASSUME op'.safe, mode' # "emergency"
             PROVE  (Seeking' => Forgotten' \subseteq op'.left) /\ (Met' => Forgotten' = {})
  BY DEF RecLoud
<1>1. Forgotten' \subseteq Forgotten
  BY ForgottenLeft
<1>2. SUFFICES ASSUME mode # "emergency"
               PROVE  (Seeking' => Forgotten' \subseteq op'.left) /\ (Met' => Forgotten' = {})
  BY <1>1, LoudMode
<1>3. CASE Quietly
  BY <1>3 DEF Quietly, Aloof, Reading, Seeking, Met, Judging, Protecting
<1>4. CASE Aside
  <2>1. UNCHANGED op
    BY <1>4 DEF Aside, Exchange, XBuyFill, XBuyEnds, XTrigger, XAlgoEnds, XSellFill, XSellEnds, Watchdog, WatchDetects,
       WatchDeadline, WatchClears, LeaseExpires, ExitDeadline
  <2> QED
    BY <1>1, <1>2, <2>1 DEF LoudInv, RecLoud, Seeking, Met, Judging
<1>5. CASE Protect /\ ~CancelNext /\ ~CancelAnswered
  <2>1. /\ op.pc \in Protecting /\ op.ret \in Callers /\ op \in Threads /\ Sound(op)
        /\ Works \/ HandsBack
    BY <1>5, ProtectGuards DEF GuardInv, CoreInv
  <2>2. CASE Works
    <3>1. op'.pc \in Protecting /\ op'.ret = op.ret /\ op.safe
      BY <2>2 DEF Works
    <3>2. op'.pc \notin {"rremote", "rcanceled", "rlocal", "rend"}
      BY <3>1 DEF Protecting
    <3>3. Judging' => Judging
      BY <2>1, <3>1, <3>2 DEF Judging
    <3> QED
      BY <1>1, <1>2, <3>1, <3>2, <3>3 DEF LoudInv, RecLoud, Seeking, Met
  <2>3. CASE HandsBack
    <3>1. op'.pc = op.ret /\ (op.ret # "idle" => op'.safe = op.safe)
      BY <2>1, <2>3, ThreadReturns DEF HandsBack, Return, BackTo, Threads
    <3>2. op'.pc \notin {"rremote", "rcanceled", "rlocal"} /\ op'.pc \notin Protecting
      BY <2>1, <3>1 DEF Callers, Protecting
    <3>3. Judging' => Judging /\ op.safe
      BY <2>1, <3>1, <3>2 DEF Judging
    <3> QED
      BY <1>1, <1>2, <3>2, <3>3 DEF LoudInv, RecLoud, Seeking, Met
  <2> QED
    BY <2>1, <2>2, <2>3
<1>6. CASE Reconcile
  BY <1>1, <1>2, <1>6, ReconcileLoud DEF LoudInv
<1>7. CancelNext \/ CancelAnswered => Quietly
  BY CancelQuietly DEF GuardInv
<1>8. Exit => Quietly
  BY ExitQuietly
<1>9. ~Protect /\ ~Exit /\ ~Reconcile /\ ~Aside => Quietly
  BY NewsQuietly
<1> QED
  BY <1>3, <1>4, <1>5, <1>6, <1>7, <1>8, <1>9

LEMMA LoudInit == Init => LoudInv
<1> SUFFICES ASSUME Init PROVE LoudInv
  OBVIOUS
<1>1. Forgotten = {}
  BY DEF Init, Forgotten, LiveAlgos
<1> QED
  BY <1>1 DEF LoudInv, Loud, RecLoud

LEMMA LoudStep ==
  ASSUME CoreInv, TrackInv, ExitInv, GuardInv, LoudInv, [Next]_vars
  PROVE  LoudInv'
<1>1. CASE Next
  BY <1>1, LoudHolds, RecLoudHolds DEF LoudInv
<1>2. CASE UNCHANGED vars
  BY <1>2 DEF vars, journal, exchange, LoudInv, Loud, RecLoud, Seeking, Met, Judging, Forgotten, LiveAlgos
<1> QED
  BY <1>1, <1>2

\* Whatever answers are lost or wrong: of the OCOs that are live one at most is not
\* forgotten, its row is among those that a restart, an exit or a fill looks at, and
\* while one is forgotten the system is not READY.
THEOREM LiveAlgosFound == Spec => []LiveAlgosTracked
<1>1. ASSUME TrackInv, LoudInv PROVE LiveAlgosTracked
  <2> DEFINE L == LiveAlgos \ Forgotten
  <2>1. \A k \in L : k \in Prots /\ prot[k].state \in Outstanding
    BY <1>1 DEF TrackInv, LiveAlgos, Forgotten, GivenUp
  <2>2. \A j, k \in L : j = k
    BY <1>1, <2>1 DEF TrackInv, Unended
  <2>3. L = {} \/ \E k : L = {k}
    BY <2>2
  <2> HIDE DEF L
  <2>4. Cardinality(L) \in {0, 1}
    <3>1. CASE L = {}
      BY <3>1, FS_EmptySet
    <3>2. CASE \E k : L = {k}
      BY <3>2, FS_Singleton
    <3> QED
      BY <2>3, <3>1, <3>2
  <2>5. Cardinality(L) <= 1
    BY <2>4
  <2> QED
    BY <1>1, <2>1, <2>5 DEF L, LiveAlgosTracked, LoudInv, Loud
<1>2. Spec => []LoudInv
  BY LoudInit, LoudStep, CoreHolds, TrackHolds, ExitInvHolds, GuardHolds, PTL DEF Spec
<1> QED
  BY <1>1, <1>2, TrackHolds, PTL

=============================================================================
