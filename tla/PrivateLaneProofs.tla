-------------------------- MODULE PrivateLaneProofs ---------------------------
(***************************************************************************)
(* Proofs about private spending for every set of clients, workers and     *)
(* rules: a proof moves money at most once, what is paid under a rule fits *)
(* its rolling cap once per window begun, what is recorded of a batch is   *)
(* true, the books of both lanes balance, and a list whose account nobody  *)
(* else uses is paid to its end.                                           *)
(***************************************************************************)
EXTENDS PrivateLane, SumProofs, SequenceTheorems, TLAPS

-----------------------------------------------------------------------------
\* Shapes.

Acc == [anchor : Nat, spent : Nat]
Places == {"start", "read", "readGlobal", "prove", "post", "sent", "queued", "done", "failed"}
Posted == {"post", "sent", "queued"}
Past == Posted \cup {"done", "failed"}
RuleOrNone == Rules \cup {None}
Req ==
    [id : Ids, total : Nat \ {0}, va : Nat, vb : Nat, rule : Rules, acc : Acc,
     glob : RuleOrNone, gacc : Acc]
ClientRec ==
    [kind : {"web", "sdk", "job"}, rule : Rules, at : Places, group : Nat \ {0},
     try : Nat \ {0}, glob : RuleOrNone, acc : Acc, gacc : Acc, va : Nat,
     q : Req \cup {NoRequest}]

ChainOK ==
    /\ now \in Nat /\ now >= Window
    /\ accum \in [Rules -> Acc]
    /\ used \subseteq [nul : Rules \X Ids, until : Nat]
    /\ paid \in [Ids -> Nat]
    /\ tally \in [Rules -> [sum : Nat, first : Nat, last : Nat]]
    /\ pinned \subseteq Rules /\ global \in RuleOrNone

\* A client holds a request exactly while it has one posted, and it is the one
\* of its group and try.
ClientOK(d, c) ==
    /\ c \in ClientRec
    /\ c.group \in 1..Len(Groups[d]) /\ c.try \in 1..Tries[d]
    /\ c.at \in Posted => c.q \in Req /\ c.q.id = <<d, c.group, c.try>>
    /\ c.at \notin Posted => c.q = NoRequest
    /\ c.kind = "sdk" => c.va = 0 \/ c.va >= Window
    /\ c.kind = "sdk" /\ c.at \in {"readGlobal", "prove", "post", "sent"} => c.va >= Window
    /\ c.at = "readGlobal" => c.glob # None
    /\ c.kind = "job" => c.group = 1 /\ c.try = 1 /\ c.at # "sent"
    /\ c.at = "queued" => c.kind = "job"

ClientsOK == client = [d \in Spends |-> client[d]] /\ \A d \in Spends : ClientOK(d, client[d])

\* An execution works for a job whose client has queued it.
RunOK(r) ==
    /\ r = [at |-> r.at, of |-> r.of, task |-> r.task]
    /\ r.at # "idle" => r.of \in Spends /\ client[r.of].at = "queued"
JobOK(d, j) ==
    /\ j = [state |-> j.state, by |-> j.by, stalls |-> j.stalls]
    /\ j.state # "none" => client[d].at = "queued"
WorkersOK ==
    /\ job = [d \in Spends |-> job[d]] /\ \A d \in Spends : JobOK(d, job[d])
    /\ run = [w \in Workers |-> run[w]]
    /\ \A w \in Workers : RunOK(run[w])

TxOK(tx) == tx = [op |-> tx.op, by |-> tx.by, task |-> tx.task, q |-> tx.q]
FlightOK == \A tx \in flight : TxOK(tx)

TypeInv == ChainOK /\ ClientsOK /\ WorkersOK /\ FlightOK

-----------------------------------------------------------------------------
\* Requests that may yet be paid.

Live == {tx.q : tx \in flight} \cup {client[d].q : d \in {e \in Spends : client[e].at \in Posted}}

\* The rules a request proves itself under, and what it proves.
Keeps(q) ==
    /\ q.va >= Window
    /\ q.total = Groups[q.id[1]][q.id[2]]
    /\ Provable(q.rule, q.acc, q.va, q.total)
    /\ q.glob # None => Provable(q.glob, q.gacc, q.va, q.total)

\* It can no longer be paid.
Dead(q) == now > q.vb \/ \E u \in used : u.nul = <<q.rule, q.id>> /\ u.until >= q.vb

\* A client is through with this group of this try.
Behind(i) ==
    LET c == client[i[1]] IN
    i[3] < c.try \/ (i[3] = c.try /\ (i[2] < c.group \/ (i[2] = c.group /\ c.at \in Past)))

LiveInv ==
    /\ \A q \in Live : q \in Req /\ Keeps(q) /\ Behind(q.id)
    /\ \A q \in Live : paid[q.id] > 0 => Dead(q)
    /\ \A p, q \in Live : p.id = q.id => p = q
    /\ \A i \in Ids : paid[i] <= 1 /\ (paid[i] > 0 => Behind(i))

\* What is paid under a rule is in its window now, or in one of the n windows
\* that were closed before.
Budgeted(r, n) ==
    /\ tally[r].sum <= accum[r].spent + Cap[r] * n
    /\ tally[r].first + n * Window <= accum[r].anchor
RateOf(r) ==
    /\ accum[r].spent <= Cap[r]
    /\ tally[r].sum = 0 => accum[r] = NoSpend /\ tally[r].last = 0
    /\ tally[r].sum > 0 => accum[r].anchor <= tally[r].last /\ \E n \in Nat : Budgeted(r, n)
RateInv == \A r \in Rules : RateOf(r)

-----------------------------------------------------------------------------
\* What a step does, seen from the chain: it pays nothing, or one request.

Payment(q, rs) ==
    /\ q.rule \in rs /\ rs \subseteq Rules
    /\ InWindow(q) /\ Fresh({<<q.rule, q.id>>})
    /\ \A r \in rs : \/ r = q.rule /\ accum[r] = q.acc
                     \/ r = q.glob /\ accum[r] = q.gacc
    /\ Consume(Nullifiers(q, rs))
    /\ Roll(q, rs)

PaysNothing == UNCHANGED <<accum, used, paid, tally>>
PaysOne == \E q \in Live, rs \in SUBSET Rules : Payment(q, rs)

\* No client goes back, and nobody makes a new request.
Forward == \A i \in Ids : Behind(i) => Behind(i)'
Ordinary ==
    /\ now' = now
    /\ PaysNothing \/ PaysOne
    /\ Live' \subseteq Live
    /\ Forward

LEMMA Numbers ==
    /\ Window \in Nat /\ Window > 0 /\ MaxTroubles \in Nat
    /\ NullifierTtl \in Nat /\ MaxValidity \in Nat /\ MaxValidity < NullifierTtl
    /\ \A r \in Rules : Cap[r] \in Nat /\ r # None
<1>1. {MaxTime, MaxTroubles, Funds, NullifierTtl, MaxValidity} \subseteq Nat
  BY PrivateAssumption
<1>2. MaxTroubles \in Nat /\ NullifierTtl \in Nat /\ MaxValidity \in Nat
  BY <1>1
<1>3. QED
  BY <1>2, PrivateAssumption

LEMMA IdShape ==
    \A i \in Ids : /\ i = <<i[1], i[2], i[3]>> /\ i[1] \in Spends
                   /\ i[2] \in 1..Len(Groups[i[1]]) /\ i[3] \in 1..Tries[i[1]]
<1> USE PrivateAssumption
<1> SUFFICES ASSUME NEW i \in Ids
             PROVE  /\ i = <<i[1], i[2], i[3]>> /\ i[1] \in Spends
                    /\ i[2] \in 1..Len(Groups[i[1]]) /\ i[3] \in 1..Tries[i[1]]
  OBVIOUS
<1>1. PICK d \in Spends : i \in {<<d, k, t>> : k \in DOMAIN Groups[d], t \in 1..Tries[d]}
  BY DEF Ids
<1>2. PICK k \in DOMAIN Groups[d], t \in 1..Tries[d] : i = <<d, k, t>>
  BY <1>1
<1>3. Groups[d] \in Seq(Nat \ {0})
  OBVIOUS
<1>4. QED
  BY <1>2, <1>3

LEMMA IdMade ==
    ASSUME NEW d \in Spends, NEW k \in 1..Len(Groups[d]), NEW t \in 1..Tries[d]
    PROVE  <<d, k, t>> \in Ids
<1> USE PrivateAssumption
<1>1. Groups[d] \in Seq(Nat \ {0})
  OBVIOUS
<1>2. <<d, k, t>> \in {<<d, l, u>> : l \in DOMAIN Groups[d], u \in 1..Tries[d]}
  <2>1. k \in DOMAIN Groups[d]
    BY <1>1
  <2>2. QED
    BY <2>1
<1>3. QED
  <2>1. \E e \in Spends :
          <<d, k, t>> \in {<<e, l, u>> : l \in DOMAIN Groups[e], u \in 1..Tries[e]}
    BY <1>2
  <2>2. QED
    BY <2>1 DEF Ids

LEMMA RolledType ==
    ASSUME NEW acc \in Acc, NEW q \in Req
    PROVE  Rolled(acc, q) \in Acc
BY DEF Acc, Req, Rolled, Resets, Base

LEMMA PaymentChain ==
    ASSUME ChainOK, NEW q \in Req, NEW rs, Payment(q, rs)
    PROVE  /\ accum' \in [Rules -> Acc]
           /\ used' \subseteq [nul : Rules \X Ids, until : Nat]
           /\ paid' \in [Ids -> Nat]
           /\ tally' \in [Rules -> [sum : Nat, first : Nat, last : Nat]]
<1> USE PrivateAssumption
<1>0. q.total \in Nat /\ q.va \in Nat /\ q.id \in Ids /\ q.rule \in Rules
  BY DEF Req
<1>1. accum' \in [Rules -> Acc]
  <2>1. \A r \in Rules : Rolled(accum[r], q) \in Acc
    BY RolledType DEF ChainOK
  <2>2. QED
    BY <2>1 DEF Payment, Roll, ChainOK
<1>2. used' \subseteq [nul : Rules \X Ids, until : Nat]
  <2>1. ASSUME NEW n \in Nullifiers(q, rs)
        PROVE  [nul |-> n, until |-> now + NullifierTtl] \in [nul : Rules \X Ids, until : Nat]
    <3>1. PICK r \in rs : n = <<r, q.id>>
      BY <2>1 DEF Nullifiers
    <3>2. r \in Rules /\ now + NullifierTtl \in Nat
      BY Numbers DEF Payment, ChainOK
    <3>3. QED
      BY <1>0, <3>1, <3>2
  <2>2. QED
    BY <2>1 DEF Payment, Consume, ChainOK
<1>3. paid' \in [Ids -> Nat]
  BY <1>0 DEF Payment, Roll, ChainOK
<1>4. tally' \in [Rules -> [sum : Nat, first : Nat, last : Nat]]
  <2>1. ASSUME NEW r \in Rules
        PROVE  /\ tally[r] \in [sum : Nat, first : Nat, last : Nat]
               /\ [sum |-> tally[r].sum + q.total,
                   first |-> IF tally[r].sum = 0 THEN q.va ELSE tally[r].first,
                   last |-> Max2(tally[r].last, q.va)] \in [sum : Nat, first : Nat, last : Nat]
    <3>1. tally[r] \in [sum : Nat, first : Nat, last : Nat]
      BY DEF ChainOK
    <3>2. tally[r].sum + q.total \in Nat /\ Max2(tally[r].last, q.va) \in Nat
      BY <1>0, <3>1 DEF Max2
    <3>3. QED
      BY <1>0, <3>1, <3>2
  <2>2. QED
    BY <2>1 DEF Payment, Roll
<1>5. QED
  BY <1>1, <1>2, <1>3, <1>4

LEMMA OrdinaryChain ==
    ASSUME ChainOK, LiveInv, Ordinary, pinned' \subseteq Rules, global' \in RuleOrNone
    PROVE  ChainOK'
<1>1. CASE PaysNothing
  BY <1>1 DEF ChainOK, Ordinary, PaysNothing
<1>2. CASE PaysOne
  <2>1. PICK q \in Live, rs \in SUBSET Rules : Payment(q, rs)
    BY <1>2 DEF PaysOne
  <2>2. q \in Req
    BY DEF LiveInv
  <2>3. QED
    BY <2>1, <2>2, PaymentChain DEF ChainOK, Ordinary
<1>3. QED
  BY <1>1, <1>2 DEF Ordinary

-----------------------------------------------------------------------------
\* A proof pays once.

LEMMA OrdinaryLive ==
    ASSUME ChainOK, LiveInv, Ordinary
    PROVE  LiveInv'
<1> USE PrivateAssumption
<1>1. /\ \A q \in Live' : q \in Req /\ Keeps(q) /\ Behind(q.id)'
      /\ \A p, q \in Live' : p.id = q.id => p = q
  <2>1. \A q \in Live : q.id \in Ids
    BY DEF LiveInv, Req
  <2>2. QED
    BY <2>1 DEF LiveInv, Ordinary, Forward
<1>2. CASE PaysNothing
  <2>1. \A q : Dead(q) => Dead(q)'
    BY <1>2 DEF PaysNothing, Ordinary, Dead
  <2>2. \A q \in Live' : paid'[q.id] > 0 => Dead(q)'
    BY <1>2, <2>1 DEF LiveInv, Ordinary, PaysNothing
  <2>3. \A i \in Ids : paid'[i] <= 1 /\ (paid'[i] > 0 => Behind(i)')
    BY <1>2 DEF LiveInv, Ordinary, Forward, PaysNothing
  <2>4. QED
    BY <1>1, <2>2, <2>3 DEF LiveInv, Keeps, Provable, Base, Resets
<1>3. CASE PaysOne
  <2>1. PICK p \in Live, rs \in SUBSET Rules : Payment(p, rs)
    BY <1>3 DEF PaysOne
  <2>2. p \in Req /\ p.id \in Ids /\ p.vb \in Nat /\ Behind(p.id)
    BY DEF LiveInv, Req
  <2>3. ~Dead(p)
    <3>1. now <= p.vb /\ \A u \in used : u.nul # <<p.rule, p.id>>
      BY <2>1 DEF Payment, InWindow, Fresh
    <3>2. QED
      BY <2>2, <3>1 DEF Dead, ChainOK
  <2>4. paid[p.id] = 0 /\ paid' = [paid EXCEPT ![p.id] = @ + 1] /\ paid \in [Ids -> Nat]
    BY <2>1, <2>2, <2>3 DEF LiveInv, Payment, Roll, ChainOK
  <2>5. used \subseteq used' /\ Dead(p)'
    <3>1. [nul |-> <<p.rule, p.id>>, until |-> now + NullifierTtl] \in used' /\ used \subseteq used'
      BY <2>1 DEF Payment, Consume, Nullifiers
    <3>2. now + NullifierTtl >= p.vb
      BY <2>1, <2>2, Numbers DEF Payment, InWindow, ChainOK
    <3>3. QED
      BY <3>1, <3>2 DEF Dead
  <2>6. \A q : Dead(q) => Dead(q)'
    BY <2>5 DEF Ordinary, Dead
  <2>7. \A q \in Live' : paid'[q.id] > 0 => Dead(q)'
    <3>1. SUFFICES ASSUME NEW q \in Live', paid'[q.id] > 0 PROVE Dead(q)'
      OBVIOUS
    <3>2. q \in Live /\ q.id \in Ids
      BY DEF Ordinary, LiveInv, Req
    <3>3. CASE q.id = p.id
      BY <2>5, <3>2, <3>3 DEF LiveInv
    <3>4. CASE q.id # p.id
      BY <2>4, <2>6, <3>1, <3>2, <3>4 DEF LiveInv
    <3>5. QED
      BY <3>3, <3>4
  <2>8. \A i \in Ids : paid'[i] <= 1 /\ (paid'[i] > 0 => Behind(i)')
    BY <2>2, <2>4 DEF LiveInv, Ordinary, Forward
  <2>9. QED
    BY <1>1, <2>7, <2>8 DEF LiveInv, Keeps, Provable, Base, Resets
<1>4. QED
  BY <1>2, <1>3 DEF Ordinary

\* A client makes a new request, under an id that it was not through with.
Gains(q) ==
    /\ now' = now /\ PaysNothing /\ Forward
    /\ Live' \subseteq Live \cup {q}
    /\ q \in Req /\ Keeps(q)
    /\ ~Behind(q.id) /\ Behind(q.id)'

LEMMA GainsLive ==
    ASSUME ChainOK, LiveInv, NEW q, Gains(q)
    PROVE  LiveInv'
<1>1. /\ \A p \in Live' : p \in Req /\ Keeps(p) /\ Behind(p.id)'
      /\ \A p \in Live' : p = q \/ (p \in Live /\ p.id # q.id)
  <2>1. \A p \in Live : p.id \in Ids /\ p.id # q.id
    BY DEF LiveInv, Req, Gains
  <2>2. QED
    BY <2>1 DEF LiveInv, Gains, Forward
<1>2. q.id \in Ids /\ paid[q.id] \in Nat /\ paid[q.id] = 0
  BY DEF Gains, Req, ChainOK, LiveInv
<1>3. \A p, r \in Live' : p.id = r.id => p = r
  BY <1>1 DEF LiveInv
<1>4. \A p \in Live' : paid'[p.id] > 0 => Dead(p)'
  <2>1. \A p : Dead(p) => Dead(p)'
    BY DEF Gains, PaysNothing, Dead
  <2>2. QED
    BY <1>1, <1>2, <2>1 DEF LiveInv, Gains, PaysNothing
<1>5. \A i \in Ids : paid'[i] <= 1 /\ (paid'[i] > 0 => Behind(i)')
  BY DEF LiveInv, Gains, PaysNothing, Forward
<1>6. QED
  BY <1>1, <1>3, <1>4, <1>5 DEF LiveInv, Keeps, Provable, Base, Resets

\* A nullifier lapses only after the window of its proof.
LEMMA TickLive ==
    ASSUME ChainOK, LiveInv, Tick
    PROVE  LiveInv'
<1>1. /\ now' = now + 1 /\ now \in Nat /\ used' = {u \in used : u.until >= now'}
      /\ paid' = paid /\ client' = client /\ flight' = flight
  BY DEF Tick, ownerVars, workerVars, ChainOK
<1>2. Live' = Live /\ \A i \in Ids : Behind(i)' <=> Behind(i)
  BY <1>1 DEF Live, Behind
<1>3. ASSUME NEW q \in Live, Dead(q) PROVE Dead(q)'
  <2>1. q.vb \in Nat
    BY DEF LiveInv, Req
  <2>2. CASE now > q.vb
    BY <1>1, <2>1, <2>2 DEF Dead
  <2>3. ASSUME NEW u \in used, u.nul = <<q.rule, q.id>>, u.until >= q.vb PROVE Dead(q)'
    <3>1. u.until \in Nat
      BY DEF ChainOK
    <3>2. CASE u.until >= now'
      BY <1>1, <2>3, <3>2 DEF Dead
    <3>3. CASE ~(u.until >= now')
      BY <1>1, <2>1, <2>3, <3>1, <3>3 DEF Dead
    <3>4. QED
      BY <3>2, <3>3
  <2>4. QED
    BY <1>3, <2>2, <2>3 DEF Dead
<1>4. \A q \in Live' : paid'[q.id] > 0 => Dead(q)'
  BY <1>1, <1>2, <1>3 DEF LiveInv
<1>5. \A q \in Live : q.id \in Ids
  BY DEF LiveInv, Req
<1>6. QED
  BY <1>1, <1>2, <1>4, <1>5 DEF LiveInv, Keeps, Provable, Base, Resets

\* What no proof does twice.
LEMMA LiveIsOnce ==
    ASSUME TypeInv, LiveInv
    PROVE  ProofPaysOnce
<1>1. \A i \in Ids : paid[i] <= 1
  BY DEF LiveInv
<1>2. ASSUME NEW d \in Spends, client[d].q # NoRequest, paid[client[d].q.id] > 0
      PROVE  now > client[d].q.vb \/ ~Fresh(Nullifiers(client[d].q, {client[d].q.rule}))
  <2>1. client[d].at \in Posted
    BY <1>2 DEF TypeInv, ClientsOK, ClientOK
  <2>2. client[d].q \in Live
    BY <2>1 DEF Live
  <2>3. Dead(client[d].q)
    BY <1>2, <2>2 DEF LiveInv
  <2>4. <<client[d].q.rule, client[d].q.id>> \in Nullifiers(client[d].q, {client[d].q.rule})
    BY DEF Nullifiers
  <2>5. QED
    BY <2>3, <2>4 DEF Dead, Fresh
<1>3. QED
  BY <1>1, <1>2 DEF ProofPaysOnce

-----------------------------------------------------------------------------
\* The rolling cap.

\* Multiplication, which the provers meet with an unknown on both sides.
LEMMA Times ==
    ASSUME NEW a \in Nat, NEW m \in Nat, NEW n \in Nat
    PROVE  /\ a * m \in Nat /\ a * (m + 1) = a * m + a /\ a * m = m * a
           /\ m <= n => a * m <= a * n
<1>1. a * m \in Nat /\ a * (m + 1) = a * m + a /\ a * m = m * a
  BY SMTT(30)
<1>2. ASSUME m <= n PROVE a * m <= a * n
  <2>1. PICK k \in Nat : n = m + k
    <3>1. n - m \in Nat /\ n = m + (n - m)
      BY <1>2
    <3>2. QED
      BY <3>1
  <2>2. a * n = a * m + a * k /\ a * k \in Nat
    BY <2>1, SMTT(30)
  <2>3. QED
    BY <1>1, <2>2
<1>3. QED
  BY <1>1, <1>2

\* One payment under rule r, proved from the accumulator the vault holds.
LEMMA RateStep ==
    ASSUME ChainOK, NEW r \in Rules, NEW q \in Req, RateOf(r), q.va >= Window,
           Provable(r, accum[r], q.va, q.total),
           accum'[r] = Rolled(accum[r], q),
           tally'[r] = [sum |-> tally[r].sum + q.total,
                        first |-> IF tally[r].sum = 0 THEN q.va ELSE tally[r].first,
                        last |-> Max2(tally[r].last, q.va)]
    PROVE  RateOf(r)'
<1> DEFINE acc == accum[r]
           t == tally[r]
           cap == Cap[r]
<1>1. /\ acc.anchor \in Nat /\ acc.spent \in Nat
      /\ t.sum \in Nat /\ t.first \in Nat /\ t.last \in Nat
      /\ cap \in Nat
      /\ q.total \in Nat /\ q.total > 0 /\ q.va \in Nat
  BY Numbers DEF ChainOK, Acc, Req
<1>2. /\ tally'[r].sum = t.sum + q.total /\ tally'[r].last = Max2(t.last, q.va)
      /\ tally'[r].first = IF t.sum = 0 THEN q.va ELSE t.first
      /\ Max2(t.last, q.va) >= t.last /\ Max2(t.last, q.va) >= q.va
      /\ tally'[r].sum > 0 /\ tally'[r].sum # 0 /\ Max2(t.last, q.va) \in Nat
  BY <1>1 DEF Max2
<1>3. CASE Resets(acc, q.va)
  <2>1. /\ accum'[r].anchor = q.va /\ accum'[r].spent = q.total
        /\ q.total <= cap /\ acc.anchor + Window <= q.va
    BY <1>1, <1>3, Numbers DEF Resets, Rolled, Base, Provable
  <2>2. CASE t.sum = 0
    <3>1. Budgeted(r, 0)'
      BY <1>1, <1>2, <2>1, <2>2, Numbers DEF Budgeted
    <3>2. QED
      BY <1>1, <1>2, <2>1, <3>1 DEF RateOf
  <2>3. CASE t.sum > 0
    <3>1. PICK n \in Nat : Budgeted(r, n)
      BY <2>3 DEF RateOf
    <3>2. /\ cap * n \in Nat /\ cap * (n + 1) = cap * n + cap
          /\ n * Window \in Nat /\ (n + 1) * Window = n * Window + Window
      BY <1>1, Numbers, Times
    <3>3. /\ t.sum <= acc.spent + cap * n /\ acc.spent <= cap
          /\ t.first + n * Window <= acc.anchor
      BY <3>1 DEF Budgeted, RateOf
    <3>4. t.sum + q.total <= q.total + cap * (n + 1)
      BY <1>1, <3>2, <3>3
    <3>5. t.first + (n + 1) * Window <= q.va
      BY <1>1, <2>1, <3>2, <3>3, Numbers
    <3>6. Budgeted(r, n + 1)'
      BY <1>1, <1>2, <2>1, <2>3, <3>4, <3>5 DEF Budgeted
    <3>7. QED
      BY <1>1, <1>2, <2>1, <3>6 DEF RateOf
  <2>4. QED
    BY <1>1, <2>2, <2>3
<1>4. CASE ~Resets(acc, q.va)
  <2>1. /\ accum'[r].anchor = acc.anchor /\ accum'[r].spent = acc.spent + q.total
        /\ acc.spent + q.total <= cap
    BY <1>1, <1>4, Numbers DEF Resets, Rolled, Base, Provable
  <2>2. t.sum > 0
    <3>1. acc # NoSpend
      BY <1>1, <1>4, Numbers DEF Resets, NoSpend
    <3>2. QED
      BY <1>1, <3>1 DEF RateOf
  <2>3. PICK n \in Nat : Budgeted(r, n)
    BY <2>2 DEF RateOf
  <2>4. t.sum <= acc.spent + cap * n /\ t.first + n * Window <= acc.anchor /\ cap * n \in Nat
    BY <1>1, <2>3, Times DEF Budgeted
  <2>5. t.sum + q.total <= acc.spent + q.total + cap * n
    BY <1>1, <2>4
  <2>6. Budgeted(r, n)'
    BY <1>1, <1>2, <2>1, <2>2, <2>4, <2>5 DEF Budgeted
  <2>7. acc.anchor <= t.last
    BY <2>2 DEF RateOf
  <2>8. QED
    <3>1. accum'[r].spent <= cap /\ accum'[r].anchor <= tally'[r].last /\ tally'[r].sum # 0
      BY <1>1, <1>2, <2>1, <2>7
    <3>2. \E m \in Nat : Budgeted(r, m)'
      BY <2>6
    <3>3. QED
      BY <3>1, <3>2 DEF RateOf
<1>5. QED
  BY <1>3, <1>4

LEMMA OrdinaryRate ==
    ASSUME ChainOK, LiveInv, RateInv, Ordinary
    PROVE  RateInv'
<1> SUFFICES ASSUME NEW r \in Rules PROVE RateOf(r)'
  BY DEF RateInv
<1>1. RateOf(r)
  BY DEF RateInv
<1>2. ASSUME accum'[r] = accum[r], tally'[r] = tally[r] PROVE RateOf(r)'
  BY <1>1, <1>2 DEF RateOf, Budgeted
<1>3. CASE PaysOne
  <2>1. PICK q \in Live, rs \in SUBSET Rules : Payment(q, rs)
    BY <1>3 DEF PaysOne
  <2>2. q \in Req /\ Keeps(q)
    BY DEF LiveInv
  <2>3. CASE r \notin rs
    BY <1>2, <2>1, <2>3 DEF Payment, Roll
  <2>4. CASE r \in rs
    <3>1. Provable(r, accum[r], q.va, q.total) /\ q.va >= Window
      <4>1. r # None
        BY Numbers
      <4>2. QED
        BY <2>1, <2>2, <2>4, <4>1 DEF Payment, Keeps
    <3>2. /\ accum'[r] = Rolled(accum[r], q)
          /\ tally'[r] = [sum |-> tally[r].sum + q.total,
                          first |-> IF tally[r].sum = 0 THEN q.va ELSE tally[r].first,
                          last |-> Max2(tally[r].last, q.va)]
      BY <2>1, <2>4 DEF Payment, Roll
    <3>3. QED
      BY <1>1, <2>2, <3>1, <3>2, RateStep
  <2>5. QED
    BY <2>3, <2>4
<1>4. QED
  BY <1>2, <1>3 DEF Ordinary, PaysNothing

\* n full windows fit between the first payment and the last.
LEMMA RateIsBounded ==
    ASSUME ChainOK, RateInv
    PROVE  RateBounded
<1> SUFFICES ASSUME NEW r \in Rules, tally[r].sum > 0
             PROVE  tally[r].sum <=
                      Cap[r] * (1 + (tally[r].last - tally[r].first) \div Window)
  BY DEF RateBounded
<1> DEFINE t == tally[r]
           cap == Cap[r]
           d == t.last - t.first
           k == d \div Window
<1>1. /\ accum[r].anchor \in Nat /\ accum[r].spent \in Nat
      /\ t.sum \in Nat /\ t.first \in Nat /\ t.last \in Nat /\ cap \in Nat
  BY Numbers DEF ChainOK, Acc
<1>2. RateOf(r)
  BY DEF RateInv
<1>3. PICK n \in Nat : Budgeted(r, n)
  BY <1>2 DEF RateOf
<1>4. /\ t.sum <= accum[r].spent + cap * n /\ accum[r].spent <= cap
      /\ n * Window <= d /\ n * Window \in Nat /\ d \in Nat
  <2>1. n * Window \in Nat
    BY Numbers, Times
  <2>2. QED
    BY <1>1, <1>2, <1>3, <2>1 DEF RateOf, Budgeted
<1>5. k \in Nat /\ d < (k + 1) * Window
  BY <1>4, Numbers, SMTT(30)
<1>6. n <= k
  <2>1. SUFFICES ASSUME k + 1 <= n PROVE FALSE
    BY <1>5
  <2>2. Window * (k + 1) <= Window * n /\ Window * n = n * Window
        /\ Window * (k + 1) = (k + 1) * Window /\ Window * (k + 1) \in Nat
    BY <1>5, <2>1, Numbers, Times
  <2>3. QED
    BY <1>4, <1>5, <2>2
<1>7. cap * n <= cap * k /\ cap * (k + 1) = cap * k + cap /\ cap * k \in Nat /\ cap * n \in Nat
  BY <1>1, <1>5, <1>6, Times
<1>8. t.sum <= cap * (k + 1) /\ k + 1 = 1 + k
  BY <1>1, <1>4, <1>5, <1>7
<1>9. QED
  BY <1>8

-----------------------------------------------------------------------------
\* The pieces of a step.

\* A client only goes on.
Onward(b, c) ==
    \/ c.try > b.try
    \/ c.try = b.try /\ c.group > b.group
    \/ c.try = b.try /\ c.group = b.group /\ (b.at \in Past => c.at \in Past)

\* Client d, which is not waiting for a batch, becomes c.
Turns(d, c) ==
    /\ client' = [client EXCEPT ![d] = c]
    /\ ClientOK(d, c)
    /\ Onward(client[d], c)
    /\ client[d].at # "queued" /\ c.kind = client[d].kind
ClientMoved(d) == \E c : Turns(d, c)

LEMMA Turned ==
    ASSUME ClientsOK, NEW d \in Spends, NEW c, Turns(d, c)
    PROVE  /\ ClientsOK' /\ client'[d] = c /\ \A e \in Spends : e # d => client'[e] = client[e]
           /\ Forward
           /\ \A e \in Spends : client[e].at = "queued" => client'[e].at = "queued"
<1>1. client'[d] = c /\ \A e \in Spends : e # d => client'[e] = client[e]
  BY DEF ClientsOK, Turns
<1>2. ClientsOK'
  <2>1. client' = [e \in Spends |-> client'[e]]
    BY DEF ClientsOK, Turns
  <2>2. QED
    BY <1>1, <2>1 DEF ClientsOK, Turns
<1>3. ASSUME NEW i \in Ids, Behind(i) PROVE Behind(i)'
  <2>1. i[1] \in Spends /\ i[2] \in Nat /\ i[3] \in Nat
    BY IdShape
  <2>2. CASE i[1] # d
    BY <1>1, <1>3, <2>1, <2>2 DEF Behind
  <2>3. CASE i[1] = d
    <3>1. /\ client[d].group \in Nat /\ client[d].try \in Nat
          /\ c.group \in Nat /\ c.try \in Nat
      BY DEF ClientsOK, ClientOK, Turns, ClientRec
    <3>2. QED
      BY <1>1, <1>3, <2>1, <2>3, <3>1 DEF Behind, Turns, Onward
  <2>4. QED
    BY <2>2, <2>3
<1>4. QED
  BY <1>1, <1>2, <1>3 DEF Forward, Turns

\* The clients and the workers when only they move.
LEMMA WorkersStay ==
    ASSUME WorkersOK, UNCHANGED <<job, run>>,
           \A e \in Spends : client[e].at = "queued" => client'[e].at = "queued"
    PROVE  WorkersOK'
  BY DEF WorkersOK, JobOK, RunOK

LEMMA LiveStays ==
    ASSUME \A tx \in flight' : tx.q \in Live,
           \A e \in Spends : client'[e].at \in Posted => client'[e].q \in Live
    PROVE  Live' \subseteq Live
  BY DEF Live

\* Whoever is in flight or posted is live.
LEMMA LiveSources ==
    /\ \A tx \in flight : tx.q \in Live
    /\ \A e \in Spends : client[e].at \in Posted => client[e].q \in Live
  BY DEF Live

\* Client d turns into c, which posts nothing new.
LEMMA ClientTurns ==
    ASSUME TypeInv, NEW d \in Spends, NEW c, Turns(d, c),
           c.at \in Posted => client[d].at \in Posted /\ c.q = client[d].q,
           UNCHANGED <<job, run>>, \A tx \in flight' : tx.q \in Live
    PROVE  ClientsOK' /\ WorkersOK' /\ Live' \subseteq Live /\ Forward
<1>1. /\ ClientsOK' /\ client'[d] = c /\ \A e \in Spends : e # d => client'[e] = client[e]
      /\ Forward
      /\ \A e \in Spends : client[e].at = "queued" => client'[e].at = "queued"
  BY Turned DEF TypeInv
<1>2. WorkersOK'
  BY <1>1, WorkersStay DEF TypeInv
<1>3. \A e \in Spends : client'[e].at \in Posted => client'[e].q \in Live
  BY <1>1, LiveSources
<1>4. QED
  BY <1>1, <1>2, <1>3, LiveStays

\* The clients stay where they are.
LEMMA ClientsStay ==
    ASSUME ClientsOK, UNCHANGED client, \A tx \in flight' : tx.q \in Live
    PROVE  ClientsOK' /\ Live' \subseteq Live /\ Forward
<1>1. ClientsOK'
  BY DEF ClientsOK
<1>2. \A e \in Spends : client'[e].at \in Posted => client'[e].q \in Live
  BY LiveSources
<1>3. Forward
  BY DEF Forward, Behind
<1>4. QED
  BY <1>1, <1>2, <1>3, LiveStays

\* A job whose state and holder are rewritten together.
LEMMA JobUpdated ==
    ASSUME NEW j, NEW x, NEW y, j = [state |-> j.state, by |-> j.by, stalls |-> j.stalls]
    PROVE  [j EXCEPT !.state = x, !.by = y] = [state |-> x, by |-> y, stalls |-> j.stalls]
<1>1. PICK b, e : b = j.by /\ e = j.stalls
  OBVIOUS
<1>2. [j EXCEPT !.state = x] = [state |-> x, by |-> b, stalls |-> e]
  BY <1>1
<1>3. [[state |-> x, by |-> b, stalls |-> e] EXCEPT !.by = y] = [state |-> x, by |-> y, stalls |-> e]
  OBVIOUS
<1>4. QED
  BY <1>1, <1>2, <1>3

\* At most one job and one execution move.
JobTurns ==
    \/ job' = job
    \/ \E d \in Spends : \E j : JobOK(d, j) /\ job' = [job EXCEPT ![d] = j]
RunTurns ==
    \/ run' = run
    \/ \E w \in Workers : \E r : RunOK(r) /\ run' = [run EXCEPT ![w] = r]

LEMMA WorkersTurn ==
    ASSUME WorkersOK, UNCHANGED client, JobTurns, RunTurns
    PROVE  WorkersOK'
<1>1. /\ job' = [x \in Spends |-> job'[x]]
      /\ (\A x \in Spends : JobOK(x, job[x]))'
  <2>1. CASE job' = job
    BY <2>1 DEF WorkersOK, JobOK
  <2>2. ASSUME NEW d \in Spends, NEW j, JobOK(d, j), job' = [job EXCEPT ![d] = j]
        PROVE  /\ job' = [x \in Spends |-> job'[x]]
               /\ (\A x \in Spends : JobOK(x, job[x]))'
    <3>1. job' = [x \in Spends |-> job'[x]] /\ job'[d] = j
          /\ \A x \in Spends : x # d => job'[x] = job[x]
      BY <2>2 DEF WorkersOK
    <3>2. (\A x \in Spends : JobOK(x, job[x]))'
      BY <2>2, <3>1 DEF WorkersOK, JobOK
    <3>3. QED
      BY <3>1, <3>2
  <2>3. QED
    BY <2>1, <2>2 DEF JobTurns
<1>2. /\ run' = [x \in Workers |-> run'[x]]
      /\ (\A x \in Workers : RunOK(run[x]))'
  <2>1. CASE run' = run
    BY <2>1 DEF WorkersOK, RunOK
  <2>2. ASSUME NEW w \in Workers, NEW r, RunOK(r), run' = [run EXCEPT ![w] = r]
        PROVE  /\ run' = [x \in Workers |-> run'[x]]
               /\ (\A x \in Workers : RunOK(run[x]))'
    <3>1. run' = [x \in Workers |-> run'[x]] /\ run'[w] = r
          /\ \A x \in Workers : x # w => run'[x] = run[x]
      BY <2>2 DEF WorkersOK
    <3>2. (\A x \in Workers : RunOK(run[x]))'
      BY <2>2, <3>1 DEF WorkersOK, RunOK
    <3>3. QED
      BY <3>1, <3>2
  <2>3. QED
    BY <2>1, <2>2 DEF RunTurns
<1>3. QED
  BY <1>1, <1>2 DEF WorkersOK

-----------------------------------------------------------------------------
\* The pieces of the network: what is sent, lands, fails or is left behind.

NetStep ==
    /\ FlightOK' /\ \A tx \in flight' : tx.q \in Live
    /\ PaysNothing \/ PaysOne

LEMMA SubmitNet ==
    ASSUME FlightOK, NEW tx, TxOK(tx), tx.q \in Live, Submit(tx)
    PROVE  NetStep
<1>1. flight' = flight \cup {tx} /\ PaysNothing
  BY DEF Submit, chainVars, PaysNothing
<1>2. QED
  BY <1>1, LiveSources DEF NetStep, FlightOK, TxOK

LEMMA QuietNet ==
    ASSUME FlightOK, flight' \subseteq flight, PaysNothing
    PROVE  NetStep
BY LiveSources DEF NetStep, FlightOK, TxOK

LEMMA AbandonNet ==
    ASSUME FlightOK, NEW w, flight' = Abandon(w), PaysNothing
    PROVE  NetStep
<1>1. ASSUME NEW tx \in flight' PROVE TxOK(tx) /\ tx.q \in Live
  <2>1. CASE tx \in flight
    BY <2>1, LiveSources DEF FlightOK
  <2>2. ASSUME NEW t \in Waiting(w), tx = [t EXCEPT !.by = None]
        PROVE  TxOK(tx) /\ tx.q \in Live
    <3>1. t \in flight /\ t = [op |-> t.op, by |-> t.by, task |-> t.task, q |-> t.q]
      BY DEF Waiting, FlightOK, TxOK
    <3>2. tx = [op |-> t.op, by |-> None, task |-> t.task, q |-> t.q]
      BY <2>2, <3>1
    <3>3. QED
      BY <3>1, <3>2, LiveSources DEF TxOK
  <2>3. QED
    BY <2>1, <2>2 DEF Abandon
<1>2. QED
  BY <1>1 DEF NetStep, FlightOK, TxOK

\* A call that passes the vault's checks pays at most the request it carries.
LEMMA AppliesOne ==
    ASSUME ChainOK, LiveInv, NEW tx, tx.q \in Live, Accepts(tx), Apply(tx)
    PROVE  PaysNothing \/ PaysOne
<1> DEFINE q == tx.q
<1>0. q \in Req /\ q.rule \in Rules
  BY DEF LiveInv, Req
<1>1. CASE tx.op = "keyless"
  <2>1. KeylessAccepts(q) /\ PayKeyless(q)
    BY <1>1 DEF Accepts, Apply
  <2>2. PICK rs : rs = {q.rule} \cup ({global} \ {None})
    OBVIOUS
  <2>3. rs \in SUBSET Rules
    BY <1>0, <2>2 DEF ChainOK, RuleOrNone
  <2>4. InWindow(q) /\ Fresh({<<q.rule, q.id>>})
    BY <2>1 DEF KeylessAccepts, Nullifiers
  <2>5. ASSUME NEW r \in rs
        PROVE  (r = q.rule /\ accum[r] = q.acc) \/ (r = q.glob /\ accum[r] = q.gacc)
    BY <2>1, <2>2 DEF KeylessAccepts, GlobalAccepts, Verified
  <2>6. Consume(Nullifiers(q, rs)) /\ Roll(q, rs)
    BY <2>1, <2>2 DEF PayKeyless
  <2>7. Payment(q, rs)
    BY <2>2, <2>3, <2>4, <2>5, <2>6 DEF Payment
  <2>8. QED
    BY <2>3, <2>7 DEF PaysOne
<1>2. CASE tx.op = "release"
  <2>1. BatchAccepts(tx.task, q) /\ PayBatch(tx.task, q)
    BY <1>2 DEF Accepts, Apply
  <2>2. InWindow(q) /\ Fresh({<<q.rule, q.id>>}) /\ accum[q.rule] = q.acc
    BY <2>1 DEF BatchAccepts, Nullifiers, Verified
  <2>3. Consume(Nullifiers(q, {q.rule})) /\ Roll(q, {q.rule})
    BY <2>1 DEF PayBatch
  <2>4. Payment(q, {q.rule}) /\ {q.rule} \in SUBSET Rules
    BY <1>0, <2>2, <2>3 DEF Payment
  <2>5. QED
    BY <2>4 DEF PaysOne
<1>3. CASE tx.op = "lock"
  BY <1>3 DEF Apply, LockBudget, PaysNothing
<1>4. CASE tx.op = "complete"
  BY <1>4 DEF Apply, CompleteTask, PaysNothing
<1>5. QED
  BY <1>1, <1>2, <1>3, <1>4 DEF Apply

LEMMA LandsNet ==
    ASSUME ChainOK, LiveInv, FlightOK, NEW w, Lands(w)
    PROVE  NetStep
<1>1. PICK tx \in Waiting(w) : Accepts(tx) /\ Apply(tx) /\ flight' = flight \ SameSigner(tx)
  BY DEF Lands
<1>2. PaysNothing \/ PaysOne
  BY <1>1, AppliesOne, LiveSources DEF Waiting
<1>3. QED
  BY <1>1, <1>2, LiveSources DEF NetStep, FlightOK, TxOK

LEMMA FailsNet ==
    ASSUME FlightOK, NEW w, FailsOnChain(w)
    PROVE  NetStep
<1>1. flight' \subseteq flight /\ PaysNothing
  BY DEF FailsOnChain, chainVars, PaysNothing
<1>2. QED
  BY <1>1, QuietNet

LEMMA GivesUpNet ==
    ASSUME FlightOK, NEW w, GivesUp(w)
    PROVE  NetStep
BY AbandonNet DEF GivesUp, chainVars, PaysNothing

\* A step of the clients or of the workers.
Step ==
    /\ TypeInv'
    /\ Ordinary \/ Tick \/ \E q : Gains(q)

LEMMA StepMade ==
    ASSUME TypeInv, LiveInv, NetStep, now' = now, pinned' \subseteq Rules, global' \in RuleOrNone,
           ClientsOK', WorkersOK', Live' \subseteq Live, Forward
    PROVE  Step
<1>1. Ordinary
  BY DEF NetStep, Ordinary
<1>2. ChainOK'
  BY <1>1, OrdinaryChain DEF TypeInv
<1>3. QED
  BY <1>1, <1>2 DEF Step, TypeInv, NetStep

-----------------------------------------------------------------------------
\* The clients, action by action.

\* A client's move on the network, and what it leaves alone.
LEMMA ClientStepMade ==
    ASSUME TypeInv, LiveInv, NetStep, UNCHANGED <<now, ownerVars, workerVars>>,
           NEW d \in Spends, NEW c, Turns(d, c),
           c.at \in Posted => client[d].at \in Posted /\ c.q = client[d].q
    PROVE  Step /\ ClientMoved(d)
<1>1. UNCHANGED <<job, run, pinned, global>> /\ now' = now
  BY DEF ownerVars, workerVars
<1>2. ClientsOK' /\ WorkersOK' /\ Live' \subseteq Live /\ Forward
  BY <1>1, ClientTurns DEF NetStep
<1>3. pinned' \subseteq Rules /\ global' \in RuleOrNone
  BY <1>1 DEF TypeInv, ChainOK
<1>4. QED
  BY <1>1, <1>2, <1>3, StepMade DEF ClientMoved

LEMMA ClientOnlyMade ==
    ASSUME TypeInv, LiveInv, UNCHANGED clientOnly, NEW d \in Spends, NEW c, Turns(d, c),
           c.at \in Posted => client[d].at \in Posted /\ c.q = client[d].q
    PROVE  Step /\ ClientMoved(d)
<1>1. NetStep /\ UNCHANGED <<now, ownerVars, workerVars>>
  BY QuietNet DEF clientOnly, chainVars, PaysNothing, TypeInv
<1>2. QED
  BY <1>1, ClientStepMade

LEMMA ClientFacts ==
    ASSUME TypeInv, NEW d \in Spends
    PROVE  /\ ClientOK(d, client[d]) /\ client[d] \in ClientRec
           /\ client[d].rule \in Rules /\ client[d].glob \in RuleOrNone
           /\ client[d].acc \in Acc /\ client[d].gacc \in Acc
           /\ client[d].group \in Nat /\ client[d].try \in Nat /\ client[d].va \in Nat
           /\ DOMAIN client = Spends
BY DEF TypeInv, ClientsOK, ClientOK, ClientRec

LEMMA EndedTurns ==
    ASSUME TypeInv, NEW d \in Spends, NEW place \in {"done", "failed"}, Ended(d, place),
           client[d].at # "queued"
    PROVE  \E c : Turns(d, c) /\ c.at \notin Posted
<1> DEFINE c == [client[d] EXCEPT !.at = place, !.acc = NoSpend, !.gacc = NoSpend,
                                  !.va = 0, !.q = NoRequest]
<1>1. client' = [client EXCEPT ![d] = c]
  BY ClientFacts DEF Ended
<1>2. c \in ClientRec /\ c.at = place /\ c.q = NoRequest /\ c.va = 0
      /\ c.group = client[d].group /\ c.try = client[d].try /\ c.kind = client[d].kind
  BY ClientFacts DEF ClientRec, Acc, NoSpend, Places
<1>3. ClientOK(d, c)
  BY <1>2, ClientFacts DEF ClientOK, Posted
<1>4. Onward(client[d], c)
  BY <1>2 DEF Onward, Past
<1>5. QED
  BY <1>1, <1>2, <1>3, <1>4 DEF Turns, Posted

LEMMA ReadGlobalsStep ==
    ASSUME TypeInv, LiveInv, NEW d \in Spends, ReadGlobals(d)
    PROVE  Step /\ ClientMoved(d)
<1> DEFINE c == [client[d] EXCEPT !.glob = global, !.at = "read"]
<1>1. client' = [client EXCEPT ![d] = c] /\ client[d].at = "start"
  BY ClientFacts DEF ReadGlobals, At
<1>2. c \in ClientRec /\ c.at = "read" /\ c.q = client[d].q /\ c.va = client[d].va
      /\ c.group = client[d].group /\ c.try = client[d].try /\ c.kind = client[d].kind
  BY ClientFacts DEF ClientRec, Places, TypeInv, ChainOK
<1>3. ClientOK(d, c)
  BY <1>1, <1>2, ClientFacts DEF ClientOK, Posted
<1>4. Turns(d, c)
  BY <1>1, <1>2, <1>3 DEF Turns, Onward, Past, Posted
<1>5. QED
  BY <1>2, <1>4, ClientOnlyMade DEF ReadGlobals, Posted

LEMMA ReadAccumulatorStep ==
    ASSUME TypeInv, LiveInv, NEW d \in Spends, ReadAccumulator(d)
    PROVE  Step /\ ClientMoved(d)
<1> DEFINE b == client[d]
           next == [b EXCEPT !.acc = accum[b.rule],
                             !.va = IF b.va = 0 /\ b.kind = "sdk" THEN now ELSE b.va,
                             !.at = AfterRead(d)]
<1>1. UNCHANGED clientOnly /\ b.at = "read"
  BY DEF ReadAccumulator, At
<1>2. CASE b.kind = "sdk" /\ b.rule \notin pinned
  <2>1. Ended(d, "failed")
    BY <1>2 DEF ReadAccumulator
  <2>2. PICK c : Turns(d, c) /\ c.at \notin Posted
    BY <1>1, <2>1, EndedTurns
  <2>3. QED
    BY <1>1, <2>2, ClientOnlyMade
<1>3. CASE ~(b.kind = "sdk" /\ b.rule \notin pinned)
  <2>1. client' = [client EXCEPT ![d] = next]
    BY <1>3, ClientFacts DEF ReadAccumulator
  <2>2. accum[b.rule] \in Acc /\ now \in Nat /\ now >= Window /\ AfterRead(d) \in Places
    BY ClientFacts DEF TypeInv, ChainOK, AfterRead, Places
  <2>3. /\ next \in ClientRec /\ next.at = AfterRead(d) /\ next.q = b.q
        /\ next.va = IF b.va = 0 /\ b.kind = "sdk" THEN now ELSE b.va
        /\ next.group = b.group /\ next.try = b.try /\ next.kind = b.kind
        /\ next.glob = b.glob
    BY <2>2, ClientFacts DEF ClientRec
  <2>4. ClientOK(d, next)
    BY <1>1, <2>2, <2>3, ClientFacts, Numbers DEF ClientOK, Posted, AfterRead
  <2>5. Turns(d, next) /\ next.at \notin Posted
    BY <1>1, <2>1, <2>3, <2>4 DEF Turns, Onward, Past, Posted, AfterRead
  <2>6. QED
    BY <1>1, <2>5, ClientOnlyMade
<1>4. QED
  BY <1>2, <1>3

LEMMA ReadFailsStep ==
    ASSUME TypeInv, LiveInv, NEW d \in Spends, ReadFails(d)
    PROVE  Step /\ ClientMoved(d)
<1>1. PICK place \in {"readGlobal", "prove"} :
        /\ Goto(d, place) /\ client[d].at \in {"read", "readGlobal"}
        /\ place = "readGlobal" => client[d].glob # None
  BY DEF ReadFails, At, AfterRead
<1> DEFINE c == [client[d] EXCEPT !.at = place]
<1>2. client' = [client EXCEPT ![d] = c]
  BY <1>1, ClientFacts DEF Goto
<1>3. /\ c \in ClientRec /\ c.at = place /\ c.q = client[d].q /\ c.va = client[d].va
      /\ c.group = client[d].group /\ c.try = client[d].try /\ c.kind = client[d].kind
      /\ c.glob = client[d].glob
  BY ClientFacts DEF ClientRec, Places
<1>4. client[d].kind = "web"
  BY DEF ReadFails
<1>5. ClientOK(d, c)
  BY <1>1, <1>3, <1>4, ClientFacts DEF ClientOK, Posted
<1>6. Turns(d, c) /\ c.at \notin Posted
  BY <1>1, <1>2, <1>3, <1>5 DEF Turns, Onward, Past, Posted
<1>7. QED
  <2>1. UNCHANGED clientOnly
    BY DEF ReadFails
  <2>2. QED
    BY <1>6, <2>1, ClientOnlyMade

LEMMA ReadGlobalAccumulatorStep ==
    ASSUME TypeInv, LiveInv, NEW d \in Spends, ReadGlobalAccumulator(d)
    PROVE  Step /\ ClientMoved(d)
<1> DEFINE b == client[d]
           c == [b EXCEPT !.gacc = accum[b.glob], !.at = "prove"]
<1>1. client' = [client EXCEPT ![d] = c] /\ b.at = "readGlobal"
  BY ClientFacts DEF ReadGlobalAccumulator, At
<1>2. accum[b.glob] \in Acc
  BY <1>1, ClientFacts DEF ClientOK, RuleOrNone, TypeInv, ChainOK
<1>3. /\ c \in ClientRec /\ c.at = "prove" /\ c.q = b.q /\ c.va = b.va
      /\ c.group = b.group /\ c.try = b.try /\ c.kind = b.kind
  BY <1>2, ClientFacts DEF ClientRec, Places
<1>4. ClientOK(d, c)
  BY <1>1, <1>3, ClientFacts DEF ClientOK, Posted
<1>5. Turns(d, c)
  BY <1>1, <1>3, <1>4 DEF Turns, Onward, Past, Posted
<1>6. QED
  BY <1>3, <1>5, ClientOnlyMade DEF ReadGlobalAccumulator, Posted

LEMMA TryAgainStep ==
    ASSUME TypeInv, LiveInv, NEW d \in Spends, TryAgain(d)
    PROVE  Step /\ ClientMoved(d)
<1> DEFINE b == client[d]
           c == [b EXCEPT !.try = b.try + 1, !.group = 1, !.at = First(b.kind)]
<1>1. /\ client' = [client EXCEPT ![d] = c] /\ b.at = "failed"
      /\ b.try < Tries[d] /\ First(b.kind) \in {"start", "read"} /\ b.kind # "job"
  BY ClientFacts DEF TryAgain, At, First
<1>2. /\ c \in ClientRec /\ c.at = First(b.kind) /\ c.q = b.q /\ c.va = b.va
      /\ c.group = 1 /\ c.try = b.try + 1 /\ c.kind = b.kind
  <2>1. b.try + 1 \in Nat \ {0} /\ 1 \in Nat \ {0} /\ First(b.kind) \in Places
    BY <1>1, ClientFacts DEF Places
  <2>2. QED
    BY <2>1, ClientFacts DEF ClientRec
<1>3. 1 \in 1..Len(Groups[d]) /\ Tries[d] \in Nat
  <2>1. b.group \in 1..Len(Groups[d]) /\ Groups[d] \in Seq(Nat \ {0})
    BY ClientFacts, PrivateAssumption DEF ClientOK
  <2>2. QED
    BY <2>1, PrivateAssumption
<1>4. ClientOK(d, c)
  BY <1>1, <1>2, <1>3, ClientFacts DEF ClientOK, Posted
<1>5. Turns(d, c) /\ c.at \notin Posted
  BY <1>1, <1>2, <1>4, ClientFacts DEF Turns, Onward, Posted
<1>6. QED
  BY <1>5, ClientOnlyMade DEF TryAgain

\* Places a posted request goes through, the request in hand.
LEMMA PostedTurns ==
    ASSUME TypeInv, NEW d \in Spends, NEW place \in {"sent", "queued"}, Goto(d, place),
           client[d].at = "post", place = "queued" <=> client[d].kind = "job"
    PROVE  \E c : Turns(d, c) /\ c.at = place /\ c.q = client[d].q
<1> DEFINE c == [client[d] EXCEPT !.at = place]
<1>1. client' = [client EXCEPT ![d] = c]
  BY ClientFacts DEF Goto
<1>2. /\ c \in ClientRec /\ c.at = place /\ c.q = client[d].q /\ c.va = client[d].va
      /\ c.group = client[d].group /\ c.try = client[d].try /\ c.kind = client[d].kind
  BY ClientFacts DEF ClientRec, Places
<1>3. ClientOK(d, c)
  BY <1>2, ClientFacts DEF ClientOK, Posted
<1>4. Turns(d, c)
  BY <1>1, <1>2, <1>3 DEF Turns, Onward, Past, Posted
<1>5. QED
  BY <1>2, <1>4

LEMMA RelayStep ==
    ASSUME TypeInv, LiveInv, NEW d \in Spends, Relay(d)
    PROVE  Step /\ ClientMoved(d)
<1>1. client[d].at = "post" /\ client[d].kind # "job" /\ UNCHANGED <<now, ownerVars, workerVars>>
  BY DEF Relay, At
<1>2. CASE Submit(KeylessTx(d)) /\ Goto(d, "sent")
  <2>1. KeylessTx(d).q \in Live /\ TxOK(KeylessTx(d))
    BY <1>1, LiveSources DEF KeylessTx, TxOK, Posted
  <2>2. NetStep
    BY <1>2, <2>1, SubmitNet DEF TypeInv
  <2>3. PICK c : Turns(d, c) /\ c.at = "sent" /\ c.q = client[d].q
    BY <1>1, <1>2, PostedTurns
  <2>4. QED
    BY <1>1, <2>2, <2>3, ClientStepMade DEF Posted
<1>3. CASE Refused(KeylessTx(d)) /\ Ended(d, "failed")
  <2>1. NetStep
    BY <1>3, QuietNet DEF Refused, chainVars, PaysNothing, TypeInv
  <2>2. PICK c : Turns(d, c) /\ c.at \notin Posted
    BY <1>1, <1>3, EndedTurns
  <2>3. QED
    BY <1>1, <2>1, <2>2, ClientStepMade
<1>4. QED
  BY <1>2, <1>3 DEF Relay

LEMMA AdvancedTurns ==
    ASSUME TypeInv, NEW d \in Spends, Advanced(d), client[d].at = "sent"
    PROVE  \E c : Turns(d, c) /\ c.at \notin Posted
<1> DEFINE b == client[d]
           c == [b EXCEPT !.group = b.group + 1, !.at = "prove", !.q = NoRequest,
                          !.acc = Rolled(b.acc, b.q),
                          !.gacc = IF b.glob = None THEN b.gacc ELSE Rolled(b.gacc, b.q)]
<1>1. CASE b.group < Len(Groups[d])
  <2>1. client' = [client EXCEPT ![d] = c]
    BY <1>1, ClientFacts DEF Advanced
  <2>2. Rolled(b.acc, b.q) \in Acc /\ Rolled(b.gacc, b.q) \in Acc
    BY ClientFacts, RolledType DEF ClientOK, Posted
  <2>3. /\ c \in ClientRec /\ c.at = "prove" /\ c.q = NoRequest /\ c.va = b.va
        /\ c.group = b.group + 1 /\ c.try = b.try /\ c.kind = b.kind
    <3>1. b.group + 1 \in Nat \ {0} /\ "prove" \in Places
      BY ClientFacts DEF Places
    <3>2. QED
      BY <2>2, <3>1, ClientFacts DEF ClientRec
  <2>4. c.group \in 1..Len(Groups[d])
    <3>1. Groups[d] \in Seq(Nat \ {0})
      BY PrivateAssumption
    <3>2. QED
      BY <1>1, <2>3, <3>1, ClientFacts
  <2>5. ClientOK(d, c)
    BY <2>3, <2>4, ClientFacts DEF ClientOK, Posted
  <2>6. Turns(d, c) /\ c.at \notin Posted
    BY <2>1, <2>3, <2>5, ClientFacts DEF Turns, Onward, Posted
  <2>7. QED
    BY <2>6
<1>2. CASE ~(b.group < Len(Groups[d]))
  BY <1>2, EndedTurns DEF Advanced
<1>3. QED
  BY <1>1, <1>2

LEMMA ReplyStep ==
    ASSUME TypeInv, LiveInv, NEW d \in Spends,
           ReplyPaid(d) \/ ReplyFailed(d) \/ ReplyTimesOut(d)
    PROVE  Step /\ ClientMoved(d)
<1>1. /\ client[d].at = "sent" /\ UNCHANGED <<now, ownerVars, workerVars>>
      /\ Lands(d) \/ FailsOnChain(d) \/ GivesUp(d)
      /\ Advanced(d) \/ Ended(d, "failed")
  BY DEF ReplyPaid, ReplyFailed, ReplyTimesOut, At
<1>2. NetStep
  BY <1>1, LandsNet, FailsNet, GivesUpNet DEF TypeInv
<1>3. PICK c : Turns(d, c) /\ c.at \notin Posted
  BY <1>1, AdvancedTurns, EndedTurns
<1>4. QED
  BY <1>1, <1>2, <1>3, ClientStepMade

LEMMA ProveStep ==
    ASSUME TypeInv, LiveInv, NEW d \in Spends, Prove(d)
    PROVE  Step /\ ClientMoved(d)
<1> DEFINE b == client[d]
           va == IF b.kind = "sdk" THEN b.va ELSE now
           keeps == /\ Provable(b.rule, b.acc, va, Total(d))
                    /\ b.glob # None => Provable(b.glob, b.gacc, va, Total(d))
<1>1. UNCHANGED clientOnly /\ b.at = "prove"
  BY DEF Prove, At
<1>2. CASE ~keeps
  <2>1. Ended(d, "failed")
    BY <1>2 DEF Prove
  <2>2. PICK c : Turns(d, c) /\ c.at \notin Posted
    BY <1>1, <2>1, EndedTurns
  <2>3. QED
    BY <1>1, <2>2, ClientOnlyMade
<1>3. CASE keeps
  <2>1. PICK span \in Spans :
          client' = [client EXCEPT ![d].at = "post",
                       ![d].q = [id |-> <<d, b.group, b.try>>, total |-> Total(d),
                                 va |-> va, vb |-> va + span, rule |-> b.rule, acc |-> b.acc,
                                 glob |-> b.glob, gacc |-> b.gacc]]
    BY <1>3 DEF Prove
  <2>0. PICK q : q = [id |-> <<d, b.group, b.try>>, total |-> Total(d),
                      va |-> va, vb |-> va + span, rule |-> b.rule, acc |-> b.acc,
                      glob |-> b.glob, gacc |-> b.gacc]
    OBVIOUS
  <2> DEFINE c == [b EXCEPT !.at = "post", !.q = q]
  <2>2. client' = [client EXCEPT ![d] = c]
    BY <2>0, <2>1, ClientFacts
  <2>3. va \in Nat /\ va >= Window /\ va + span \in Nat
    <3>1. span \in Nat
      BY PrivateAssumption
    <3>2. now \in Nat /\ now >= Window
      BY DEF TypeInv, ChainOK
    <3>3. b.kind = "sdk" => b.va >= Window
      BY <1>1, ClientFacts DEF ClientOK
    <3>4. QED
      BY <3>1, <3>2, <3>3, ClientFacts
  <2>4. Total(d) \in Nat \ {0}
    <3>1. Groups[d] \in Seq(Nat \ {0}) /\ b.group \in 1..Len(Groups[d])
      BY ClientFacts, PrivateAssumption DEF ClientOK
    <3>2. QED
      BY <3>1 DEF Total
  <2>5. <<d, b.group, b.try>> \in Ids
    BY ClientFacts, IdMade DEF ClientOK
  <2>6. q \in Req /\ q.id = <<d, b.group, b.try>>
    BY <2>0, <2>3, <2>4, <2>5, ClientFacts DEF Req
  <2>7. Keeps(q)
    <3>1. q.id[1] = d /\ q.id[2] = b.group
      BY <2>6
    <3>2. q.total = Groups[q.id[1]][q.id[2]]
      BY <2>0, <3>1 DEF Total
    <3>3. QED
      BY <1>3, <2>0, <2>3, <3>2 DEF Keeps
  <2>8. /\ c \in ClientRec /\ c.at = "post" /\ c.q = q /\ c.va = b.va
        /\ c.group = b.group /\ c.try = b.try /\ c.kind = b.kind
    BY <2>6, ClientFacts DEF ClientRec, Places
  <2>9. ClientOK(d, c)
    BY <1>1, <2>6, <2>8, ClientFacts DEF ClientOK, Posted
  <2>10. Turns(d, c)
    BY <1>1, <2>2, <2>8, <2>9 DEF Turns, Onward, Past, Posted
  <2>11. /\ ClientsOK' /\ client'[d] = c /\ \A e \in Spends : e # d => client'[e] = client[e]
         /\ Forward
         /\ \A e \in Spends : client[e].at = "queued" => client'[e].at = "queued"
    BY <2>10, Turned DEF TypeInv
  <2>12. /\ now' = now /\ PaysNothing /\ flight' = flight
         /\ UNCHANGED <<job, run, pinned, global>>
    BY <1>1 DEF clientOnly, chainVars, ownerVars, workerVars, PaysNothing
  <2>13. Live' \subseteq Live \cup {q}
    <3>1. ASSUME NEW e \in Spends, client'[e].at \in Posted
          PROVE  client'[e].q \in Live \cup {q}
      BY <2>8, <2>11, <3>1, LiveSources
    <3>2. QED
      BY <2>12, <3>1, LiveSources DEF Live
  <2>14. ~Behind(q.id) /\ Behind(q.id)'
    <3>1. /\ q.id[1] = d /\ q.id[2] = b.group /\ q.id[3] = b.try
          /\ b.group \in Nat /\ b.try \in Nat /\ b.at \notin Past /\ c.at \in Past
      BY <1>1, <2>6, <2>8, ClientFacts DEF Past, Posted
    <3>2. client'[q.id[1]] = c /\ client[q.id[1]] = b
      BY <2>11, <3>1
    <3>3. ~Behind(q.id)
      BY <3>1, <3>2 DEF Behind
    <3>4. Behind(q.id)'
      BY <2>8, <3>1, <3>2 DEF Behind
    <3>5. QED
      BY <3>3, <3>4
  <2>15. Gains(q)
    BY <2>6, <2>7, <2>11, <2>12, <2>13, <2>14 DEF Gains
  <2>16. WorkersOK'
    BY <2>11, <2>12, WorkersStay DEF TypeInv
  <2>17. ChainOK' /\ FlightOK'
    BY <2>12 DEF TypeInv, ChainOK, PaysNothing, FlightOK, TxOK
  <2>18. QED
    BY <2>10, <2>11, <2>15, <2>16, <2>17 DEF Step, TypeInv, ClientMoved
<1>4. QED
  BY <1>2, <1>3

LEMMA EnqueueStep ==
    ASSUME TypeInv, LiveInv, NEW d \in Spends, Enqueue(d)
    PROVE  Step /\ ClientMoved(d)
<1>1. /\ client[d].at = "post" /\ client[d].kind = "job" /\ Goto(d, "queued")
      /\ job' = [job EXCEPT ![d].state = "waiting"]
      /\ run' = run /\ flight' = flight /\ now' = now /\ PaysNothing
      /\ UNCHANGED <<pinned, global>>
  BY DEF Enqueue, At, chainVars, ownerVars, PaysNothing
<1>2. PICK c : Turns(d, c) /\ c.at = "queued" /\ c.q = client[d].q
  BY <1>1, PostedTurns
<1>3. /\ ClientsOK' /\ client'[d] = c /\ \A e \in Spends : e # d => client'[e] = client[e]
      /\ Forward
      /\ \A e \in Spends : client[e].at = "queued" => client'[e].at = "queued"
  BY <1>2, Turned DEF TypeInv
<1>4. WorkersOK'
  <2>1. /\ job' = [e \in Spends |-> job'[e]]
        /\ job'[d] = [job[d] EXCEPT !.state = "waiting"]
        /\ \A e \in Spends : e # d => job'[e] = job[e]
    BY <1>1 DEF TypeInv, WorkersOK
  <2>2. job'[d] = [state |-> "waiting", by |-> job[d].by, stalls |-> job[d].stalls]
    BY <2>1 DEF TypeInv, WorkersOK, JobOK
  <2>3. (\A e \in Spends : JobOK(e, job[e]))'
    BY <1>2, <1>3, <2>1, <2>2 DEF TypeInv, WorkersOK, JobOK
  <2>4. QED
    BY <1>1, <1>3, <2>1, <2>3 DEF TypeInv, WorkersOK, RunOK
<1>5. Live' \subseteq Live
  <2>1. \A e \in Spends : client'[e].at \in Posted => client'[e].q \in Live
    BY <1>1, <1>2, <1>3, LiveSources DEF Posted
  <2>2. QED
    BY <1>1, <2>1, LiveSources, LiveStays
<1>6. NetStep
  BY <1>1, QuietNet DEF TypeInv
<1>7. QED
  BY <1>1, <1>2, <1>3, <1>4, <1>5, <1>6, StepMade DEF TypeInv, ChainOK, ClientMoved

-----------------------------------------------------------------------------
\* The workers, action by action.

LEMMA WorkerStepMade ==
    ASSUME TypeInv, LiveInv, NetStep, UNCHANGED <<now, ownerVars, client>>, JobTurns, RunTurns
    PROVE  Step
<1>1. ClientsOK' /\ Live' \subseteq Live /\ Forward
  BY ClientsStay DEF TypeInv, NetStep
<1>2. WorkersOK'
  BY WorkersTurn DEF TypeInv
<1>3. now' = now /\ pinned' \subseteq Rules /\ global' \in RuleOrNone
  BY DEF TypeInv, ChainOK, ownerVars
<1>4. QED
  BY <1>1, <1>2, <1>3, StepMade

\* What an execution sends is the request its client has queued.
LEMMA RequestLive ==
    ASSUME TypeInv, NEW w \in Workers, run[w].at # "idle"
    PROVE  Request(w) \in Live
<1>1. run[w].of \in Spends /\ client[run[w].of].at \in Posted
  BY DEF TypeInv, WorkersOK, RunOK, Posted
<1>2. QED
  BY <1>1, LiveSources DEF Request

LEMMA RunGoes ==
    ASSUME TypeInv, NEW w \in Workers, run[w].at # "idle", NEW place, RunGoto(w, place)
    PROVE  RunTurns
<1>1. PICK r : r = [at |-> place, of |-> run[w].of, task |-> run[w].task]
  OBVIOUS
<1>2. RunOK(run[w]) /\ DOMAIN run = Workers
  BY DEF TypeInv, WorkersOK
<1>3. run' = [run EXCEPT ![w] = r]
  <2>1. r = [run[w] EXCEPT !.at = place]
    BY <1>1, <1>2 DEF RunOK
  <2>2. run' = [run EXCEPT ![w] = [run[w] EXCEPT !.at = place]]
    BY <1>2 DEF RunGoto
  <2>3. QED
    BY <2>1, <2>2
<1>4. RunOK(r)
  BY <1>1, <1>2 DEF RunOK
<1>5. QED
  BY <1>3, <1>4 DEF RunTurns

LEMMA RunIdles ==
    ASSUME TypeInv, NEW w \in Workers, run' = [run EXCEPT ![w] = Idle]
    PROVE  RunTurns
<1>1. RunOK(Idle)
  BY DEF RunOK, Idle
<1>2. QED
  BY <1>1 DEF RunTurns

LEMMA CallStep ==
    ASSUME TypeInv, LiveInv, NEW w \in Workers, run[w].at # "idle",
           NEW tx, tx.q = Request(w), TxOK(tx),
           \/ Submit(tx) \/ Refused(tx)
           \/ Lands(w) \/ FailsOnChain(w) \/ GivesUp(w),
           RunTurns, UNCHANGED <<now, ownerVars, client, job>>
    PROVE  Step
<1>1. NetStep
  <2>1. CASE Submit(tx)
    BY <2>1, SubmitNet, RequestLive DEF TypeInv
  <2>2. CASE Refused(tx)
    BY <2>2, QuietNet DEF TypeInv, Refused, chainVars, PaysNothing
  <2>3. QED
    BY <2>1, <2>2, LandsNet, FailsNet, GivesUpNet DEF TypeInv
<1>2. QED
  BY <1>1, WorkerStepMade DEF JobTurns

LEMMA TakeStep ==
    ASSUME TypeInv, LiveInv, NEW w \in Workers, NEW d \in Spends, Take(w, d)
    PROVE  Step
<1>1. PICK j : j = [state |-> "active", by |-> w, stalls |-> job[d].stalls]
  OBVIOUS
<1>2. PICK i, r : /\ i = Idle /\ i = [at |-> i.at, of |-> i.of, task |-> i.task]
                  /\ r = [at |-> "enter", of |-> d, task |-> i.task]
  BY DEF Idle
<1>3. JobOK(d, job[d]) /\ DOMAIN job = Spends /\ client[d].at = "queued"
  BY DEF Take, TypeInv, WorkersOK, JobOK
<1>4. job' = [job EXCEPT ![d] = j] /\ JobOK(d, j)
  <2>1. j = [job[d] EXCEPT !.state = "active", !.by = w]
    BY <1>1, <1>3, JobUpdated DEF JobOK
  <2>2. job' = [job EXCEPT ![d] = [job[d] EXCEPT !.state = "active", !.by = w]]
    BY <1>3 DEF Take
  <2>3. QED
    BY <1>1, <1>3, <2>1, <2>2 DEF JobOK
<1>5. run' = [run EXCEPT ![w] = r] /\ RunOK(r)
  <2>1. [i EXCEPT !.at = "enter", !.of = d] = [at |-> "enter", of |-> d, task |-> i.task]
    <3>1. PICK b, e : b = i.of /\ e = i.task
      OBVIOUS
    <3>2. [i EXCEPT !.at = "enter"] = [at |-> "enter", of |-> b, task |-> e]
      BY <1>2, <3>1
    <3>3. [[at |-> "enter", of |-> b, task |-> e] EXCEPT !.of = d]
            = [at |-> "enter", of |-> d, task |-> e]
      OBVIOUS
    <3>4. QED
      BY <3>1, <3>2, <3>3
  <2>2. r = [Idle EXCEPT !.at = "enter", !.of = d]
    BY <1>2, <2>1
  <2>3. QED
    BY <1>2, <1>3, <2>2 DEF Take, RunOK
<1>6. JobTurns /\ RunTurns
  BY <1>4, <1>5 DEF JobTurns, RunTurns
<1>7. NetStep /\ UNCHANGED <<now, ownerVars, client>>
  BY QuietNet DEF Take, runOnly, chainVars, PaysNothing, TypeInv
<1>8. QED
  BY <1>6, <1>7, WorkerStepMade

LEMMA EnterStep ==
    ASSUME TypeInv, LiveInv, NEW w \in Workers, Enter(w)
    PROVE  Step
<1>1. RunTurns /\ JobTurns
  BY RunGoes DEF Enter, RunAt, JobTurns
<1>2. NetStep /\ UNCHANGED <<now, ownerVars, client>>
  BY QuietNet DEF Enter, runOnly, chainVars, PaysNothing, TypeInv
<1>3. QED
  BY <1>1, <1>2, WorkerStepMade

LEMMA CallSteps ==
    ASSUME TypeInv, LiveInv, NEW w \in Workers,
           LockBatch(w) \/ ReleaseBatch(w) \/ FinishBatch(w) \/ RollBack(w)
    PROVE  Step
<1>1. UNCHANGED <<now, ownerVars, client, job>>
  BY DEF LockBatch, ReleaseBatch, FinishBatch, RollBack
<1>2. /\ LockTx(w).q = Request(w) /\ TxOK(LockTx(w))
      /\ ReleaseTx(w).q = Request(w) /\ TxOK(ReleaseTx(w))
      /\ CompleteTx(w).q = Request(w) /\ TxOK(CompleteTx(w))
  BY DEF LockTx, ReleaseTx, CompleteTx, TxOK
<1>3. CASE LockBatch(w)
  <2>1. run[w].at # "idle" /\ (\/ Submit(LockTx(w)) \/ Refused(LockTx(w))
                                 \/ Lands(w) \/ FailsOnChain(w) \/ GivesUp(w))
    BY <1>3 DEF LockBatch, Call, RunAt
  <2>2. RunTurns
    <3>1. CASE run' = [run EXCEPT ![w].at = "release", ![w].task = Len(tasks) + 1]
      <4>1. PICK r : r = [at |-> "release", of |-> run[w].of, task |-> Len(tasks) + 1]
        OBVIOUS
      <4>2. RunOK(run[w]) /\ DOMAIN run = Workers
        BY DEF TypeInv, WorkersOK
      <4>3. r = [run[w] EXCEPT !.at = "release", !.task = Len(tasks) + 1]
        <5>1. run[w] = [at |-> run[w].at, of |-> run[w].of, task |-> run[w].task]
          BY <4>2 DEF RunOK
        <5>2. PICK n : n = Len(tasks) + 1
          OBVIOUS
        <5>3. [run[w] EXCEPT !.at = "release", !.task = n]
                = [at |-> "release", of |-> run[w].of, task |-> n]
          <6>1. PICK b, e : b = run[w].of /\ e = run[w].task
            OBVIOUS
          <6>2. [run[w] EXCEPT !.at = "release"] = [at |-> "release", of |-> b, task |-> e]
            BY <5>1, <6>1
          <6>3. [[at |-> "release", of |-> b, task |-> e] EXCEPT !.task = n]
                  = [at |-> "release", of |-> b, task |-> n]
            OBVIOUS
          <6>4. QED
            BY <6>1, <6>2, <6>3
        <5>4. QED
          BY <4>1, <5>2, <5>3
      <4>4. run' = [run EXCEPT ![w] = [run[w] EXCEPT !.at = "release", !.task = Len(tasks) + 1]]
        BY <3>1, <4>2
      <4>5. run' = [run EXCEPT ![w] = r] /\ RunOK(r)
        BY <2>1, <4>1, <4>2, <4>3, <4>4 DEF RunOK
      <4>6. QED
        BY <4>5 DEF RunTurns
    <3>2. CASE RunGoto(w, "locking") \/ RunGoto(w, "failed")
      BY <2>1, <3>2, RunGoes
    <3>3. QED
      BY <1>3, <3>1, <3>2 DEF LockBatch, Call, Leaving
  <2>3. QED
    BY <1>1, <1>2, <2>1, <2>2, CallStep
<1>4. CASE ReleaseBatch(w)
  <2>1. /\ run[w].at # "idle" /\ (\/ Submit(ReleaseTx(w)) \/ Refused(ReleaseTx(w))
                                    \/ Lands(w) \/ FailsOnChain(w) \/ GivesUp(w))
        /\ \E place : RunGoto(w, place)
    BY <1>4 DEF ReleaseBatch, Call, RunAt, On
  <2>2. RunTurns
    BY <2>1, RunGoes
  <2>3. QED
    BY <1>1, <1>2, <2>1, <2>2, CallStep
<1>5. CASE FinishBatch(w) \/ RollBack(w)
  <2>1. /\ run[w].at # "idle" /\ (\/ Submit(CompleteTx(w)) \/ Refused(CompleteTx(w))
                                    \/ Lands(w) \/ FailsOnChain(w) \/ GivesUp(w))
        /\ \E place : RunGoto(w, place)
    BY <1>5 DEF FinishBatch, RollBack, Call, RunAt, Leaving
  <2>2. RunTurns
    BY <2>1, RunGoes
  <2>3. QED
    BY <1>1, <1>2, <2>1, <2>2, CallStep
<1>6. QED
  BY <1>3, <1>4, <1>5

\* A job that is handed out again, or is given up.
LEMMA RequeuedJob ==
    ASSUME NEW d, job[d] = [state |-> job[d].state, by |-> job[d].by, stalls |-> job[d].stalls]
    PROVE  Requeued(d) = [state |-> IF job[d].stalls = 0 THEN "waiting" ELSE "failed",
                          by |-> None, stalls |-> 1]
<1>1. PICK one, s : one = 1 /\ s = IF job[d].stalls = 0 THEN "waiting" ELSE "failed"
  OBVIOUS
<1>2. Requeued(d) = [job[d] EXCEPT !.by = None, !.stalls = one, !.state = s]
  BY <1>1 DEF Requeued
<1>3. [job[d] EXCEPT !.by = None, !.stalls = one, !.state = s]
        = [state |-> s, by |-> None, stalls |-> one]
  <2>1. PICK a, e : a = job[d].state /\ e = job[d].stalls
    OBVIOUS
  <2>2. [job[d] EXCEPT !.by = None] = [state |-> a, by |-> None, stalls |-> e]
    BY <2>1
  <2>3. [[state |-> a, by |-> None, stalls |-> e] EXCEPT !.stalls = one]
          = [state |-> a, by |-> None, stalls |-> one]
    OBVIOUS
  <2>4. [[state |-> a, by |-> None, stalls |-> one] EXCEPT !.state = s]
          = [state |-> s, by |-> None, stalls |-> one]
    OBVIOUS
  <2>5. QED
    BY <2>2, <2>3, <2>4
<1>4. QED
  BY <1>1, <1>2, <1>3

LEMMA JobRequeued ==
    ASSUME TypeInv, NEW d \in Spends, job[d].state = "active" \/ client[d].at = "queued"
    PROVE  JobOK(d, Requeued(d))
<1>1. JobOK(d, job[d])
  BY DEF TypeInv, WorkersOK
<1>2. Requeued(d) = [state |-> IF job[d].stalls = 0 THEN "waiting" ELSE "failed",
                     by |-> None, stalls |-> 1]
  BY <1>1, RequeuedJob DEF JobOK
<1>3. QED
  BY <1>1, <1>2 DEF JobOK, WorkersOK, TypeInv

LEMMA RecordStep ==
    ASSUME TypeInv, LiveInv, NEW w \in Workers, Record(w)
    PROVE  Step
<1> DEFINE d == run[w].of
<1>1. d \in Spends /\ client[d].at = "queued" /\ JobOK(d, job[d]) /\ DOMAIN job = Spends
  BY DEF Record, TypeInv, WorkersOK, RunOK
<1>2. JobTurns
  <2>1. CASE job[d].by = w
    <3>1. PICK j : j = [state |-> "done", by |-> None, stalls |-> job[d].stalls]
      OBVIOUS
    <3>2. j = [job[d] EXCEPT !.state = "done", !.by = None]
      BY <1>1, <3>1, JobUpdated DEF JobOK
    <3>3. job' = [job EXCEPT ![d] = [job[d] EXCEPT !.state = "done", !.by = None]]
      BY <1>1, <2>1 DEF Record
    <3>4. job' = [job EXCEPT ![d] = j] /\ JobOK(d, j)
      BY <1>1, <3>1, <3>2, <3>3 DEF JobOK
    <3>5. QED
      BY <1>1, <3>4 DEF JobTurns
  <2>2. QED
    BY <2>1 DEF Record, JobTurns
<1>3. RunTurns
  BY RunIdles DEF Record
<1>4. NetStep /\ UNCHANGED <<now, ownerVars, client>>
  BY QuietNet DEF Record, chainVars, PaysNothing, TypeInv
<1>5. QED
  BY <1>2, <1>3, <1>4, WorkerStepMade

LEMMA CrashStep ==
    ASSUME TypeInv, LiveInv, NEW w \in Workers, Crash(w)
    PROVE  Step
<1> DEFINE d == run[w].of
<1>1. d \in Spends /\ client[d].at = "queued"
  BY DEF Crash, RunAt, TypeInv, WorkersOK, RunOK
<1>2. JobTurns
  BY <1>1, JobRequeued DEF Crash, JobTurns
<1>3. RunTurns
  BY RunIdles DEF Crash
<1>4. NetStep /\ UNCHANGED <<now, ownerVars, client>>
  BY AbandonNet DEF Crash, chainVars, PaysNothing, TypeInv
<1>5. QED
  BY <1>2, <1>3, <1>4, WorkerStepMade

LEMMA StallStep ==
    ASSUME TypeInv, LiveInv, NEW d \in Spends, Stall(d)
    PROVE  Step
<1>1. JobTurns /\ RunTurns
  BY JobRequeued DEF Stall, JobTurns, RunTurns
<1>2. NetStep /\ UNCHANGED <<now, ownerVars, client>>
  BY QuietNet DEF Stall, chainVars, PaysNothing, TypeInv
<1>3. QED
  BY <1>1, <1>2, WorkerStepMade

LEMMA SweepStep ==
    ASSUME TypeInv, LiveInv, NEW t, Sweep(t)
    PROVE  Step
<1>1. NetStep /\ UNCHANGED <<now, ownerVars, client>>
  BY QuietNet DEF Sweep, CompleteTask, PaysNothing, TypeInv
<1>2. JobTurns /\ RunTurns
  BY DEF Sweep, workerVars, JobTurns, RunTurns
<1>3. QED
  BY <1>1, <1>2, WorkerStepMade

-----------------------------------------------------------------------------
\* The owner, the clock, and what is left behind on the network.

LEMMA OwnerStep ==
    ASSUME TypeInv, LiveInv,
           \/ \E r \in Rules : Pin(r) \/ Unpin(r) \/ SetGlobal(r)
           \/ ClearGlobal
    PROVE  Step
<1>1. UNCHANGED <<now, client>> /\ PaysNothing /\ flight' = flight /\ job' = job /\ run' = run
  BY DEF Pin, Unpin, SetGlobal, ClearGlobal, ownerOnly, chainVars, workerVars, PaysNothing
<1>2. pinned' \subseteq Rules /\ global' \in RuleOrNone
  BY DEF Pin, Unpin, SetGlobal, ClearGlobal, TypeInv, ChainOK, RuleOrNone
<1>3. NetStep
  BY <1>1, QuietNet DEF TypeInv
<1>4. ClientsOK' /\ Live' \subseteq Live /\ Forward /\ WorkersOK'
  BY <1>1, <1>3, ClientsStay, WorkersTurn DEF TypeInv, NetStep, JobTurns, RunTurns
<1>5. QED
  BY <1>1, <1>2, <1>3, <1>4, StepMade

LEMMA TickStep ==
    ASSUME TypeInv, Tick
    PROVE  Step
<1>1. /\ UNCHANGED <<accum, paid, tally, pinned, global, client, job, run, flight>>
      /\ now' = now + 1 /\ used' \subseteq used
  BY DEF Tick, ownerVars, workerVars
<1>2. ChainOK'
  BY <1>1, Numbers DEF TypeInv, ChainOK
<1>3. ClientsOK' /\ WorkersOK' /\ FlightOK'
  BY <1>1 DEF TypeInv, ClientsOK, WorkersOK, JobOK, RunOK, FlightOK, TxOK
<1>4. QED
  BY <1>2, <1>3 DEF Step, TypeInv

LEMMA LeftBehindStep ==
    ASSUME TypeInv, LiveInv, AbandonedLands \/ AbandonedExpires
    PROVE  Step
<1>1. UNCHANGED <<now, ownerVars, client, job, run>>
  BY DEF AbandonedLands, AbandonedExpires, workerVars
<1>2. NetStep
  <2>1. CASE AbandonedLands
    <3>1. PICK tx \in Waiting(None) :
            /\ IF Accepts(tx) THEN Apply(tx) ELSE UNCHANGED chainVars
            /\ flight' = flight \ SameSigner(tx)
      BY <2>1 DEF AbandonedLands
    <3>2. CASE Accepts(tx)
      <4>1. PaysNothing \/ PaysOne
        BY <3>1, <3>2, AppliesOne, LiveSources DEF Waiting, TypeInv
      <4>2. QED
        BY <3>1, <4>1, LiveSources DEF NetStep, TypeInv, FlightOK, TxOK
    <3>3. CASE ~Accepts(tx)
      BY <3>1, <3>3, QuietNet DEF chainVars, PaysNothing, TypeInv
    <3>4. QED
      BY <3>2, <3>3
  <2>2. CASE AbandonedExpires
    BY <2>2, QuietNet DEF AbandonedExpires, chainVars, PaysNothing, TypeInv
  <2>3. QED
    BY <2>1, <2>2
<1>3. QED
  BY <1>1, <1>2, WorkerStepMade DEF JobTurns, RunTurns

LEMMA NextStep ==
    ASSUME TypeInv, LiveInv, Next
    PROVE  Step
<1>1. ASSUME NEW d \in Spends, ClientStep(d) PROVE Step
  BY <1>1, ReadGlobalsStep, ReadAccumulatorStep, ReadFailsStep, ReadGlobalAccumulatorStep,
     ProveStep, RelayStep, ReplyStep, TryAgainStep, EnqueueStep DEF ClientStep
<1>2. ASSUME NEW w \in Workers, WorkerStep(w) PROVE Step
  BY <1>2, TakeStep, EnterStep, CallSteps, RecordStep, CrashStep DEF WorkerStep
<1>3. QED
  BY <1>1, <1>2, StallStep, SweepStep, OwnerStep, TickStep, LeftBehindStep DEF Next

LEMMA Unchanged ==
    ASSUME TypeInv, LiveInv, RateInv, UNCHANGED vars
    PROVE  TypeInv' /\ LiveInv' /\ RateInv'
<1>1. /\ UNCHANGED <<now, accum, used, paid, tally, pinned, global, client, job, run, flight>>
  BY DEF vars, chainVars, ownerVars, workerVars
<1>2. TypeInv'
  BY <1>1 DEF TypeInv, ChainOK, ClientsOK, WorkersOK, JobOK, RunOK, FlightOK, TxOK
<1>3. LiveInv'
  <2>1. Live' = Live
    BY <1>1 DEF Live
  <2>2. \A i \in Ids : Behind(i)' <=> Behind(i)
    BY <1>1 DEF Behind
  <2>3. \A q \in Live : q.id \in Ids /\ (Dead(q)' <=> Dead(q))
    BY <1>1 DEF Dead, LiveInv, Req
  <2>4. QED
    BY <1>1, <2>1, <2>2, <2>3 DEF LiveInv, Keeps, Provable, Base, Resets
<1>4. RateInv'
  BY <1>1 DEF RateInv, RateOf, Budgeted
<1>5. QED
  BY <1>2, <1>3, <1>4

-----------------------------------------------------------------------------
\* The records.

VaultTask == [open : BOOLEAN, budget : Nat, spent : Nat, of : Ids]
TasksOK == tasks \in Seq(VaultTask)

\* What somebody waits for is what it has sent.
Sent(tx, r) ==
    \/ tx.op = "lock" /\ r.at = "locking"
    \/ tx.op = "release" /\ r.at = "releasing"
    \/ tx.op = "complete" /\ r.at \in {"completing", "rolling"}
TiedTx(tx) ==
    /\ tx.by \in Spends \cup Workers \cup {None}
    /\ tx.by \in Workers =>
          LET r == run[tx.by] IN
          Sent(tx, r) /\ tx.q = client[r.of].q /\ (tx.op # "lock" => tx.task = r.task)
    /\ tx.by \in Spends =>
          tx.op = "keyless" /\ client[tx.by].at = "sent" /\ tx.q = client[tx.by].q
Tied == \A tx \in flight : TiedTx(tx)

\* An execution's places by what it knows: that its batch has paid, that it has
\* not, that it has a vault task to close.
Settling == {"complete", "completing", "settled"}
Unpaid == {"enter", "lock", "locking", "release", "releasing", "rollback", "rolling", "failed"}
Holding == {"release", "releasing", "complete", "completing", "rollback", "rolling"}
PaidFor(d) == paid[JobId(d)]

RecordsOK ==
    /\ record = [d \in Spends |-> record[d]]
    /\ \A d \in Spends : record[d] = "COMPLETED" => PaidFor(d) = 1
    /\ \A w \in Workers : run[w].at \in Settling => PaidFor(run[w].of) = 1

\* While nothing has gone wrong a job has one execution, and nothing else pays
\* for it or locks for it.
OpenFor(t, d) == t \in 1..Len(tasks) /\ tasks[t].open /\ tasks[t].of = JobId(d)
HeldBy(t, d) == \E w \in Workers : run[w].at \in Holding /\ run[w].of = d /\ run[w].task = t
Calm ==
    /\ \A tx \in flight : tx.by # None
    /\ \A w \in Workers :
          run[w].at # "idle" => job[run[w].of].state = "active" /\ job[run[w].of].by = w
    /\ \A w \in Workers : run[w].at \in Unpaid => PaidFor(run[w].of) = 0
    /\ \A d \in Spends : \A t \in 1..Len(tasks) : OpenFor(t, d) => HeldBy(t, d)
    /\ \A d \in Spends :
          client[d].kind = "job" /\ job[d].state \in {"none", "waiting"} => PaidFor(d) = 0
    /\ \A d \in Spends : record[d] # "none" => job[d].state = "done"
    /\ \A d \in Spends : record[d] = "FAILED" => PaidFor(d) = 0

RecInv ==
    /\ TasksOK /\ Tied /\ RecordsOK /\ faults \in Nat
    /\ faults = 0 => Calm

LEMMA Names ==
    /\ None \notin Spends \cup Workers /\ Spends \cap Workers = {}
  BY PrivateAssumption

LEMMA JobIdMade ==
    ASSUME NEW d \in Spends
    PROVE  JobId(d) \in Ids /\ \A e \in Spends : JobId(d) = JobId(e) => d = e
<1>1. 1 \in 1..Len(Groups[d]) /\ 1 \in 1..Tries[d]
  <2>1. Groups[d] \in Seq(Nat \ {0}) /\ Groups[d] # <<>> /\ Tries[d] \in Nat \ {0}
    BY PrivateAssumption
  <2>2. Len(Groups[d]) \in Nat \ {0}
    BY <2>1
  <2>3. QED
    BY <2>1, <2>2
<1>2. QED
  BY <1>1, IdMade DEF JobId

\* What a call that passes the checks does to the tasks and the payments.
TasksSame == Len(tasks') = Len(tasks) /\ \A t \in 1..Len(tasks) : tasks'[t].of = tasks[t].of
PaysFor(i) == paid' = [paid EXCEPT ![i] = @ + 1]

Effect(tx) ==
    \/ /\ tx.op = "keyless" /\ PaysFor(tx.q.id) /\ tasks' = tasks
    \/ /\ tx.op = "release" /\ PaysFor(tx.q.id) /\ TasksSame
       /\ \A t \in 1..Len(tasks) : tasks'[t].open = tasks[t].open
    \/ /\ tx.op = "lock" /\ paid' = paid /\ Len(tasks') = Len(tasks) + 1
       /\ \A t \in 1..Len(tasks) : tasks'[t] = tasks[t]
       /\ tasks'[Len(tasks) + 1].of = tx.q.id
    \/ /\ tx.op = "complete" /\ paid' = paid /\ TasksSame
       /\ \A t \in 1..Len(tasks) : tasks'[t].open => tasks[t].open /\ t # tx.task

\* One task rewritten, if it is there.
LEMMA TaskRewritten ==
    ASSUME TasksOK, NEW t, NEW new, t \in 1..Len(tasks) => new \in VaultTask,
           tasks' = [tasks EXCEPT ![t] = new]
    PROVE  /\ TasksOK' /\ Len(tasks') = Len(tasks)
           /\ \A x \in 1..Len(tasks) : tasks'[x] = IF x = t THEN new ELSE tasks[x]
<1>1. CASE t \in 1..Len(tasks)
  BY <1>1, ExceptSeq DEF TasksOK
<1>2. CASE t \notin 1..Len(tasks)
  <2>1. DOMAIN tasks = 1..Len(tasks) /\ tasks = [x \in DOMAIN tasks |-> tasks[x]]
    BY DEF TasksOK
  <2>2. tasks' = tasks
    BY <1>2, <2>1
  <2>3. QED
    BY <1>2, <2>2 DEF TasksOK
<1>3. QED
  BY <1>1, <1>2

LEMMA Closed ==
    ASSUME TasksOK, NEW t, CompleteTask(t)
    PROVE  /\ TasksOK' /\ TasksSame /\ paid' = paid
           /\ \A x \in 1..Len(tasks) : tasks'[x].open => tasks[x].open /\ x # t
<1>1. PICK new : new = [tasks[t] EXCEPT !.open = FALSE]
  OBVIOUS
<1>2. tasks' = [tasks EXCEPT ![t] = new] /\ paid' = paid
  BY <1>1 DEF CompleteTask
<1>3. ASSUME t \in 1..Len(tasks) PROVE new \in VaultTask /\ new.of = tasks[t].of /\ ~new.open
  <2>1. tasks[t] \in VaultTask
    BY <1>3 DEF TasksOK
  <2>2. QED
    BY <1>1, <2>1 DEF VaultTask
<1>4. /\ TasksOK' /\ Len(tasks') = Len(tasks)
      /\ \A x \in 1..Len(tasks) : tasks'[x] = IF x = t THEN new ELSE tasks[x]
  <2>1. t \in 1..Len(tasks) => new \in VaultTask
    BY <1>3
  <2>2. QED
    BY <1>2, <2>1, TaskRewritten
<1>5. QED
  BY <1>2, <1>3, <1>4 DEF TasksSame

LEMMA Effects ==
    ASSUME LiveInv, TasksOK, NEW tx, tx.q \in Live, Accepts(tx), Apply(tx)
    PROVE  TasksOK' /\ Effect(tx)
<1>0. tx.q \in Req /\ tx.q.id \in Ids /\ tx.q.total \in Nat
  BY DEF LiveInv, Req
<1>1. CASE tx.op = "keyless"
  BY <1>1 DEF Apply, PayKeyless, Roll, TasksOK, Effect, PaysFor
<1>2. CASE tx.op = "lock"
  <2>1. PICK new : new = [open |-> TRUE, budget |-> tx.q.total, spent |-> 0, of |-> tx.q.id]
    OBVIOUS
  <2>2. new \in VaultTask /\ new.of = tx.q.id
    BY <1>0, <2>1 DEF VaultTask
  <2>3. tasks' = Append(tasks, new) /\ paid' = paid
    BY <1>2, <2>1 DEF Apply, LockBudget
  <2>4. /\ TasksOK' /\ Len(tasks') = Len(tasks) + 1
        /\ \A t \in 1..Len(tasks) : tasks'[t] = tasks[t]
        /\ tasks'[Len(tasks) + 1] = new
    BY <2>2, <2>3, AppendProperties DEF TasksOK
  <2>5. QED
    BY <1>2, <2>2, <2>3, <2>4 DEF Effect
<1>3. CASE tx.op = "release"
  <2>1. PICK t, new : t = tx.task /\ new = [tasks[t] EXCEPT !.spent = tasks[t].spent + tx.q.total]
    OBVIOUS
  <2>2. tasks' = [tasks EXCEPT ![t] = new] /\ PaysFor(tx.q.id)
    BY <1>3, <2>1 DEF Apply, PayBatch, Roll, PaysFor
  <2>3. ASSUME t \in 1..Len(tasks)
        PROVE  new \in VaultTask /\ new.of = tasks[t].of /\ new.open = tasks[t].open
    <3>1. tasks[t] \in VaultTask
      BY <2>3 DEF TasksOK
    <3>2. QED
      BY <1>0, <2>1, <3>1 DEF VaultTask
  <2>4. /\ TasksOK' /\ Len(tasks') = Len(tasks)
        /\ \A x \in 1..Len(tasks) : tasks'[x] = IF x = t THEN new ELSE tasks[x]
    <3>1. t \in 1..Len(tasks) => new \in VaultTask
      BY <2>3
    <3>2. QED
      BY <2>2, <3>1, TaskRewritten
  <2>5. TasksSame /\ \A x \in 1..Len(tasks) : tasks'[x].open = tasks[x].open
    BY <2>3, <2>4 DEF TasksSame
  <2>6. QED
    BY <1>3, <2>2, <2>4, <2>5 DEF Effect
<1>4. CASE tx.op = "complete"
  BY <1>4, Closed DEF Apply, Effect
<1>5. QED
  BY <1>1, <1>2, <1>3, <1>4 DEF Apply

\* A caller's transaction that lands or fails takes its signer's others with it.
LEMMA OwnKind ==
    ASSUME Tied, NEW tx \in flight
    PROVE  /\ tx.by \in Workers => tx.op # "keyless" /\ Signer(tx) = "delegate"
           /\ tx.by \in Spends => tx.op = "keyless" /\ Signer(tx) = "relayer"
BY DEF Tied, TiedTx, Sent, Signer

\* Nothing is paid back, or twice.
LEMMA PaidGrows ==
    ASSUME ChainOK, LiveInv, LiveInv', PaysNothing \/ PaysOne
    PROVE  /\ paid \in [Ids -> Nat] /\ paid' \in [Ids -> Nat]
           /\ \A i \in Ids : paid[i] <= paid'[i] /\ paid'[i] <= 1
<1>1. paid \in [Ids -> Nat]
  BY DEF ChainOK
<1>2. CASE PaysNothing
  BY <1>1, <1>2 DEF PaysNothing, LiveInv
<1>3. CASE PaysOne
  <2>1. PICK q \in Live, rs \in SUBSET Rules : Payment(q, rs)
    BY <1>3 DEF PaysOne
  <2>2. q.id \in Ids /\ paid' = [paid EXCEPT ![q.id] = @ + 1]
    BY <2>1 DEF LiveInv, Req, Payment, Roll
  <2>3. QED
    BY <1>1, <2>2 DEF LiveInv
<1>4. QED
  BY <1>2, <1>3

\* What everybody else's step leaves of the records.
Peaceful ==
    /\ UNCHANGED record
    /\ \A i \in Ids : paid'[i] \in Nat /\ paid[i] <= paid'[i] /\ paid'[i] <= 1
    /\ TasksOK' /\ faults' \in Nat /\ (faults' = 0 => faults = 0)

\* Nobody's batch is paid, and nobody's task opened.
Untouched ==
    /\ \A d \in Spends : client[d].kind = "job" => PaidFor(d)' = PaidFor(d)
    /\ Len(tasks') = Len(tasks)
    /\ \A t \in 1..Len(tasks) :
          tasks'[t].of = tasks[t].of /\ (tasks'[t].open => tasks[t].open)

\* A step of a client, of the owner or of the chain, that moves no execution.
LEMMA OthersCalm ==
    ASSUME ClientsOK, WorkersOK, RecordsOK, Calm, Peaceful, Untouched, run' = run,
           \A d \in Spends : client'[d].kind = client[d].kind,
           \A d \in Spends : job[d].state # "none" => job'[d] = job[d],
           \A d \in Spends : job[d].state = "none" => job'[d].state \in {"none", "waiting"},
           \A tx \in flight' : tx.by # None
    PROVE  Calm'
<1>1. \A w \in Workers : run[w].at # "idle" =>
        run[w].of \in Spends /\ client[run[w].of].kind = "job"
  BY DEF WorkersOK, RunOK, ClientsOK, ClientOK
<1>2. \A w \in Workers :
        run'[w].at # "idle" => job'[run'[w].of].state = "active" /\ job'[run'[w].of].by = w
  BY <1>1 DEF Calm
<1>3. \A w \in Workers : run'[w].at \in Unpaid => paid'[JobId(run'[w].of)] = 0
  BY <1>1 DEF Calm, Untouched, PaidFor, Unpaid
<1>4. ASSUME NEW d \in Spends, NEW t \in 1..Len(tasks'), OpenFor(t, d)'
      PROVE  HeldBy(t, d)'
  <2>1. HeldBy(t, d)
    BY <1>4 DEF OpenFor, Untouched, Calm, JobId
  <2>2. QED
    BY <2>1 DEF HeldBy
<1>5. \A d \in Spends :
        client'[d].kind = "job" /\ job'[d].state \in {"none", "waiting"} => paid'[JobId(d)] = 0
  BY DEF Calm, Untouched, PaidFor
<1>6. ASSUME NEW d \in Spends, record'[d] # "none"
      PROVE  job'[d].state = "done" /\ (record'[d] = "FAILED" => paid'[JobId(d)] = 0)
  <2>1. job[d].state = "done" /\ record'[d] = record[d]
    BY <1>6 DEF Calm, Peaceful
  <2>2. client[d].kind = "job"
    BY <2>1 DEF WorkersOK, JobOK, ClientsOK, ClientOK
  <2>3. QED
    BY <2>1, <2>2 DEF Calm, Untouched, PaidFor
<1>7. QED
  BY <1>2, <1>3, <1>4, <1>5, <1>6 DEF Calm, PaidFor

LEMMA OthersRecords ==
    ASSUME ClientsOK, WorkersOK, RecordsOK, Peaceful, run' = run
    PROVE  RecordsOK'
<1>1. \A w \in Workers : run[w].at # "idle" => run[w].of \in Spends
  BY DEF WorkersOK, RunOK
<1>2. ASSUME NEW d \in Spends, PaidFor(d) = 1 PROVE PaidFor(d)' = 1
  BY <1>2, JobIdMade DEF Peaceful, PaidFor, JobId
<1>3. QED
  BY <1>1, <1>2 DEF RecordsOK, Peaceful, Settling, PaidFor

\* Transactions are tied to their callers as long as those stay.
LEMMA TiedStays ==
    ASSUME Tied, ClientsOK, WorkersOK, flight' \subseteq flight,
           \A tx \in flight' : tx.by \in Workers => run'[tx.by] = run[tx.by],
           \A tx \in flight' : tx.by \in Spends => client'[tx.by] = client[tx.by],
           \A d \in Spends : client[d].at = "queued" => client'[d] = client[d]
    PROVE  Tied'
<1> SUFFICES ASSUME NEW tx \in flight' PROVE TiedTx(tx)'
  BY DEF Tied
<1>1. TiedTx(tx)
  BY DEF Tied
<1>2. tx.by \in Workers => client[run[tx.by].of].at = "queued" /\ run[tx.by].of \in Spends
  BY <1>1 DEF TiedTx, Sent, WorkersOK, RunOK
<1>3. QED
  BY <1>1, <1>2 DEF TiedTx, Sent

LEMMA MovedFacts ==
    ASSUME TypeInv, NEW d \in Spends, ClientMoved(d)
    PROVE  /\ \A e \in Spends : e # d => client'[e] = client[e]
           /\ \A e \in Spends : client'[e].kind = client[e].kind
           /\ client[d].at # "queued"
<1>1. PICK c : Turns(d, c)
  BY DEF ClientMoved
<1>2. client'[d] = c /\ \A e \in Spends : e # d => client'[e] = client[e]
  BY <1>1, Turned DEF TypeInv
<1>3. QED
  BY <1>1, <1>2 DEF Turns

\* A step that neither pays nor touches a task is peaceful.
LEMMA QuietIsPeaceful ==
    ASSUME TypeInv, LiveInv, RecInv, paid' = paid, tasks' = tasks, record' = record,
           faults' = faults \/ faults' = faults + 1
    PROVE  /\ Peaceful /\ Untouched
           /\ \A i \in Ids : paid[i] \in Nat /\ paid[i] <= 1
<1>1. \A i \in Ids : paid[i] \in Nat /\ paid[i] <= 1
  BY DEF TypeInv, ChainOK, LiveInv
<1>2. Peaceful
  BY <1>1 DEF Peaceful, RecInv, TasksOK
<1>3. Untouched
  BY DEF Untouched, PaidFor, JobId
<1>4. QED
  BY <1>1, <1>2, <1>3

\* A client moves, and nothing else.
LEMMA ClientOnlyRec ==
    ASSUME TypeInv, LiveInv, RecInv, NEW d \in Spends, ClientMoved(d), client[d].at # "sent",
           UNCHANGED <<paid, tasks, job, run, record, flight>>,
           faults' = faults \/ faults' = faults + 1
    PROVE  RecInv'
<1>1. Peaceful /\ Untouched
  BY QuietIsPeaceful
<1>2. RecordsOK'
  BY <1>1, OthersRecords DEF TypeInv, RecInv
<1>3. Tied'
  <2>1. \A tx \in flight' : tx.by \in Spends => tx.by # d
    BY DEF RecInv, Tied, TiedTx
  <2>2. QED
    BY <2>1, MovedFacts, TiedStays DEF TypeInv, RecInv
<1>4. ASSUME faults' = 0 PROVE Calm'
  <2>1. Calm
    BY <1>1, <1>4 DEF Peaceful, RecInv
  <2>2. \A tx \in flight' : tx.by # None
    BY <2>1 DEF Calm
  <2>3. QED
    BY <1>1, <2>1, <2>2, MovedFacts, OthersCalm DEF TypeInv, RecInv
<1>5. QED
  BY <1>1, <1>2, <1>3, <1>4 DEF RecInv, Peaceful

LEMMA ClientReadsRec ==
    ASSUME TypeInv, LiveInv, RecInv, NEW d \in Spends,
           \/ ReadGlobals(d) \/ ReadAccumulator(d) \/ ReadFails(d)
           \/ ReadGlobalAccumulator(d) \/ Prove(d) \/ TryAgain(d)
    PROVE  RecInv'
<1>1. ClientMoved(d)
  BY ReadGlobalsStep, ReadAccumulatorStep, ReadFailsStep, ReadGlobalAccumulatorStep,
     ProveStep, TryAgainStep
<1>2. UNCHANGED clientOnly
  BY DEF ReadGlobals, ReadAccumulator, ReadFails, ReadGlobalAccumulator, Prove, TryAgain
<1>3. client[d].at # "sent"
  BY DEF ReadGlobals, ReadAccumulator, ReadFails, ReadGlobalAccumulator, Prove, TryAgain, At
<1>4. faults' = faults \/ faults' = faults + 1
  BY DEF ReadGlobals, ReadAccumulator, ReadFails, ReadGlobalAccumulator, Prove, TryAgain, Fault
<1>5. UNCHANGED <<paid, tasks, job, run, record, flight>>
  BY <1>2 DEF clientOnly, chainVars, workerVars
<1>6. QED
  BY <1>1, <1>3, <1>4, <1>5, ClientOnlyRec

LEMMA RelayRec ==
    ASSUME TypeInv, LiveInv, RecInv, NEW d \in Spends, Relay(d)
    PROVE  RecInv'
<1>1. ClientMoved(d)
  BY RelayStep
<1>2. UNCHANGED <<paid, tasks, job, run, record, faults>> /\ client[d].at = "post"
  BY DEF Relay, At, Submit, Refused, chainVars, workerVars
<1>3. CASE Refused(KeylessTx(d))
  BY <1>1, <1>2, <1>3, ClientOnlyRec DEF Refused
<1>4. CASE Submit(KeylessTx(d)) /\ Goto(d, "sent")
  <2>1. Peaceful /\ Untouched
    BY <1>2, QuietIsPeaceful
  <2>2. RecordsOK'
    BY <1>2, <2>1, OthersRecords DEF TypeInv, RecInv
  <2>3. client'[d].at = "sent" /\ client'[d].q = client[d].q
    BY <1>4, ClientFacts DEF Goto, ClientRec
  <2>4. flight' = flight \cup {KeylessTx(d)}
    BY <1>4 DEF Submit
  <2>5. ASSUME NEW tx \in flight PROVE TiedTx(tx)'
    <3>1. TiedTx(tx)
      BY DEF RecInv, Tied
    <3>2. tx.by \in Spends => tx.by # d
      BY <1>2, <3>1 DEF TiedTx
    <3>3. tx.by \in Workers =>
            client[run[tx.by].of].at = "queued" /\ run[tx.by].of \in Spends
      BY <3>1 DEF TiedTx, Sent, TypeInv, WorkersOK, RunOK
    <3>4. QED
      BY <1>1, <1>2, <3>1, <3>2, <3>3, MovedFacts DEF TiedTx, Sent
  <2>6. Tied'
    <3>1. ASSUME NEW tx \in flight' PROVE TiedTx(tx)'
      <4>1. CASE tx \in flight
        BY <2>5, <4>1
      <4>2. CASE tx = KeylessTx(d)
        <5>1. tx.by = d /\ tx.op = "keyless" /\ tx.q = client[d].q
          BY <4>2 DEF KeylessTx
        <5>2. QED
          BY <2>3, <5>1, Names DEF TiedTx
      <4>3. QED
        BY <2>4, <4>1, <4>2
    <3>2. QED
      BY <3>1 DEF Tied
  <2>7. ASSUME faults' = 0 PROVE Calm'
    <3>1. Calm
      BY <2>1, <2>7 DEF Peaceful, RecInv
    <3>2. \A tx \in flight' : tx.by # None
      BY <2>4, <3>1, Names DEF Calm, KeylessTx
    <3>3. QED
      BY <1>1, <1>2, <2>1, <3>1, <3>2, MovedFacts, OthersCalm DEF TypeInv, RecInv
  <2>8. QED
    BY <2>1, <2>2, <2>6, <2>7 DEF RecInv, Peaceful
<1>5. QED
  BY <1>3, <1>4 DEF Relay

\* What its caller gives up on is nobody's.
LEMMA AbandonTied ==
    ASSUME Tied, FlightOK, ClientsOK, WorkersOK, NEW w, flight' = Abandon(w),
           \A x \in Workers : x # w => run'[x] = run[x],
           \A e \in Spends : e # w => client'[e] = client[e],
           \A e \in Spends : client[e].at = "queued" => client'[e] = client[e]
    PROVE  Tied'
<1> SUFFICES ASSUME NEW tx \in flight' PROVE TiedTx(tx)'
  BY DEF Tied
<1>1. CASE tx \in flight /\ tx.by # w
  <2>1. TiedTx(tx)
    BY <1>1 DEF Tied
  <2>2. tx.by \in Workers => client[run[tx.by].of].at = "queued" /\ run[tx.by].of \in Spends
    BY <2>1 DEF TiedTx, Sent, WorkersOK, RunOK
  <2>3. QED
    BY <1>1, <2>1, <2>2 DEF TiedTx, Sent
<1>2. ASSUME NEW t \in Waiting(w), tx = [t EXCEPT !.by = None] PROVE TiedTx(tx)'
  <2>1. t = [op |-> t.op, by |-> t.by, task |-> t.task, q |-> t.q]
    BY DEF Waiting, FlightOK, TxOK
  <2>2. tx.by = None
    BY <1>2, <2>1
  <2>3. QED
    BY <2>2, Names DEF TiedTx
<1>3. QED
  BY <1>1, <1>2 DEF Abandon, Waiting

\* What lands pays something, and leaves the records alone.
LEMMA LandingIsPeaceful ==
    ASSUME TypeInv, LiveInv, LiveInv', RecInv, NEW tx \in flight, Accepts(tx), Apply(tx),
           record' = record, faults' = faults
    PROVE  Peaceful /\ Effect(tx)
<1>1. TasksOK' /\ Effect(tx)
  BY Effects, LiveSources DEF RecInv
<1>2. PaysNothing \/ PaysOne
  BY AppliesOne, LiveSources DEF TypeInv
<1>3. QED
  BY <1>1, <1>2, PaidGrows DEF Peaceful, TypeInv, RecInv

LEMMA ReplyRec ==
    ASSUME TypeInv, LiveInv, LiveInv', RecInv, NEW d \in Spends,
           ReplyPaid(d) \/ ReplyFailed(d) \/ ReplyTimesOut(d)
    PROVE  RecInv'
<1>1. ClientMoved(d)
  BY ReplyStep
<1>2. /\ UNCHANGED <<job, run, record>> /\ client[d].at = "sent"
      /\ \/ (Lands(d) \/ FailsOnChain(d)) /\ faults' = faults
         \/ GivesUp(d)
  BY DEF ReplyPaid, ReplyFailed, ReplyTimesOut, At, workerVars
<1>3. client[d].kind # "job" /\ client[d].q \in Req /\ client[d].q.id[1] = d
  BY <1>2, ClientFacts DEF ClientOK, Posted
<1>4. ASSUME NEW tx \in Waiting(d), flight' = flight \ SameSigner(tx)
      PROVE  Tied'
  <2>1. tx \in flight /\ tx.by = d
    BY <1>4 DEF Waiting
  <2>2. Signer(tx) = "relayer"
    BY <2>1, OwnKind DEF RecInv
  <2>3. \A t \in flight' : t \in flight /\ t.by # d
    BY <1>4, <2>2, OwnKind DEF SameSigner, RecInv
  <2>4. QED
    BY <1>1, <1>2, <2>3, MovedFacts, TiedStays DEF TypeInv, RecInv
<1>5. ASSUME Peaceful, Untouched, \A t \in flight' : t \in flight, faults' = 0 PROVE Calm'
  <2>1. Calm
    BY <1>5 DEF Peaceful, RecInv
  <2>2. \A tx \in flight' : tx.by # None
    BY <1>5, <2>1 DEF Calm
  <2>3. QED
    BY <1>1, <1>2, <1>5, <2>1, <2>2, MovedFacts, OthersCalm DEF TypeInv, RecInv
<1>6. CASE Lands(d) /\ faults' = faults
  <2>1. PICK tx \in Waiting(d) : Accepts(tx) /\ Apply(tx) /\ flight' = flight \ SameSigner(tx)
    BY <1>6 DEF Lands
  <2>2. tx \in flight /\ tx.op = "keyless" /\ tx.q = client[d].q
    BY <2>1 DEF Waiting, RecInv, Tied, TiedTx
  <2>3. Peaceful /\ Effect(tx)
    BY <1>2, <1>6, <2>1, <2>2, LandingIsPeaceful
  <2>4. PaysFor(tx.q.id) /\ tasks' = tasks
    BY <2>2, <2>3 DEF Effect
  <2>5. ASSUME NEW e \in Spends, client[e].kind = "job" PROVE PaidFor(e)' = PaidFor(e)
    <3>1. e # d /\ JobId(e)[1] = e /\ JobId(e) \in Ids
      BY <1>3, <2>5, JobIdMade DEF JobId
    <3>2. JobId(e) # tx.q.id
      BY <1>3, <2>2, <3>1
    <3>3. QED
      BY <2>4, <3>1, <3>2 DEF PaysFor, PaidFor, JobId, TypeInv, ChainOK
  <2>6. Untouched
    BY <2>4, <2>5 DEF Untouched
  <2>7. RecordsOK' /\ Tied'
    BY <1>2, <1>4, <2>1, <2>3, OthersRecords DEF TypeInv, RecInv
  <2>8. QED
    BY <1>5, <2>1, <2>3, <2>6, <2>7 DEF RecInv, Peaceful
<1>7. CASE FailsOnChain(d) /\ faults' = faults
  <2>1. PICK tx \in Waiting(d) : flight' = flight \ SameSigner(tx) /\ UNCHANGED chainVars
    BY <1>7 DEF FailsOnChain
  <2>2. Peaceful /\ Untouched
    BY <1>2, <1>7, <2>1, QuietIsPeaceful DEF chainVars
  <2>3. RecordsOK' /\ Tied'
    BY <1>2, <1>4, <2>1, <2>2, OthersRecords DEF TypeInv, RecInv
  <2>4. QED
    BY <1>5, <2>1, <2>2, <2>3 DEF RecInv, Peaceful
<1>8. CASE GivesUp(d)
  <2>1. faults' = faults + 1 /\ flight' = Abandon(d) /\ UNCHANGED <<paid, tasks>>
    BY <1>8 DEF GivesUp, Fault, chainVars
  <2>2. Peaceful /\ faults' # 0
    BY <1>2, <2>1, QuietIsPeaceful DEF RecInv
  <2>3. RecordsOK'
    BY <1>2, <2>2, OthersRecords DEF TypeInv, RecInv
  <2>4. Tied'
    BY <1>1, <1>2, <2>1, MovedFacts, AbandonTied DEF RecInv, TypeInv
  <2>5. QED
    BY <2>2, <2>3, <2>4 DEF RecInv, Peaceful
<1>9. QED
  BY <1>2, <1>6, <1>7, <1>8

LEMMA EnqueueRec ==
    ASSUME TypeInv, LiveInv, RecInv, NEW d \in Spends, Enqueue(d)
    PROVE  RecInv'
<1>1. ClientMoved(d)
  BY EnqueueStep
<1>2. /\ UNCHANGED <<paid, tasks, run, record, flight, faults>> /\ client[d].at = "post"
      /\ job' = [job EXCEPT ![d].state = "waiting"]
  BY DEF Enqueue, At, chainVars
<1>3. Peaceful /\ Untouched
  BY <1>2, QuietIsPeaceful
<1>4. RecordsOK'
  BY <1>2, <1>3, OthersRecords DEF TypeInv, RecInv
<1>5. Tied'
  <2>1. \A tx \in flight' : tx.by \in Spends => tx.by # d
    BY <1>2 DEF RecInv, Tied, TiedTx
  <2>2. QED
    BY <1>1, <1>2, <2>1, MovedFacts, TiedStays DEF TypeInv, RecInv
<1>6. ASSUME faults' = 0 PROVE Calm'
  <2>1. Calm /\ \A tx \in flight' : tx.by # None
    BY <1>2, <1>6 DEF RecInv, Calm
  <2>2. JobOK(d, job[d]) /\ DOMAIN job = Spends
    BY DEF TypeInv, WorkersOK
  <2>3. job[d].state = "none" /\ job'[d].state = "waiting" /\ \A e \in Spends : e # d => job'[e] = job[e]
    BY <1>2, <2>2 DEF JobOK
  <2>4. QED
    BY <1>1, <1>2, <1>3, <2>1, <2>3, MovedFacts, OthersCalm DEF TypeInv, RecInv
<1>7. QED
  BY <1>3, <1>4, <1>5, <1>6 DEF RecInv, Peaceful

\* The owner, the clock, the sweep, and what was left behind.
LEMMA OthersRec ==
    ASSUME TypeInv, LiveInv, LiveInv', RecInv,
           \/ \E r \in Rules : Pin(r) \/ Unpin(r) \/ SetGlobal(r)
           \/ ClearGlobal \/ Tick
           \/ \E t \in 1..Len(tasks) : Sweep(t)
           \/ AbandonedLands \/ AbandonedExpires
    PROVE  RecInv'
<1>1. UNCHANGED <<client, job, run, record, faults>> /\ flight' \subseteq flight
  BY DEF Pin, Unpin, SetGlobal, ClearGlobal, Tick, Sweep, AbandonedLands, AbandonedExpires,
         ownerOnly, workerVars
<1>2. Tied'
  BY <1>1, TiedStays DEF TypeInv, RecInv
<1>3. ASSUME Peaceful, Untouched PROVE RecInv'
  <2>1. RecordsOK'
    BY <1>1, <1>3, OthersRecords DEF TypeInv, RecInv
  <2>2. ASSUME faults' = 0 PROVE Calm'
    <3>1. Calm
      BY <1>3, <2>2 DEF Peaceful, RecInv
    <3>2. \A tx \in flight' : tx.by # None
      BY <1>1, <3>1 DEF Calm
    <3>3. QED
      BY <1>1, <1>3, <3>1, <3>2, OthersCalm DEF TypeInv, RecInv
  <2>3. QED
    BY <1>2, <1>3, <2>1, <2>2 DEF RecInv, Peaceful
<1>4. CASE paid' = paid /\ tasks' = tasks
  BY <1>1, <1>3, <1>4, QuietIsPeaceful
<1>5. ASSUME NEW t \in 1..Len(tasks), Sweep(t) PROVE RecInv'
  <2>1. /\ TasksOK' /\ TasksSame /\ paid' = paid
        /\ \A x \in 1..Len(tasks) : tasks'[x].open => tasks[x].open /\ x # t
    BY <1>5, Closed DEF Sweep, RecInv
  <2>2. \A i \in Ids : paid[i] \in Nat /\ paid[i] <= 1
    BY DEF TypeInv, ChainOK, LiveInv
  <2>3. Peaceful /\ Untouched
    BY <1>1, <2>1, <2>2 DEF Peaceful, Untouched, TasksSame, PaidFor, JobId, RecInv
  <2>4. QED
    BY <1>3, <2>3
<1>6. ASSUME NEW tx \in Waiting(None), Accepts(tx), Apply(tx) PROVE RecInv'
  <2>1. tx \in flight /\ tx.by = None
    BY <1>6 DEF Waiting
  <2>2. Peaceful
    BY <1>1, <1>6, <2>1, LandingIsPeaceful
  <2>3. faults' # 0
    BY <1>1, <2>1 DEF RecInv, Calm
  <2>4. RecordsOK'
    BY <1>1, <2>2, OthersRecords DEF TypeInv, RecInv
  <2>5. QED
    BY <1>2, <2>2, <2>3, <2>4 DEF RecInv, Peaceful
<1>7. CASE AbandonedLands
  <2>1. PICK tx \in Waiting(None) : IF Accepts(tx) THEN Apply(tx) ELSE UNCHANGED chainVars
    BY <1>7 DEF AbandonedLands
  <2>2. CASE ~Accepts(tx)
    BY <1>4, <2>1, <2>2 DEF chainVars
  <2>3. QED
    BY <1>6, <2>1, <2>2
<1>8. QED
  <2>1. CASE \E r \in Rules : Pin(r) \/ Unpin(r) \/ SetGlobal(r)
    BY <1>4, <2>1 DEF Pin, Unpin, SetGlobal, ownerOnly, chainVars
  <2>2. CASE ClearGlobal \/ Tick \/ AbandonedExpires
    BY <1>4, <2>2 DEF ClearGlobal, Tick, AbandonedExpires, ownerOnly, chainVars
  <2>3. QED
    BY <1>5, <1>7, <2>1, <2>2

-----------------------------------------------------------------------------
\* The records and the workers.

LEMMA WorkerFacts ==
    ASSUME TypeInv, NEW w \in Workers, run[w].at # "idle"
    PROVE  /\ run[w].of \in Spends /\ client[run[w].of].at = "queued"
           /\ client[run[w].of].kind = "job"
           /\ client[run[w].of].q.id = JobId(run[w].of)
<1>1. run[w].of \in Spends /\ client[run[w].of].at = "queued"
  BY DEF TypeInv, WorkersOK, RunOK
<1>2. QED
  BY <1>1, ClientFacts DEF ClientOK, Posted, JobId

\* What is in flight after a step of execution w that leaves it as r, and what
\* holds of its batch while nothing has gone wrong.
FlightOf(w, r) ==
    \A tx \in flight' :
        \/ tx \in flight /\ tx.by # w
        \/ tx.by = None /\ faults' # 0
        \/ /\ tx.by = w /\ Sent(tx, r) /\ tx.q = Request(w)
           /\ tx.op # "lock" => tx.task = r.task
BatchOf(w, r) ==
    faults' = 0 =>
        /\ r.at \in Unpaid => paid'[JobId(r.of)] = 0
        /\ \A d \in Spends : \A t \in 1..Len(tasks') :
              OpenFor(t, d)' =>
                 \/ d = r.of /\ t = r.task /\ r.at \in Holding
                 \/ /\ OpenFor(t, d)
                    /\ ~(run[w].at \in Holding /\ run[w].of = d /\ run[w].task = t)

\* Execution w goes on with its batch, as r.
LEMMA CallRec ==
    ASSUME TypeInv, RecInv, NEW w \in Workers, run[w].at # "idle",
           NEW r, r.of = run[w].of, r.at # "idle", run' = [run EXCEPT ![w] = r],
           UNCHANGED <<client, job>>, Peaceful,
           \A i \in Ids : i # JobId(r.of) => paid'[i] = paid[i],
           r.at \in Settling => paid'[JobId(r.of)] = 1,
           FlightOf(w, r),
           BatchOf(w, r)
    PROVE  RecInv'
<1>1. run'[w] = r /\ \A x \in Workers : x # w => run'[x] = run[x]
  BY DEF TypeInv, WorkersOK
<1>2. \A x \in Workers : run[x].at # "idle" =>
        run[x].of \in Spends /\ client[run[x].of].at = "queued"
  BY WorkerFacts
<1>3. \A d \in Spends : JobId(d) \in Ids /\ \A e \in Spends : JobId(d) = JobId(e) => d = e
  BY JobIdMade
<1>4. \A d \in Spends : PaidFor(d) = 1 => paid'[JobId(d)] = 1
  BY <1>3 DEF Peaceful, PaidFor
<1>5. RecordsOK'
  <2>1. ASSUME NEW x \in Workers, run'[x].at \in Settling PROVE paid'[JobId(run'[x].of)] = 1
    <3>1. CASE x = w
      BY <1>1, <2>1, <3>1
    <3>2. CASE x # w
      BY <1>1, <1>2, <1>4, <2>1, <3>2 DEF RecInv, RecordsOK, Settling
    <3>3. QED
      BY <3>1, <3>2
  <2>2. QED
    BY <1>4, <2>1 DEF RecInv, RecordsOK, Peaceful, PaidFor
<1>6. ASSUME NEW tx \in flight' PROVE TiedTx(tx)'
  <2>0. \/ tx \in flight /\ tx.by # w
        \/ tx.by = None
        \/ /\ tx.by = w /\ Sent(tx, r) /\ tx.q = Request(w)
           /\ tx.op # "lock" => tx.task = r.task
    BY DEF FlightOf
  <2>1. CASE tx \in flight /\ tx.by # w
    <3>1. TiedTx(tx)
      BY <2>1 DEF RecInv, Tied
    <3>2. QED
      BY <1>1, <2>1, <3>1 DEF TiedTx, Sent
  <2>2. CASE tx.by = None
    BY <2>2, Names DEF TiedTx
  <2>3. CASE /\ tx.by = w /\ Sent(tx, r) /\ tx.q = Request(w)
             /\ tx.op # "lock" => tx.task = r.task
    BY <1>1, <2>3, Names DEF TiedTx, Sent, Request
  <2>4. QED
    BY <2>0, <2>1, <2>2, <2>3
<1>7. ASSUME faults' = 0 PROVE Calm'
  <2>1. Calm
    BY <1>7 DEF Peaceful, RecInv
  <2>2. \A tx \in flight' : tx.by # None
    BY <1>7, <2>1, Names DEF Calm, FlightOf
  <2>3. \A x \in Workers :
          run'[x].at # "idle" => job'[run'[x].of].state = "active" /\ job'[run'[x].of].by = x
    BY <1>1, <2>1 DEF Calm
  <2>4. \A x \in Workers : x # w /\ run[x].at # "idle" => run[x].of # r.of
    BY <2>1 DEF Calm
  <2>5. ASSUME NEW x \in Workers, run'[x].at \in Unpaid PROVE paid'[JobId(run'[x].of)] = 0
    <3>1. CASE x = w
      BY <1>1, <1>7, <2>5, <3>1 DEF BatchOf
    <3>2. CASE x # w
      <4>1. run[x].at # "idle" /\ run'[x] = run[x] /\ run[x].of \in Spends /\ r.of \in Spends
        BY <1>1, <1>2, <2>5, <3>2 DEF Unpaid
      <4>2. JobId(run[x].of) # JobId(r.of)
        BY <1>3, <2>4, <3>2, <4>1
      <4>3. QED
        BY <1>3, <2>1, <2>5, <4>1, <4>2 DEF Calm, PaidFor
    <3>3. QED
      BY <3>1, <3>2
  <2>6. ASSUME NEW d \in Spends, NEW t \in 1..Len(tasks'), OpenFor(t, d)' PROVE HeldBy(t, d)'
    <3>1. CASE d = r.of /\ t = r.task /\ r.at \in Holding
      BY <1>1, <3>1 DEF HeldBy
    <3>2. CASE /\ OpenFor(t, d)
               /\ ~(run[w].at \in Holding /\ run[w].of = d /\ run[w].task = t)
      <4>1. PICK x \in Workers : run[x].at \in Holding /\ run[x].of = d /\ run[x].task = t
        BY <2>1, <3>2 DEF Calm, OpenFor, HeldBy
      <4>2. x # w
        BY <3>2, <4>1
      <4>3. QED
        BY <1>1, <4>1, <4>2 DEF HeldBy
    <3>3. QED
      BY <1>7, <2>6, <3>1, <3>2 DEF BatchOf
  <2>7. ASSUME NEW d \in Spends, d # r.of PROVE paid'[JobId(d)] = PaidFor(d)
    <3>1. r.of \in Spends
      BY <1>2
    <3>2. QED
      BY <1>3, <2>7, <3>1 DEF PaidFor
  <2>8. job[r.of].state = "active"
    BY <2>1 DEF Calm
  <2>9. \A d \in Spends :
          client'[d].kind = "job" /\ job'[d].state \in {"none", "waiting"} => paid'[JobId(d)] = 0
    BY <2>1, <2>7, <2>8 DEF Calm
  <2>10. \A d \in Spends :
           /\ record'[d] # "none" => job'[d].state = "done"
           /\ record'[d] = "FAILED" => paid'[JobId(d)] = 0
    BY <2>1, <2>7, <2>8 DEF Calm, Peaceful
  <2>11. QED
    BY <2>2, <2>3, <2>5, <2>6, <2>9, <2>10 DEF Calm, PaidFor
<1>8. QED
  BY <1>5, <1>6, <1>7 DEF RecInv, Peaceful, Tied

\* A step of its that neither pays nor touches a task.
LEMMA CallQuietRec ==
    ASSUME TypeInv, LiveInv, RecInv, NEW w \in Workers, run[w].at # "idle",
           NEW r, r.of = run[w].of, r.task = run[w].task, r.at # "idle",
           run' = [run EXCEPT ![w] = r],
           UNCHANGED <<client, job, record, paid, tasks>>,
           faults' = faults \/ faults' = faults + 1,
           FlightOf(w, r),
           r.at \in Settling => run[w].at \in Settling,
           faults' = 0 =>
              /\ r.at \in Unpaid => run[w].at \in Unpaid
              /\ run[w].at \in Holding => r.at \in Holding \/ ~tasks[run[w].task].open
    PROVE  RecInv'
<1>1. Peaceful
  BY QuietIsPeaceful
<1>2. r.of \in Spends
  BY WorkerFacts
<1>3. r.at \in Settling => paid'[JobId(r.of)] = 1
  BY DEF RecInv, RecordsOK, PaidFor
<1>4. ASSUME faults' = 0
      PROVE  /\ r.at \in Unpaid => paid'[JobId(r.of)] = 0
             /\ \A d \in Spends : \A t \in 1..Len(tasks') :
                   OpenFor(t, d)' =>
                      \/ d = r.of /\ t = r.task /\ r.at \in Holding
                      \/ /\ OpenFor(t, d)
                         /\ ~(run[w].at \in Holding /\ run[w].of = d /\ run[w].task = t)
  <2>1. Calm
    BY <1>1, <1>4 DEF Peaceful, RecInv
  <2>2. r.at \in Unpaid => paid'[JobId(r.of)] = 0
    BY <1>4, <2>1 DEF Calm, PaidFor
  <2>3. \A d \in Spends, t \in 1..Len(tasks') : OpenFor(t, d)' => OpenFor(t, d)
    BY DEF OpenFor, JobId
  <2>4. QED
    BY <1>4, <2>2, <2>3 DEF OpenFor
<1>5. BatchOf(w, r)
  BY <1>4 DEF BatchOf
<1>6. QED
  BY <1>1, <1>3, <1>5, CallRec

LEMMA RunGoesTo ==
    ASSUME TypeInv, NEW w \in Workers, NEW place, RunGoto(w, place)
    PROVE  \E r : /\ r.at = place /\ r.of = run[w].of /\ r.task = run[w].task
                  /\ run' = [run EXCEPT ![w] = r]
<1>1. PICK r : r = [run[w] EXCEPT !.at = place]
  OBVIOUS
<1>2. RunOK(run[w]) /\ DOMAIN run = Workers
  BY DEF TypeInv, WorkersOK
<1>3. run' = [run EXCEPT ![w] = r]
  BY <1>1, <1>2 DEF RunGoto
<1>4. r.at = place /\ r.of = run[w].of /\ r.task = run[w].task
  BY <1>1, <1>2 DEF RunOK
<1>5. QED
  BY <1>3, <1>4

\* Who is not at a call waits for nothing.
LEMMA WaitsForNothing ==
    ASSUME RecInv, NEW w \in Workers,
           run[w].at \notin {"locking", "releasing", "completing", "rolling"}
    PROVE  \A tx \in flight : tx.by # w
BY DEF RecInv, Tied, TiedTx, Sent

LEMMA WaitsNoMore ==
    ASSUME RecInv, NEW w \in Workers, NEW tx \in Waiting(w), flight' = flight \ SameSigner(tx)
    PROVE  \A t \in flight' : t \in flight /\ t.by # w
<1>1. tx \in flight /\ tx.by = w
  BY DEF Waiting
<1>2. Signer(tx) = "delegate"
  BY <1>1, OwnKind DEF RecInv
<1>3. QED
  BY <1>2, OwnKind DEF SameSigner, RecInv

\* Given up, its transactions are nobody's.
LEMMA GivenUp ==
    ASSUME TypeInv, NEW w, flight' = Abandon(w)
    PROVE  \A tx \in flight' : (tx \in flight /\ tx.by # w) \/ tx.by = None
<1> SUFFICES ASSUME NEW tx \in flight' PROVE (tx \in flight /\ tx.by # w) \/ tx.by = None
  OBVIOUS
<1>1. ASSUME NEW t \in Waiting(w), tx = [t EXCEPT !.by = None] PROVE tx.by = None
  <2>1. t = [op |-> t.op, by |-> t.by, task |-> t.task, q |-> t.q]
    BY DEF Waiting, TypeInv, FlightOK, TxOK
  <2>2. QED
    BY <1>1, <2>1
<1>2. QED
  BY <1>1 DEF Abandon, Waiting

\* The five ways a call goes that pay and close nothing: not sent, sent, failed,
\* given up; what may be said of the place it goes to.
LEMMA CallGoesRec ==
    ASSUME TypeInv, LiveInv, RecInv, NEW w \in Workers, run[w].at # "idle",
           UNCHANGED <<client, job, record>>, NEW place, place # "idle", RunGoto(w, place),
           NEW tx, tx.by = w, tx.q = Request(w), tx.op # "lock" => tx.task = run[w].task,
           \/ /\ Submit(tx) /\ faults' = faults /\ \A r : r.at = place => Sent(tx, r)
              /\ run[w].at \notin {"locking", "releasing", "completing", "rolling"}
           \/ /\ Refused(tx) /\ faults' = faults
              /\ run[w].at \notin {"locking", "releasing", "completing", "rolling"}
           \/ FailsOnChain(w) /\ faults' = faults
           \/ GivesUp(w),
           place \in Settling => run[w].at \in Settling,
           faults' = 0 =>
              /\ place \in Unpaid => run[w].at \in Unpaid
              /\ run[w].at \in Holding => place \in Holding \/ ~tasks[run[w].task].open
    PROVE  RecInv'
<1>1. PICK r : /\ r.at = place /\ r.of = run[w].of /\ r.task = run[w].task
               /\ run' = [run EXCEPT ![w] = r]
  BY RunGoesTo
<1>2. UNCHANGED <<paid, tasks>> /\ (faults' = faults \/ faults' = faults + 1)
  BY DEF Submit, Refused, FailsOnChain, GivesUp, Fault, chainVars
<1>3. \A t \in flight' :
        \/ t \in flight /\ t.by # w
        \/ t.by = None /\ faults' # 0
        \/ /\ t.by = w /\ Sent(t, r) /\ t.q = Request(w)
           /\ t.op # "lock" => t.task = r.task
  <2>1. CASE /\ Submit(tx) /\ \A x : x.at = place => Sent(tx, x)
             /\ run[w].at \notin {"locking", "releasing", "completing", "rolling"}
    BY <1>1, <2>1, WaitsForNothing DEF Submit
  <2>2. CASE /\ Refused(tx)
             /\ run[w].at \notin {"locking", "releasing", "completing", "rolling"}
    BY <2>2, WaitsForNothing DEF Refused
  <2>3. CASE FailsOnChain(w)
    BY <2>3, WaitsNoMore DEF FailsOnChain
  <2>4. CASE GivesUp(w)
    <3>1. flight' = Abandon(w) /\ faults' # 0
      BY <2>4 DEF GivesUp, Fault, RecInv
    <3>2. QED
      BY <3>1, GivenUp
  <2>5. QED
    BY <2>1, <2>2, <2>3, <2>4
<1>4. /\ r.at # "idle" /\ (r.at \in Settling => run[w].at \in Settling)
      /\ UNCHANGED <<client, job, record, paid, tasks>>
  BY <1>1, <1>2
<1>5. faults' = 0 =>
        /\ r.at \in Unpaid => run[w].at \in Unpaid
        /\ run[w].at \in Holding => r.at \in Holding \/ ~tasks[run[w].task].open
  BY <1>1
<1>6. r.of = run[w].of /\ r.task = run[w].task /\ run' = [run EXCEPT ![w] = r]
  BY <1>1
<1>7. faults' = faults \/ faults' = faults + 1
  BY <1>2
<1>8. FlightOf(w, r)
  BY <1>3 DEF FlightOf
<1>9. QED
  BY <1>4, <1>5, <1>6, <1>7, <1>8, CallQuietRec

\* The transaction of a call lands.
LEMMA LandsRec ==
    ASSUME TypeInv, LiveInv, LiveInv', RecInv, NEW w \in Workers, run[w].at # "idle",
           UNCHANGED <<client, job, record, faults>>,
           NEW r, r.of = run[w].of, run' = [run EXCEPT ![w] = r],
           NEW tx \in Waiting(w), Accepts(tx), Apply(tx), flight' = flight \ SameSigner(tx),
           \/ run[w].at = "locking" /\ r.at = "release" /\ r.task = Len(tasks) + 1
           \/ run[w].at = "releasing" /\ r.at = "complete" /\ r.task = run[w].task
           \/ run[w].at = "completing" /\ r.at = "settled"
           \/ run[w].at = "rolling" /\ r.at = "failed"
    PROVE  RecInv'
<1>1. tx \in flight /\ tx.by = w
  BY DEF Waiting
<1>2. /\ Sent(tx, run[w]) /\ tx.q.id = JobId(r.of) /\ r.of \in Spends
      /\ tx.op # "lock" => tx.task = run[w].task
  BY <1>1, WorkerFacts DEF RecInv, Tied, TiedTx
<1>3. Peaceful /\ Effect(tx)
  BY <1>1, LandingIsPeaceful
<1>4. FlightOf(w, r)
  BY WaitsNoMore DEF FlightOf
<1>5. JobId(r.of) \in Ids /\ paid \in [Ids -> Nat] /\ tasks \in Seq(VaultTask)
  BY <1>2, JobIdMade DEF TypeInv, ChainOK, RecInv, TasksOK
<1>6. r.at # "idle" /\ UNCHANGED <<client, job>>
  OBVIOUS
<1>7. \A i \in Ids : i # JobId(r.of) => paid'[i] = paid[i]
  BY <1>2, <1>3, <1>5 DEF Effect, PaysFor
<1>8. (faults' = 0 => Calm) /\ Peaceful
  BY <1>3 DEF RecInv
<1>9. CASE run[w].at = "locking"
  <2>1. /\ paid' = paid /\ Len(tasks') = Len(tasks) + 1
        /\ \A t \in 1..Len(tasks) : tasks'[t] = tasks[t]
        /\ tasks'[Len(tasks) + 1].of = JobId(r.of)
    BY <1>2, <1>3, <1>9 DEF Effect, Sent
  <2>2. faults' = 0 => paid'[JobId(r.of)] = 0
    BY <1>8, <1>9, <2>1 DEF Calm, Unpaid, PaidFor
  <2>3. ASSUME NEW d \in Spends, NEW t \in 1..Len(tasks'), OpenFor(t, d)'
        PROVE  (d = r.of /\ t = r.task) \/ OpenFor(t, d)
    <3>1. CASE t = Len(tasks) + 1
      BY <1>2, <1>9, <2>1, <2>3, <3>1, JobIdMade DEF OpenFor, JobId
    <3>2. CASE t \in 1..Len(tasks)
      BY <2>1, <2>3, <3>2 DEF OpenFor, JobId
    <3>3. QED
      BY <1>5, <2>1, <3>1, <3>2
  <2>4. r.at \in Holding /\ r.at \notin Settling /\ run[w].at \notin Holding
    BY <1>9 DEF Holding, Settling
  <2>5. BatchOf(w, r)
    BY <2>2, <2>3, <2>4 DEF BatchOf
  <2>6. r.at \in Settling => paid'[JobId(r.of)] = 1
    BY <2>4
  <2>7. QED
    BY <1>4, <1>6, <1>7, <1>8, <2>5, <2>6, CallRec
<1>10. CASE run[w].at = "releasing"
  <2>1. /\ PaysFor(JobId(r.of)) /\ TasksSame
        /\ \A t \in 1..Len(tasks) : tasks'[t].open = tasks[t].open
    BY <1>2, <1>3, <1>10 DEF Effect, Sent
  <2>2. paid'[JobId(r.of)] = 1
    BY <1>3, <1>5, <2>1 DEF PaysFor, Peaceful
  <2>3. ASSUME NEW d \in Spends, NEW t \in 1..Len(tasks'), OpenFor(t, d)'
        PROVE  OpenFor(t, d)
    BY <2>1, <2>3 DEF OpenFor, JobId, TasksSame
  <2>4. r.at \in Holding /\ r.at \notin Unpaid /\ r.task = run[w].task
    BY <1>10 DEF Holding, Unpaid
  <2>5. BatchOf(w, r)
    BY <2>2, <2>3, <2>4 DEF BatchOf
  <2>6. r.at \in Settling => paid'[JobId(r.of)] = 1
    BY <2>2
  <2>7. QED
    BY <1>4, <1>6, <1>7, <1>8, <2>5, <2>6, CallRec
<1>11. CASE run[w].at \in {"completing", "rolling"}
  <2>1. /\ paid' = paid /\ TasksSame
        /\ \A t \in 1..Len(tasks) : tasks'[t].open => tasks[t].open /\ t # run[w].task
    BY <1>2, <1>3, <1>11 DEF Effect, Sent
  <2>2. r.at \in Settling => paid'[JobId(r.of)] = 1
    BY <1>11, <2>1 DEF Settling, RecInv, RecordsOK, PaidFor
  <2>3. faults' = 0 => (r.at \in Unpaid => paid'[JobId(r.of)] = 0)
    BY <1>8, <1>11, <2>1 DEF Unpaid, Calm, PaidFor
  <2>4. ASSUME NEW d \in Spends, NEW t \in 1..Len(tasks'), OpenFor(t, d)'
        PROVE  OpenFor(t, d) /\ run[w].task # t
    BY <2>1, <2>4 DEF OpenFor, JobId, TasksSame
  <2>5. BatchOf(w, r)
    BY <2>2, <2>3, <2>4 DEF BatchOf
  <2>6. r.at \in Settling => paid'[JobId(r.of)] = 1
    BY <2>2
  <2>7. QED
    BY <1>4, <1>6, <1>7, <1>8, <2>5, <2>6, CallRec
<1>12. QED
  BY <1>9, <1>10, <1>11

LEMMA EnterRec ==
    ASSUME TypeInv, LiveInv, RecInv, NEW w \in Workers, Enter(w)
    PROVE  RecInv'
<1>1. /\ run[w].at = "enter" /\ RunGoto(w, "lock")
      /\ UNCHANGED <<client, job, record, paid, tasks, faults, flight>>
  BY DEF Enter, RunAt, runOnly, chainVars
<1>2. PICK r : /\ r.at = "lock" /\ r.of = run[w].of /\ r.task = run[w].task
               /\ run' = [run EXCEPT ![w] = r]
  BY <1>1, RunGoesTo
<1>3. FlightOf(w, r)
  BY <1>1, WaitsForNothing DEF FlightOf
<1>4. r.at \notin Settling /\ run[w].at \in Unpaid /\ run[w].at \notin Holding
  BY <1>1, <1>2 DEF Settling, Unpaid, Holding
<1>5. /\ r.at # "idle" /\ run[w].at # "idle"
      /\ r.at \in Settling => run[w].at \in Settling
      /\ UNCHANGED <<client, job, record, paid, tasks>>
      /\ faults' = faults \/ faults' = faults + 1
  BY <1>1, <1>2, <1>4
<1>6. faults' = 0 =>
        /\ r.at \in Unpaid => run[w].at \in Unpaid
        /\ run[w].at \in Holding => r.at \in Holding \/ ~tasks[run[w].task].open
  BY <1>4
<1>7. QED
  BY <1>2, <1>3, <1>5, <1>6, CallQuietRec

LEMMA LockRec ==
    ASSUME TypeInv, LiveInv, LiveInv', RecInv, NEW w \in Workers, LockBatch(w)
    PROVE  RecInv'
<1>1. UNCHANGED <<client, job, record>>
  BY DEF LockBatch
<1>2. PICK tx : tx = LockTx(w)
  OBVIOUS
<1>3. tx.by = w /\ tx.q = Request(w) /\ tx.op = "lock"
  BY <1>2 DEF LockTx
<1>4. \/ run[w].at = "lock" /\ Submit(tx) /\ RunGoto(w, "locking") /\ faults' = faults
      \/ run[w].at = "lock" /\ Refused(tx) /\ RunGoto(w, "failed") /\ faults' = faults
      \/ /\ run[w].at = "locking" /\ Lands(w) /\ faults' = faults
         /\ run' = [run EXCEPT ![w].at = "release", ![w].task = Len(tasks) + 1]
      \/ run[w].at = "locking" /\ FailsOnChain(w) /\ RunGoto(w, "failed") /\ faults' = faults
      \/ run[w].at = "locking" /\ GivesUp(w) /\ RunGoto(w, "failed")
  BY <1>2 DEF LockBatch, Call, RunAt, Leaving
<1>5. CASE run[w].at = "lock" /\ Submit(tx) /\ RunGoto(w, "locking") /\ faults' = faults
  <2>1. \A r : r.at = "locking" => Sent(tx, r)
    BY <1>3 DEF Sent
  <2>2. "locking" \notin Settling /\ run[w].at \in Unpaid /\ run[w].at \notin Holding
    BY <1>5 DEF Settling, Unpaid, Holding
  <2>3. QED
    BY <1>1, <1>3, <1>5, <2>1, <2>2, CallGoesRec
<1>6. CASE /\ RunGoto(w, "failed")
           /\ \/ run[w].at = "lock" /\ Refused(tx) /\ faults' = faults
              \/ run[w].at = "locking" /\ FailsOnChain(w) /\ faults' = faults
              \/ run[w].at = "locking" /\ GivesUp(w)
  <2>1. "failed" \notin Settling /\ run[w].at \in Unpaid /\ run[w].at \notin Holding
    BY <1>6 DEF Settling, Unpaid, Holding
  <2>2. QED
    BY <1>1, <1>3, <1>6, <2>1, CallGoesRec
<1>7. CASE /\ run[w].at = "locking" /\ Lands(w) /\ faults' = faults
           /\ run' = [run EXCEPT ![w].at = "release", ![w].task = Len(tasks) + 1]
  <2>1. PICK r : r = [run[w] EXCEPT !.at = "release", !.task = Len(tasks) + 1]
    OBVIOUS
  <2>2. RunOK(run[w]) /\ DOMAIN run = Workers
    BY DEF TypeInv, WorkersOK
  <2>3. run' = [run EXCEPT ![w] = r]
    BY <1>7, <2>1, <2>2
  <2>4. r.at = "release" /\ r.task = Len(tasks) + 1 /\ r.of = run[w].of
    BY <2>1, <2>2 DEF RunOK
  <2>5. PICK t \in Waiting(w) : Accepts(t) /\ Apply(t) /\ flight' = flight \ SameSigner(t)
    BY <1>7 DEF Lands
  <2>6. QED
    BY <1>1, <1>7, <2>3, <2>4, <2>5, LandsRec
<1>8. QED
  BY <1>4, <1>5, <1>6, <1>7

LEMMA ReleaseRec ==
    ASSUME TypeInv, LiveInv, LiveInv', RecInv, NEW w \in Workers, ReleaseBatch(w)
    PROVE  RecInv'
<1>1. UNCHANGED <<client, job, record>>
  BY DEF ReleaseBatch
<1>2. PICK tx : tx = ReleaseTx(w)
  OBVIOUS
<1>3. tx.by = w /\ tx.q = Request(w) /\ tx.op = "release" /\ tx.task = run[w].task
  BY <1>2 DEF ReleaseTx
<1>4. \/ run[w].at = "release" /\ Submit(tx) /\ RunGoto(w, "releasing") /\ faults' = faults
      \/ run[w].at = "release" /\ Refused(tx) /\ RunGoto(w, "rollback") /\ faults' = faults
      \/ run[w].at = "releasing" /\ Lands(w) /\ RunGoto(w, "complete") /\ faults' = faults
      \/ run[w].at = "releasing" /\ FailsOnChain(w) /\ RunGoto(w, "rollback") /\ faults' = faults
      \/ run[w].at = "releasing" /\ GivesUp(w) /\ RunGoto(w, "rollback")
  BY <1>2 DEF ReleaseBatch, Call, RunAt, On
<1>5. CASE run[w].at = "release" /\ Submit(tx) /\ RunGoto(w, "releasing") /\ faults' = faults
  <2>1. \A r : r.at = "releasing" => Sent(tx, r)
    BY <1>3 DEF Sent
  <2>2. "releasing" \notin Settling /\ run[w].at \in Unpaid /\ "releasing" \in Holding
    BY <1>5 DEF Settling, Unpaid, Holding
  <2>3. QED
    BY <1>1, <1>3, <1>5, <2>1, <2>2, CallGoesRec
<1>6. CASE /\ RunGoto(w, "rollback")
           /\ \/ run[w].at = "release" /\ Refused(tx) /\ faults' = faults
              \/ run[w].at = "releasing" /\ FailsOnChain(w) /\ faults' = faults
              \/ run[w].at = "releasing" /\ GivesUp(w)
  <2>1. "rollback" \notin Settling /\ run[w].at \in Unpaid /\ "rollback" \in Holding
    BY <1>6 DEF Settling, Unpaid, Holding
  <2>2. QED
    BY <1>1, <1>3, <1>6, <2>1, CallGoesRec
<1>7. CASE run[w].at = "releasing" /\ Lands(w) /\ RunGoto(w, "complete") /\ faults' = faults
  <2>1. PICK r : /\ r.at = "complete" /\ r.of = run[w].of /\ r.task = run[w].task
                 /\ run' = [run EXCEPT ![w] = r]
    BY <1>7, RunGoesTo
  <2>2. PICK t \in Waiting(w) : Accepts(t) /\ Apply(t) /\ flight' = flight \ SameSigner(t)
    BY <1>7 DEF Lands
  <2>3. QED
    BY <1>1, <1>7, <2>1, <2>2, LandsRec
<1>8. QED
  BY <1>4, <1>5, <1>6, <1>7

\* Completing, after a release or instead of one: when the vault refuses, the
\* task is closed already.
LEMMA CompleteRec ==
    ASSUME TypeInv, LiveInv, LiveInv', RecInv, NEW w \in Workers, FinishBatch(w) \/ RollBack(w)
    PROVE  RecInv'
<1>1. UNCHANGED <<client, job, record>>
  BY DEF FinishBatch, RollBack
<1>2. PICK tx : tx = CompleteTx(w)
  OBVIOUS
<1>3. tx.by = w /\ tx.q = Request(w) /\ tx.op = "complete" /\ tx.task = run[w].task
  BY <1>2 DEF CompleteTx
<1>4. PICK from, sent, to :
        /\ \/ from = "complete" /\ sent = "completing" /\ to = "settled"
           \/ from = "rollback" /\ sent = "rolling" /\ to = "failed"
        /\ \/ run[w].at = from /\ Submit(tx) /\ RunGoto(w, sent) /\ faults' = faults
           \/ run[w].at = from /\ Refused(tx) /\ RunGoto(w, to) /\ faults' = faults
           \/ run[w].at = sent /\ Lands(w) /\ RunGoto(w, to) /\ faults' = faults
           \/ run[w].at = sent /\ FailsOnChain(w) /\ RunGoto(w, to) /\ faults' = faults
           \/ run[w].at = sent /\ GivesUp(w) /\ RunGoto(w, to)
  <2>1. CASE FinishBatch(w)
    BY <1>2, <2>1 DEF FinishBatch, Call, RunAt, Leaving
  <2>2. CASE RollBack(w)
    BY <1>2, <2>2 DEF RollBack, Call, RunAt, Leaving
  <2>3. QED
    BY <2>1, <2>2
<1>5. /\ (from \in Settling <=> sent \in Settling) /\ (from \in Settling <=> to \in Settling)
      /\ (from \in Unpaid <=> sent \in Unpaid) /\ (from \in Unpaid <=> to \in Unpaid)
      /\ sent \in Holding /\ from # "idle" /\ sent # "idle" /\ to # "idle"
  BY <1>4 DEF Settling, Unpaid, Holding
<1>6. CASE run[w].at = from /\ Submit(tx) /\ RunGoto(w, sent) /\ faults' = faults
  <2>1. \A r : r.at = sent => Sent(tx, r)
    BY <1>3, <1>4 DEF Sent
  <2>2. run[w].at \notin {"locking", "releasing", "completing", "rolling"}
    BY <1>4, <1>6
  <2>3. QED
    BY <1>1, <1>3, <1>5, <1>6, <2>1, <2>2, CallGoesRec
<1>7. CASE run[w].at = from /\ Refused(tx) /\ RunGoto(w, to) /\ faults' = faults
  <2>1. ~tasks[run[w].task].open
    BY <1>3, <1>7 DEF Refused, Accepts
  <2>2. run[w].at \notin {"locking", "releasing", "completing", "rolling"}
    BY <1>4, <1>7
  <2>3. QED
    BY <1>1, <1>3, <1>5, <1>7, <2>1, <2>2, CallGoesRec
<1>8. CASE run[w].at = sent /\ FailsOnChain(w) /\ RunGoto(w, to) /\ faults' = faults
  <2>1. PICK t \in Waiting(w) : ~Accepts(t)
    BY <1>8 DEF FailsOnChain
  <2>2. t \in flight /\ t.by = w
    BY <2>1 DEF Waiting
  <2>3. t.op = "complete" /\ t.task = run[w].task
    BY <1>4, <1>8, <2>2 DEF RecInv, Tied, TiedTx, Sent
  <2>4. ~tasks[run[w].task].open
    BY <2>1, <2>3 DEF Accepts
  <2>5. QED
    BY <1>1, <1>3, <1>5, <1>8, <2>4, CallGoesRec
<1>9. CASE run[w].at = sent /\ GivesUp(w) /\ RunGoto(w, to)
  <2>1. faults' # 0
    BY <1>9 DEF GivesUp, Fault, RecInv
  <2>2. QED
    BY <1>1, <1>3, <1>5, <1>9, <2>1, CallGoesRec
<1>10. CASE run[w].at = sent /\ Lands(w) /\ RunGoto(w, to) /\ faults' = faults
  <2>1. PICK r : /\ r.at = to /\ r.of = run[w].of /\ r.task = run[w].task
                 /\ run' = [run EXCEPT ![w] = r]
    BY <1>10, RunGoesTo
  <2>2. PICK t \in Waiting(w) : Accepts(t) /\ Apply(t) /\ flight' = flight \ SameSigner(t)
    BY <1>10 DEF Lands
  <2>3. QED
    BY <1>1, <1>4, <1>5, <1>10, <2>1, <2>2, LandsRec
<1>11. QED
  BY <1>4, <1>6, <1>7, <1>8, <1>9, <1>10

LEMMA TakeRec ==
    ASSUME TypeInv, LiveInv, RecInv, NEW w \in Workers, NEW d \in Spends, Take(w, d)
    PROVE  RecInv'
<1>1. /\ run[w].at = "idle" /\ job[d].state = "waiting"
      /\ UNCHANGED <<client, record, paid, tasks, faults, flight>>
  BY DEF Take, RunAt, runOnly, chainVars
<1>2. JobOK(d, job[d]) /\ DOMAIN job = Spends /\ DOMAIN run = Workers
  BY DEF TypeInv, WorkersOK
<1>3. /\ run'[w].at = "enter" /\ run'[w].of = d
      /\ \A x \in Workers : x # w => run'[x] = run[x]
  BY <1>2 DEF Take, Idle
<1>4. /\ job'[d].state = "active" /\ job'[d].by = w
      /\ \A e \in Spends : e # d => job'[e] = job[e]
  BY <1>2 DEF Take, JobOK
<1>5. client[d].at = "queued" /\ client[d].kind = "job"
  BY <1>1, <1>2, ClientFacts DEF JobOK, ClientOK
<1>6. Peaceful
  BY <1>1, QuietIsPeaceful
<1>7. RecordsOK'
  BY <1>1, <1>3 DEF RecInv, RecordsOK, Settling, PaidFor, JobId
<1>8. Tied'
  <2>1. \A tx \in flight' : tx.by \in Workers => run'[tx.by] = run[tx.by]
    BY <1>1, <1>3, WaitsForNothing
  <2>2. QED
    BY <1>1, <2>1, TiedStays DEF TypeInv, RecInv
<1>9. ASSUME faults' = 0 PROVE Calm'
  <2>1. Calm
    BY <1>1, <1>9 DEF RecInv
  <2>2. \A x \in Workers : x # w /\ run[x].at # "idle" => run[x].of # d
    BY <1>1, <2>1 DEF Calm
  <2>3. \A x \in Workers :
          run'[x].at # "idle" => job'[run'[x].of].state = "active" /\ job'[run'[x].of].by = x
    <3>1. \A x \in Workers : run[x].at # "idle" => run[x].of \in Spends
      BY WorkerFacts
    <3>2. QED
      BY <1>3, <1>4, <2>1, <2>2, <3>1 DEF Calm
  <2>4. \A x \in Workers : run'[x].at \in Unpaid => PaidFor(run'[x].of) = 0
    BY <1>1, <1>3, <1>5, <2>1 DEF Calm
  <2>5. ASSUME NEW e \in Spends, NEW t \in 1..Len(tasks'), OpenFor(t, e)' PROVE HeldBy(t, e)'
    <3>1. PICK x \in Workers : run[x].at \in Holding /\ run[x].of = e /\ run[x].task = t
      BY <1>1, <2>1, <2>5 DEF Calm, OpenFor, HeldBy, JobId
    <3>2. x # w
      BY <1>1, <3>1 DEF Holding
    <3>3. QED
      BY <1>3, <3>1, <3>2 DEF HeldBy
  <2>6. \A e \in Spends :
          client'[e].kind = "job" /\ job'[e].state \in {"none", "waiting"} => PaidFor(e) = 0
    BY <1>1, <1>4, <2>1 DEF Calm
  <2>7. \A e \in Spends :
          /\ record'[e] # "none" => job'[e].state = "done"
          /\ record'[e] = "FAILED" => PaidFor(e) = 0
    BY <1>1, <1>4, <2>1 DEF Calm
  <2>8. \A tx \in flight' : tx.by # None
    BY <1>1, <2>1 DEF Calm
  <2>9. \A e : paid'[JobId(e)] = PaidFor(e)
    BY <1>1 DEF PaidFor
  <2>10. QED
    BY <2>3, <2>4, <2>5, <2>6, <2>7, <2>8, <2>9, ZenonT(40) DEF Calm, PaidFor, JobId
<1>10. QED
  BY <1>6, <1>7, <1>8, <1>9 DEF RecInv, Peaceful

LEMMA RecordRec ==
    ASSUME TypeInv, LiveInv, RecInv, NEW w \in Workers, Record(w)
    PROVE  RecInv'
<1>1. PICK d : d = run[w].of
  OBVIOUS
<1>2. /\ run[w].at \in {"settled", "failed"} /\ run' = [run EXCEPT ![w] = Idle]
      /\ record' = [record EXCEPT ![d] = IF run[w].at = "settled" THEN "COMPLETED" ELSE "FAILED"]
      /\ job' = IF job[d].by = w THEN [job EXCEPT ![d].state = "done", ![d].by = None] ELSE job
      /\ UNCHANGED <<client, paid, tasks, faults, flight>>
  BY <1>1 DEF Record, RunAt, chainVars
<1>3. d \in Spends /\ client[d].at = "queued" /\ JobOK(d, job[d])
      /\ DOMAIN job = Spends /\ DOMAIN run = Workers /\ DOMAIN record = Spends
      /\ record = [e \in Spends |-> record[e]]
  BY <1>1, <1>2, WorkerFacts DEF TypeInv, WorkersOK, RecInv, RecordsOK
<1>4. run'[w].at = "idle" /\ \A x \in Workers : x # w => run'[x] = run[x]
  BY <1>2, <1>3 DEF Idle
<1>5. /\ record' = [e \in Spends |-> record'[e]]
      /\ record'[d] = IF run[w].at = "settled" THEN "COMPLETED" ELSE "FAILED"
      /\ \A e \in Spends : e # d => record'[e] = record[e]
  BY <1>2, <1>3
<1>6. \A e : paid'[JobId(e)] = PaidFor(e)
  BY <1>2 DEF PaidFor
<1>7. RecordsOK'
  <2>1. ASSUME NEW e \in Spends, record'[e] = "COMPLETED" PROVE PaidFor(e) = 1
    <3>1. CASE e = d
      BY <1>1, <1>2, <1>5, <2>1, <3>1 DEF RecInv, RecordsOK, Settling
    <3>2. CASE e # d
      BY <1>5, <2>1, <3>2 DEF RecInv, RecordsOK
    <3>3. QED
      BY <3>1, <3>2
  <2>2. \A x \in Workers : run'[x].at \in Settling => PaidFor(run'[x].of) = 1
    BY <1>4 DEF RecInv, RecordsOK, Settling
  <2>3. QED
    BY <1>5, <1>6, <2>1, <2>2 DEF RecordsOK, PaidFor, JobId
<1>8. Tied'
  <2>1. \A tx \in flight' : tx.by \in Workers => run'[tx.by] = run[tx.by]
    BY <1>2, <1>4, WaitsForNothing
  <2>2. QED
    BY <1>2, <2>1, TiedStays DEF TypeInv, RecInv
<1>9. ASSUME faults' = 0 PROVE Calm'
  <2>1. Calm
    BY <1>2, <1>9 DEF RecInv
  <2>2. job[d].by = w
    BY <1>1, <1>2, <2>1 DEF Calm
  <2>3. job'[d].state = "done" /\ \A e \in Spends : e # d => job'[e] = job[e]
    BY <1>2, <1>3, <2>2 DEF JobOK
  <2>4. ASSUME NEW x \in Workers, run'[x].at # "idle"
        PROVE  x # w /\ run'[x] = run[x] /\ run[x].of \in Spends /\ run[x].of # d
    <3>1. x # w /\ run'[x] = run[x]
      BY <1>4, <2>4
    <3>2. QED
      BY <2>1, <2>2, <2>4, <3>1, WorkerFacts DEF Calm
  <2>5. \A x \in Workers :
          run'[x].at # "idle" => job'[run'[x].of].state = "active" /\ job'[run'[x].of].by = x
    BY <2>1, <2>3, <2>4 DEF Calm
  <2>6. \A x \in Workers : run'[x].at \in Unpaid => PaidFor(run'[x].of) = 0
    BY <2>1, <2>4 DEF Calm, Unpaid
  <2>7. ASSUME NEW e \in Spends, NEW t \in 1..Len(tasks'), OpenFor(t, e)' PROVE HeldBy(t, e)'
    <3>1. PICK x \in Workers : run[x].at \in Holding /\ run[x].of = e /\ run[x].task = t
      BY <1>2, <2>1, <2>7 DEF Calm, OpenFor, HeldBy, JobId
    <3>2. x # w
      BY <1>2, <3>1 DEF Holding
    <3>3. QED
      BY <1>4, <3>1, <3>2 DEF HeldBy
  <2>8. \A e \in Spends :
          client'[e].kind = "job" /\ job'[e].state \in {"none", "waiting"} => PaidFor(e) = 0
    BY <1>2, <2>1, <2>3 DEF Calm
  <2>9. ASSUME NEW e \in Spends
        PROVE  /\ record'[e] # "none" => job'[e].state = "done"
               /\ record'[e] = "FAILED" => PaidFor(e) = 0
    <3>1. CASE e = d
      BY <1>1, <1>2, <1>5, <2>1, <2>3, <3>1 DEF Calm, Unpaid
    <3>2. CASE e # d
      BY <1>5, <2>1, <2>3, <3>2 DEF Calm
    <3>3. QED
      BY <3>1, <3>2
  <2>10. \A tx \in flight' : tx.by # None
    BY <1>2, <2>1 DEF Calm
  <2>11. QED
    BY <1>6, <2>5, <2>6, <2>7, <2>8, <2>9, <2>10, ZenonT(40) DEF Calm, PaidFor, JobId
<1>10. QED
  BY <1>2, <1>7, <1>8, <1>9 DEF RecInv, TasksOK

LEMMA CrashRec ==
    ASSUME TypeInv, LiveInv, RecInv, NEW w \in Workers, Crash(w)
    PROVE  RecInv'
<1>1. /\ UNCHANGED <<client, record, paid, tasks>> /\ flight' = Abandon(w)
      /\ run' = [run EXCEPT ![w] = Idle] /\ faults' = faults + 1
  BY DEF Crash, Fault, chainVars
<1>2. run'[w].at = "idle" /\ \A x \in Workers : x # w => run'[x] = run[x]
  BY <1>1 DEF Idle, TypeInv, WorkersOK
<1>3. RecordsOK'
  BY <1>1, <1>2 DEF RecInv, RecordsOK, Settling, PaidFor, JobId
<1>4. Tied'
  BY <1>1, <1>2, AbandonTied DEF TypeInv, RecInv
<1>5. QED
  BY <1>1, <1>3, <1>4 DEF RecInv, TasksOK

LEMMA StallRec ==
    ASSUME TypeInv, LiveInv, RecInv, NEW d \in Spends, Stall(d)
    PROVE  RecInv'
<1>1. UNCHANGED <<client, run, record, paid, tasks, flight>> /\ faults' = faults + 1
  BY DEF Stall, Fault, chainVars
<1>2. RecordsOK'
  BY <1>1 DEF RecInv, RecordsOK, Settling, PaidFor, JobId
<1>3. Tied'
  BY <1>1, TiedStays DEF TypeInv, RecInv
<1>4. QED
  BY <1>1, <1>2, <1>3 DEF RecInv, TasksOK

LEMMA NextRec ==
    ASSUME TypeInv, LiveInv, LiveInv', RecInv, [Next]_vars
    PROVE  RecInv'
<1>1. CASE UNCHANGED vars
  <2>1. UNCHANGED <<client, job, run, record, paid, tasks, flight, faults>>
    BY <1>1 DEF vars, chainVars, workerVars
  <2>2. Peaceful /\ Untouched
    BY <2>1, QuietIsPeaceful
  <2>3. RecordsOK' /\ Tied'
    BY <2>1, <2>2, OthersRecords, TiedStays DEF TypeInv, RecInv
  <2>4. ASSUME faults' = 0 PROVE Calm'
    <3>1. Calm /\ \A tx \in flight' : tx.by # None
      BY <2>1, <2>4 DEF RecInv, Calm
    <3>2. QED
      BY <2>1, <2>2, <3>1, OthersCalm DEF TypeInv, RecInv
  <2>5. QED
    BY <2>2, <2>3, <2>4 DEF RecInv, Peaceful
<1>2. ASSUME NEW d \in Spends, ClientStep(d) PROVE RecInv'
  BY <1>2, ClientReadsRec, RelayRec, ReplyRec, EnqueueRec DEF ClientStep
<1>3. ASSUME NEW w \in Workers, WorkerStep(w) PROVE RecInv'
  BY <1>3, TakeRec, EnterRec, LockRec, ReleaseRec, CompleteRec, RecordRec, CrashRec
     DEF WorkerStep
<1>4. QED
  BY <1>1, <1>2, <1>3, StallRec, OthersRec DEF Next

LEMMA InitRec == Init => RecInv
<1> SUFFICES ASSUME Init PROVE RecInv
  OBVIOUS
<1>1. tasks = <<>> /\ flight = {} /\ faults = 0
  BY DEF Init
<1>2. \A w \in Workers : run[w].at = "idle"
  BY DEF Init, Idle
<1>3. \A d \in Spends : PaidFor(d) = 0 /\ record[d] = "none"
  BY JobIdMade DEF Init, PaidFor
<1>4. record = [d \in Spends |-> record[d]]
  BY DEF Init
<1>5. TasksOK /\ Tied /\ RecordsOK
  BY <1>1, <1>2, <1>3, <1>4 DEF TasksOK, Tied, RecordsOK, Settling
<1>6. Calm
  BY <1>1, <1>2, <1>3 DEF Calm, Unpaid
<1>7. QED
  BY <1>1, <1>5, <1>6 DEF RecInv

LEMMA RecordsTrue == RecInv => RecordTellsTruth
<1> SUFFICES ASSUME RecInv, NEW d \in Spends
             PROVE  /\ record[d] = "COMPLETED" => paid[JobId(d)] = 1
                    /\ faults = 0 /\ record[d] = "FAILED" => paid[JobId(d)] = 0
                    /\ faults = 0 /\ job[d].state = "done" =>
                          \A t \in OpenTasks : tasks[t].of # JobId(d)
  BY DEF RecordTellsTruth
<1>1. record[d] = "COMPLETED" => paid[JobId(d)] = 1
  BY DEF RecInv, RecordsOK, PaidFor
<1>2. faults = 0 /\ record[d] = "FAILED" => paid[JobId(d)] = 0
  BY DEF RecInv, Calm, PaidFor
<1>3. ASSUME faults = 0, job[d].state = "done", NEW t \in OpenTasks, tasks[t].of = JobId(d)
      PROVE  FALSE
  <2>1. t \in 1..Len(tasks) /\ tasks[t].open
    BY DEF OpenTasks, TaskIds, RecInv, TasksOK
  <2>2. HeldBy(t, d)
    BY <1>3, <2>1 DEF RecInv, Calm, OpenFor
  <2>3. PICK w \in Workers : run[w].at \in Holding /\ run[w].of = d
    BY <2>2 DEF HeldBy
  <2>4. job[d].state = "active"
    BY <1>3, <2>3 DEF RecInv, Calm, Holding
  <2>5. QED
    BY <1>3, <2>4
<1>4. QED
  BY <1>1, <1>2, <1>3

-----------------------------------------------------------------------------
\* What holds in every state.

Inv == TypeInv /\ LiveInv /\ RateInv

LEMMA InitInv == Init => Inv
<1> SUFFICES ASSUME Init PROVE Inv
  OBVIOUS
<1>1. ChainOK
  BY Numbers DEF Init, ChainOK, Start, Acc, NoSpend, RuleOrNone
<1>2. PICK plan \in Plans : client = [d \in Spends |-> Begin(plan[d], global)]
  BY DEF Init
<1>3. ASSUME NEW d \in Spends PROVE ClientOK(d, client[d]) /\ client[d].at \notin Past
  <2>1. /\ plan[d].kind \in {"web", "sdk", "job"} /\ plan[d].rule \in Rules
    BY PrivateAssumption
  <2>2. 1 \in 1..Len(Groups[d]) /\ 1 \in 1..Tries[d]
    <3>1. Groups[d] \in Seq(Nat \ {0}) /\ Groups[d] # <<>> /\ Tries[d] \in Nat \ {0}
      BY PrivateAssumption
    <3>2. Len(Groups[d]) \in Nat \ {0}
      BY <3>1
    <3>3. QED
      BY <3>1, <3>2
  <2>3. client[d] = Begin(plan[d], global) /\ First(plan[d].kind) \in {"start", "read"}
    BY <1>2 DEF First
  <2>4. global \in RuleOrNone
    BY DEF Init, RuleOrNone
  <2>5. client[d] \in ClientRec
    BY <2>1, <2>3, <2>4 DEF Begin, ClientRec, Places, Acc, NoSpend, RuleOrNone
  <2>6. QED
    BY <2>1, <2>2, <2>3, <2>5 DEF Begin, ClientOK, Posted, Past
<1>4. ClientsOK
  BY <1>2, <1>3 DEF ClientsOK
<1>5. WorkersOK
  BY DEF Init, WorkersOK, JobOK, RunOK, NoJob, Idle
<1>6. FlightOK /\ Live = {}
  BY <1>3 DEF Init, FlightOK, Live, Past
<1>7. LiveInv
  BY <1>6 DEF Init, LiveInv
<1>8. RateInv
  BY Numbers DEF Init, RateInv, RateOf, NoSpend
<1>9. QED
  BY <1>1, <1>4, <1>5, <1>6, <1>7, <1>8 DEF Inv, TypeInv

LEMMA NextInv == Inv /\ [Next]_vars => Inv'
<1> SUFFICES ASSUME Inv, [Next]_vars PROVE Inv'
  OBVIOUS
<1>1. CASE UNCHANGED vars
  BY <1>1, Unchanged DEF Inv
<1>2. CASE Next
  <2>1. TypeInv' /\ (Ordinary \/ Tick \/ \E q : Gains(q))
    BY <1>2, NextStep DEF Inv, Step
  <2>2. CASE Ordinary
    BY <2>1, <2>2, OrdinaryLive, OrdinaryRate DEF Inv, TypeInv
  <2>3. CASE Tick
    <3>1. RateInv'
      BY <2>3 DEF Tick, Inv, RateInv, RateOf, Budgeted
    <3>2. QED
      BY <2>1, <2>3, <3>1, TickLive DEF Inv, TypeInv
  <2>4. ASSUME NEW q, Gains(q) PROVE Inv'
    <3>1. RateInv'
      BY <2>4 DEF Gains, PaysNothing, Inv, RateInv, RateOf, Budgeted
    <3>2. QED
      BY <2>1, <2>4, <3>1, GainsLive DEF Inv, TypeInv
  <2>5. QED
    BY <2>1, <2>2, <2>3, <2>4
<1>3. QED
  BY <1>1, <1>2

LEMMA Invariant == Spec => []Inv
  BY InitInv, NextInv, PTL DEF Spec

-----------------------------------------------------------------------------
\* The books.

OpenLocked == SumFunctionOnSet(Budgets, OpenTasks)
OpenSpent == SumFunctionOnSet(SpentOf, OpenTasks)
PaidOut == SumFunctionOnSet(Payouts, PaidIds)

\* What is paid is a finite set, though a client might try for ever.
BooksInv ==
    /\ balance \in Nat /\ locked \in Nat /\ locked <= balance /\ balance <= Funds
    /\ \A t \in 1..Len(tasks) : tasks[t].spent <= tasks[t].budget
    /\ IsFiniteSet(PaidIds)
    /\ locked = OpenLocked
    /\ balance + PaidOut = Funds + OpenSpent

LEMMA BooksMeaning == BooksInv => BooksBalance
BY DEF BooksInv, BooksBalance, OpenLocked, OpenSpent, PaidOut

\* The terms of the sums.
LEMMA OpenTerms ==
    ASSUME TasksOK
    PROVE  /\ Len(tasks) \in Nat /\ TaskIds = 1..Len(tasks)
           /\ IsFiniteSet(OpenTasks)
           /\ \A t \in TaskIds :
                 /\ tasks[t] \in VaultTask
                 /\ Budgets[t] = tasks[t].budget /\ Budgets[t] \in Nat
                 /\ SpentOf[t] = tasks[t].spent /\ SpentOf[t] \in Nat
<1>1. Len(tasks) \in Nat /\ TaskIds = 1..Len(tasks)
  BY DEF TasksOK, TaskIds
<1>2. \A t \in TaskIds : tasks[t] \in VaultTask
  BY <1>1 DEF TasksOK
<1>3. IsFiniteSet(OpenTasks)
  <2>1. IsFiniteSet(1..Len(tasks)) /\ OpenTasks \subseteq 1..Len(tasks)
    BY <1>1, FS_Interval DEF OpenTasks
  <2>2. QED
    BY <2>1, FS_Subset
<1>4. QED
  BY <1>1, <1>2, <1>3 DEF Budgets, SpentOf, VaultTask

LEMMA NewTerms ==
    ASSUME TasksOK'
    PROVE  /\ TaskIds' = 1..Len(tasks')
           /\ \A t \in TaskIds' :
                 /\ Budgets'[t] = tasks'[t].budget /\ Budgets'[t] \in Nat
                 /\ SpentOf'[t] = tasks'[t].spent /\ SpentOf'[t] \in Nat
<1>1. TaskIds' = 1..Len(tasks')
  BY DEF TasksOK, TaskIds
<1>2. \A t \in TaskIds' : tasks'[t] \in VaultTask
  BY <1>1 DEF TasksOK
<1>3. QED
  BY <1>1, <1>2 DEF Budgets, SpentOf, VaultTask

LEMMA OpenSums ==
    ASSUME TasksOK
    PROVE  OpenLocked \in Nat /\ OpenSpent \in Nat
<1>1. \A t \in OpenTasks : Budgets[t] \in Nat /\ SpentOf[t] \in Nat
  BY OpenTerms DEF OpenTasks
<1>2. QED
  BY <1>1, OpenTerms, SumNat DEF OpenLocked, OpenSpent

\* A task whose funds stay locked may have spent more.
LEMMA OpenSpends ==
    ASSUME TasksOK, TasksOK', Len(tasks') = Len(tasks), NEW t \in OpenTasks,
           \A x \in 1..Len(tasks) : x # t => tasks'[x] = tasks[x],
           tasks'[t].open, tasks'[t].budget = tasks[t].budget
    PROVE  /\ OpenLocked' = OpenLocked
           /\ OpenSpent' = OpenSpent - tasks[t].spent + tasks'[t].spent
<1>1. TaskIds' = TaskIds /\ TaskIds = 1..Len(tasks) /\ t \in TaskIds
  BY OpenTerms, NewTerms DEF OpenTasks
<1>2. OpenTasks' = OpenTasks
  BY <1>1 DEF OpenTasks
<1>3. \A x \in OpenTasks :
        /\ Budgets[x] \in Nat /\ SpentOf[x] \in Nat
        /\ Budgets'[x] = Budgets[x] /\ SpentOf'[x] \in Nat
        /\ x # t => SpentOf'[x] = SpentOf[x]
  BY <1>1, OpenTerms, NewTerms DEF OpenTasks, Budgets, SpentOf
<1>4. SpentOf[t] = tasks[t].spent /\ SpentOf'[t] = tasks'[t].spent
  BY <1>1 DEF SpentOf
<1>5. PICK f, g, F, G : f = Budgets /\ g = Budgets' /\ F = SpentOf /\ G = SpentOf'
  OBVIOUS
<1>6. SumFunctionOnSet(g, OpenTasks) = SumFunctionOnSet(f, OpenTasks)
  BY <1>3, <1>5, OpenTerms, SumSame
<1>7. SumFunctionOnSet(G, OpenTasks) = SumFunctionOnSet(F, OpenTasks) - F[t] + G[t]
  <2>1. IsFiniteSet(OpenTasks) /\ G[t] \in Int
    BY <1>3, <1>5, OpenTerms
  <2>2. \A x \in OpenTasks : F[x] \in Int
    BY <1>3, <1>5
  <2>3. \A x \in OpenTasks : x # t => G[x] = F[x]
    BY <1>3, <1>5
  <2>4. QED
    BY <2>1, <2>2, <2>3, SumChange
<1>8. QED
  BY <1>2, <1>4, <1>5, <1>6, <1>7 DEF OpenLocked, OpenSpent

\* A task is added, with nothing spent.
LEMMA OpenGains ==
    ASSUME TasksOK, TasksOK', Len(tasks') = Len(tasks) + 1,
           \A x \in 1..Len(tasks) : tasks'[x] = tasks[x],
           NEW t, t = Len(tasks'), tasks'[t].open, tasks'[t].spent = 0
    PROVE  OpenLocked' = OpenLocked + tasks'[t].budget /\ OpenSpent' = OpenSpent
<1>1. TaskIds = 1..Len(tasks) /\ TaskIds' = TaskIds \cup {t} /\ t \notin TaskIds
  BY OpenTerms, NewTerms
<1>2. OpenTasks' = OpenTasks \cup {t} /\ t \notin OpenTasks
  BY <1>1 DEF OpenTasks
<1>3. \A x \in OpenTasks :
        /\ Budgets[x] \in Int /\ SpentOf[x] \in Int
        /\ Budgets'[x] = Budgets[x] /\ SpentOf'[x] = SpentOf[x]
  BY <1>1, OpenTerms DEF OpenTasks, Budgets, SpentOf
<1>4. Budgets'[t] = tasks'[t].budget /\ Budgets'[t] \in Int /\ SpentOf'[t] = 0
  BY <1>1, NewTerms
<1>5. PICK f, g, F, G : f = Budgets /\ g = Budgets' /\ F = SpentOf /\ G = SpentOf'
  OBVIOUS
<1>6. SumFunctionOnSet(g, OpenTasks \cup {t}) = SumFunctionOnSet(f, OpenTasks) + g[t]
  BY <1>2, <1>3, <1>4, <1>5, OpenTerms, SumGain
<1>7. SumFunctionOnSet(G, OpenTasks \cup {t}) = SumFunctionOnSet(F, OpenTasks) + G[t]
  <2>1. G[t] \in Int
    BY <1>4, <1>5
  <2>2. QED
    BY <1>2, <1>3, <1>5, <2>1, OpenTerms, SumGain
<1>8. QED
  BY <1>2, <1>4, <1>5, <1>6, <1>7, OpenSums DEF OpenLocked, OpenSpent

\* A task is closed.
LEMMA OpenLoses ==
    ASSUME TasksOK, TasksOK', Len(tasks') = Len(tasks), NEW t \in OpenTasks,
           \A x \in 1..Len(tasks) : x # t => tasks'[x] = tasks[x],
           ~tasks'[t].open
    PROVE  /\ OpenLocked' = OpenLocked - tasks[t].budget
           /\ OpenSpent' = OpenSpent - tasks[t].spent
<1>1. TaskIds' = TaskIds /\ TaskIds = 1..Len(tasks) /\ t \in TaskIds
  BY OpenTerms, NewTerms DEF OpenTasks
<1>2. OpenTasks' = OpenTasks \ {t}
  BY <1>1 DEF OpenTasks
<1>3. \A x \in OpenTasks :
        /\ Budgets[x] \in Int /\ SpentOf[x] \in Int
        /\ x # t => Budgets'[x] = Budgets[x] /\ SpentOf'[x] = SpentOf[x]
  BY <1>1, OpenTerms DEF OpenTasks, Budgets, SpentOf
<1>4. Budgets[t] = tasks[t].budget /\ SpentOf[t] = tasks[t].spent
  BY <1>1, OpenTerms
<1>5. PICK f, g, F, G : f = Budgets /\ g = Budgets' /\ F = SpentOf /\ G = SpentOf'
  OBVIOUS
<1>6. PICK T : T = OpenTasks \ {t}
  OBVIOUS
<1>7. IsFiniteSet(OpenTasks)
  BY OpenTerms
<1>8. SumFunctionOnSet(g, T) = SumFunctionOnSet(f, OpenTasks) - f[t]
  <2>1. (\A x \in OpenTasks : f[x] \in Int) /\ \A x \in OpenTasks : x # t => g[x] = f[x]
    BY <1>3, <1>5
  <2>2. QED
    BY <1>6, <1>7, <2>1, SumLose, SMTT(30)
<1>9. SumFunctionOnSet(G, T) = SumFunctionOnSet(F, OpenTasks) - F[t]
  <2>1. (\A x \in OpenTasks : F[x] \in Int) /\ \A x \in OpenTasks : x # t => G[x] = F[x]
    BY <1>3, <1>5
  <2>2. QED
    BY <1>6, <1>7, <2>1, SumLose, SMTT(30)
<1>10. QED
  BY <1>2, <1>4, <1>5, <1>6, <1>8, <1>9 DEF OpenLocked, OpenSpent

\* One request is paid.
LEMMA PaidTerms ==
    ASSUME ChainOK, LiveInv
    PROVE  \A i \in PaidIds : i \in Ids /\ paid[i] = 1 /\ Payouts[i] = Groups[i[1]][i[2]]
                              /\ Groups[i[1]][i[2]] \in Nat
<1> SUFFICES ASSUME NEW i \in PaidIds
             PROVE  i \in Ids /\ paid[i] = 1 /\ Payouts[i] = Groups[i[1]][i[2]]
                    /\ Groups[i[1]][i[2]] \in Nat
  OBVIOUS
<1>1. i \in Ids /\ paid[i] = 1
  BY DEF PaidIds, ChainOK, LiveInv
<1>2. Groups[i[1]] \in Seq(Nat \ {0}) /\ i[2] \in 1..Len(Groups[i[1]])
  BY <1>1, IdShape, PrivateAssumption
<1>3. PICK n : n = Groups[i[1]][i[2]]
  OBVIOUS
<1>4. n \in Nat
  BY <1>2, <1>3
<1>5. Payouts[i] = 1 * n
  BY <1>1, <1>3 DEF Payouts
<1>6. QED
  BY <1>1, <1>3, <1>4, <1>5

LEMMA PaidGains ==
    ASSUME ChainOK, LiveInv, ChainOK', LiveInv', IsFiniteSet(PaidIds),
           NEW q \in Live, PaysFor(q.id)
    PROVE  /\ IsFiniteSet(PaidIds') /\ PaidOut' = PaidOut + q.total
           /\ PaidOut \in Nat /\ q.total \in Nat
<1>1. q \in Req /\ q.total = Groups[q.id[1]][q.id[2]]
  BY DEF LiveInv, Keeps
<1>2. PICK i : i = q.id
  OBVIOUS
<1>3. i \in Ids /\ q.total \in Nat
  BY <1>1, <1>2 DEF Req
<1>4. paid'[i] = paid[i] + 1 /\ \A j \in Ids : j # i => paid'[j] = paid[j]
  BY <1>2, <1>3 DEF PaysFor, ChainOK
<1>5. paid[i] = 0 /\ paid'[i] = 1
  BY <1>3, <1>4 DEF ChainOK, LiveInv
<1>6. PaidIds' = PaidIds \cup {i} /\ i \notin PaidIds
  BY <1>3, <1>4, <1>5 DEF PaidIds
<1>7. \A j \in PaidIds : Payouts[j] \in Nat /\ Payouts'[j] = Payouts[j]
  BY <1>4, <1>6, PaidTerms DEF Payouts
<1>8. Payouts'[i] = q.total
  <2>1. PICK n : n = Groups[i[1]][i[2]]
    OBVIOUS
  <2>2. Payouts'[i] = 1 * n /\ n = q.total
    BY <1>1, <1>2, <1>3, <1>5, <2>1 DEF Payouts
  <2>3. QED
    BY <1>3, <2>2
<1>9. PICK f, g : f = Payouts /\ g = Payouts'
  OBVIOUS
<1>10. SumFunctionOnSet(g, PaidIds \cup {i}) = SumFunctionOnSet(f, PaidIds) + g[i]
  BY <1>3, <1>6, <1>7, <1>8, <1>9, SumGain
<1>11. SumFunctionOnSet(f, PaidIds) \in Nat
  BY <1>7, <1>9, SumNat
<1>12. IsFiniteSet(PaidIds \cup {i})
  BY FS_AddElement
<1>13. QED
  BY <1>3, <1>6, <1>8, <1>9, <1>10, <1>11, <1>12 DEF PaidOut

LEMMA PaidNumber ==
    ASSUME ChainOK, LiveInv, IsFiniteSet(PaidIds)
    PROVE  PaidOut \in Nat
<1>1. \A i \in PaidIds : Payouts[i] \in Nat
  BY PaidTerms
<1>2. QED
  BY <1>1, SumNat DEF PaidOut

LEMMA PaidStays ==
    ASSUME UNCHANGED paid
    PROVE  PaidIds' = PaidIds /\ PaidOut' = PaidOut
<1>1. PaidIds' = PaidIds /\ Payouts' = Payouts
  BY DEF PaidIds, Payouts
<1>2. QED
  BY <1>1 DEF PaidOut

LEMMA OpenStay ==
    ASSUME UNCHANGED tasks
    PROVE  OpenTasks' = OpenTasks /\ OpenLocked' = OpenLocked /\ OpenSpent' = OpenSpent
<1>1. OpenTasks' = OpenTasks /\ Budgets' = Budgets /\ SpentOf' = SpentOf
  BY DEF OpenTasks, Budgets, SpentOf, TaskIds
<1>2. QED
  BY <1>1 DEF OpenLocked, OpenSpent

\* What names a vault task names one that exists.
RefInv ==
    /\ \A w \in Workers :
          run[w].task \in 0..Len(tasks) /\ (run[w].at \in Holding => run[w].task # 0)
    /\ \A tx \in flight : tx.op \in {"release", "complete"} => tx.task \in 1..Len(tasks)

LEMMA KeylessBooks ==
    ASSUME ChainOK, LiveInv, ChainOK', LiveInv', BooksInv, TasksOK,
           NEW q \in Live, KeylessAccepts(q), PayKeyless(q)
    PROVE  BooksInv'
<1>1. /\ balance' = balance - q.total /\ locked' = locked /\ tasks' = tasks
      /\ q.total <= balance - locked
  BY DEF PayKeyless, KeylessAccepts, Available
<1>2. PaysFor(q.id)
  BY DEF PayKeyless, Roll, PaysFor
<1>3. IsFiniteSet(PaidIds') /\ PaidOut' = PaidOut + q.total /\ PaidOut \in Nat /\ q.total \in Nat
  BY <1>2, PaidGains DEF BooksInv
<1>4. OpenLocked' = OpenLocked /\ OpenSpent' = OpenSpent /\ OpenSpent \in Nat
  BY <1>1, OpenStay, OpenSums
<1>5. balance \in Nat /\ locked \in Nat /\ balance <= Funds /\ Funds \in Nat
  BY PrivateAssumption DEF BooksInv
<1>6. balance' \in Nat /\ locked' \in Nat /\ locked' <= balance' /\ balance' <= Funds
  BY <1>1, <1>3, <1>5
<1>7. balance' + PaidOut' = Funds + OpenSpent'
  BY <1>1, <1>3, <1>4, <1>5 DEF BooksInv
<1>8. QED
  BY <1>1, <1>3, <1>4, <1>6, <1>7 DEF BooksInv

LEMMA LockBooks ==
    ASSUME LiveInv, BooksInv, TasksOK, TasksOK',
           NEW q \in Live, q.total <= Available, LockBudget(q)
    PROVE  BooksInv'
<1>1. q.total \in Nat
  BY DEF LiveInv, Req
<1>2. PICK new : new = [open |-> TRUE, budget |-> q.total, spent |-> 0, of |-> q.id]
  OBVIOUS
<1>3. new \in VaultTask
  BY <1>1, <1>2 DEF VaultTask, LiveInv, Req
<1>4. /\ tasks' = Append(tasks, new) /\ locked' = locked + q.total
      /\ balance' = balance /\ paid' = paid
  BY <1>2 DEF LockBudget
<1>5. /\ Len(tasks') = Len(tasks) + 1
      /\ \A x \in 1..Len(tasks) : tasks'[x] = tasks[x]
      /\ tasks'[Len(tasks')] = new
  BY <1>3, <1>4, AppendProperties DEF TasksOK
<1>6. new.open /\ new.budget = q.total /\ new.spent = 0
  BY <1>2
<1>7. PICK t : t = Len(tasks')
  OBVIOUS
<1>8. tasks'[t].open /\ tasks'[t].spent = 0 /\ tasks'[t].budget = q.total
  BY <1>5, <1>6, <1>7
<1>9. OpenLocked' = OpenLocked + q.total /\ OpenSpent' = OpenSpent
  BY <1>5, <1>7, <1>8, OpenGains
<1>10. PaidIds' = PaidIds /\ PaidOut' = PaidOut
  BY <1>4, PaidStays
<1>11. balance' \in Nat /\ locked' \in Nat /\ locked' <= balance' /\ balance' <= Funds
  BY <1>1, <1>4 DEF BooksInv, Available
<1>12. \A x \in 1..Len(tasks') : tasks'[x].spent <= tasks'[x].budget
  <2>1. ASSUME NEW x \in 1..Len(tasks') PROVE x \in 1..Len(tasks) \/ x = t
    BY <1>5, <1>7, OpenTerms
  <2>2. QED
    BY <1>1, <1>5, <1>8, <2>1 DEF BooksInv
<1>13. QED
  BY <1>4, <1>9, <1>10, <1>11, <1>12 DEF BooksInv

LEMMA ReleaseBooks ==
    ASSUME ChainOK, LiveInv, ChainOK', LiveInv', BooksInv, TasksOK, TasksOK',
           NEW q \in Live, NEW t \in 1..Len(tasks), BatchAccepts(t, q), PayBatch(t, q)
    PROVE  BooksInv'
<1>1. PaysFor(q.id) /\ balance' = balance /\ locked' = locked
  BY DEF PayBatch, Roll, PaysFor
<1>2. IsFiniteSet(PaidIds') /\ PaidOut' = PaidOut + q.total /\ PaidOut \in Nat /\ q.total \in Nat
  BY <1>1, PaidGains DEF BooksInv
<1>3. tasks[t] \in VaultTask
  BY DEF TasksOK
<1>4. PICK new : new = [tasks[t] EXCEPT !.spent = tasks[t].spent + q.total]
  OBVIOUS
<1>5. /\ new \in VaultTask /\ new.open = tasks[t].open /\ new.budget = tasks[t].budget
      /\ new.spent = tasks[t].spent + q.total
  BY <1>2, <1>3, <1>4 DEF VaultTask
<1>6. tasks' = [tasks EXCEPT ![t] = new]
  BY <1>4 DEF PayBatch
<1>7. /\ Len(tasks') = Len(tasks)
      /\ \A x \in 1..Len(tasks) : tasks'[x] = IF x = t THEN new ELSE tasks[x]
  BY <1>5, <1>6, TaskRewritten
<1>8. tasks[t].open /\ tasks[t].spent + q.total <= tasks[t].budget
  BY DEF BatchAccepts
<1>9. t \in OpenTasks
  BY <1>8, OpenTerms DEF OpenTasks
<1>10. OpenLocked' = OpenLocked /\ OpenSpent' = OpenSpent + q.total
  <2>1. /\ tasks'[t].open /\ tasks'[t].budget = tasks[t].budget
        /\ tasks'[t].spent = tasks[t].spent + q.total
        /\ tasks[t].spent \in Nat /\ OpenSpent \in Nat
    BY <1>3, <1>5, <1>7, <1>8, OpenSums DEF VaultTask
  <2>2. /\ Len(tasks') = Len(tasks)
        /\ \A x \in 1..Len(tasks) : x # t => tasks'[x] = tasks[x]
    BY <1>7
  <2>3. /\ OpenLocked' = OpenLocked
        /\ OpenSpent' = OpenSpent - tasks[t].spent + tasks'[t].spent
    BY <1>9, <2>1, <2>2, OpenSpends
  <2>4. QED
    BY <1>2, <2>1, <2>3
<1>11. OpenSpent \in Nat /\ balance \in Nat /\ Funds \in Nat
  BY OpenSums, PrivateAssumption DEF BooksInv
<1>12. balance' + PaidOut' = Funds + OpenSpent'
  <2>1. balance + PaidOut = Funds + OpenSpent
    BY DEF BooksInv
  <2>2. PICK b, p, o, x : b = balance /\ p = PaidOut /\ o = OpenSpent /\ x = q.total
    OBVIOUS
  <2>3. b + (p + x) = Funds + (o + x)
    <3>1. b \in Nat /\ p \in Nat /\ o \in Nat /\ x \in Nat /\ Funds \in Nat
      BY <1>2, <1>11, <2>2
    <3>2. b + p = Funds + o
      BY <2>1, <2>2
    <3>3. QED
      BY <3>1, <3>2
  <2>4. balance' = b /\ PaidOut' = p + x /\ OpenSpent' = o + x
    BY <1>1, <1>2, <1>10, <2>2
  <2>5. QED
    BY <2>3, <2>4
<1>13. \A x \in 1..Len(tasks') : tasks'[x].spent <= tasks'[x].budget
  BY <1>5, <1>7, <1>8 DEF BooksInv
<1>14. QED
  BY <1>1, <1>2, <1>10, <1>12, <1>13 DEF BooksInv

LEMMA CompleteBooks ==
    ASSUME ChainOK, LiveInv, BooksInv, TasksOK, TasksOK',
           NEW t \in 1..Len(tasks), tasks[t].open, CompleteTask(t)
    PROVE  BooksInv'
<1>1. /\ locked' = locked - tasks[t].budget /\ balance' = balance - tasks[t].spent
      /\ paid' = paid
  BY DEF CompleteTask
<1>2. tasks[t] \in VaultTask
  BY DEF TasksOK
<1>3. PICK new : new = [tasks[t] EXCEPT !.open = FALSE]
  OBVIOUS
<1>4. /\ new \in VaultTask /\ ~new.open
      /\ new.budget = tasks[t].budget /\ new.spent = tasks[t].spent
  BY <1>2, <1>3 DEF VaultTask
<1>5. tasks' = [tasks EXCEPT ![t] = new]
  BY <1>3 DEF CompleteTask
<1>6. /\ Len(tasks') = Len(tasks)
      /\ \A x \in 1..Len(tasks) : tasks'[x] = IF x = t THEN new ELSE tasks[x]
  BY <1>4, <1>5, TaskRewritten
<1>7. t \in OpenTasks
  BY OpenTerms DEF OpenTasks
<1>8. /\ OpenLocked' = OpenLocked - tasks[t].budget
      /\ OpenSpent' = OpenSpent - tasks[t].spent
  BY <1>4, <1>6, <1>7, OpenLoses
<1>9. OpenLocked' \in Nat /\ OpenSpent' \in Nat
  <2>1. (OpenLocked \in Nat /\ OpenSpent \in Nat)'
    <3>1. \A x \in OpenTasks' : Budgets'[x] \in Nat /\ SpentOf'[x] \in Nat
      BY NewTerms DEF OpenTasks
    <3>2. IsFiniteSet(OpenTasks')
      <4>1. OpenTasks' \subseteq OpenTasks
        BY <1>4, <1>6, OpenTerms, NewTerms DEF OpenTasks
      <4>2. QED
        BY <4>1, OpenTerms, FS_Subset
    <3>3. PICK g, G, S : g = Budgets' /\ G = SpentOf' /\ S = OpenTasks'
      OBVIOUS
    <3>4. SumFunctionOnSet(g, S) \in Nat /\ SumFunctionOnSet(G, S) \in Nat
      BY <3>1, <3>2, <3>3, SumNat
    <3>5. QED
      BY <3>3, <3>4 DEF OpenLocked, OpenSpent
  <2>2. QED
    BY <2>1
<1>10. PaidIds' = PaidIds /\ PaidOut' = PaidOut
  BY <1>1, PaidStays
<1>11. PaidOut \in Nat /\ OpenSpent \in Nat /\ Funds \in Nat
  BY PaidNumber, OpenSums, PrivateAssumption DEF BooksInv
<1>12. /\ tasks[t].budget \in Nat /\ tasks[t].spent \in Nat
       /\ tasks[t].spent <= tasks[t].budget
  BY <1>2 DEF VaultTask, BooksInv
<1>13. PICK b, s : b = tasks[t].budget /\ s = tasks[t].spent
  OBVIOUS
<1>14. /\ locked' = locked - b /\ balance' = balance - s
       /\ b \in Nat /\ s \in Nat /\ s <= b
       /\ OpenLocked' = OpenLocked - b /\ OpenSpent' = OpenSpent - s
  BY <1>1, <1>8, <1>12, <1>13
<1>15. /\ balance \in Nat /\ locked \in Nat /\ locked <= balance /\ balance <= Funds
       /\ locked = OpenLocked /\ balance + PaidOut = Funds + OpenSpent
  BY DEF BooksInv
<1>16. locked' = OpenLocked' /\ locked' \in Nat /\ locked' <= balance'
       /\ balance' \in Nat /\ balance' <= Funds
  BY <1>9, <1>11, <1>14, <1>15
<1>17. balance' + PaidOut' = Funds + OpenSpent'
  BY <1>10, <1>11, <1>14, <1>15
<1>18. \A x \in 1..Len(tasks') : tasks'[x].spent <= tasks'[x].budget
  BY <1>4, <1>6, <1>12 DEF BooksInv
<1>19. QED
  BY <1>10, <1>16, <1>17, <1>18 DEF BooksInv

\* What a step does to the money.
Swept(t) == tasks[t].open /\ CompleteTask(t)
MoneyMoves ==
    \/ UNCHANGED <<balance, locked, tasks, paid>>
    \/ \E tx \in flight : Accepts(tx) /\ Apply(tx)
    \/ \E t \in 1..Len(tasks) : Swept(t)

LEMMA BooksStep ==
    ASSUME ChainOK, LiveInv, ChainOK', LiveInv', BooksInv, TasksOK, TasksOK', RefInv, MoneyMoves
    PROVE  BooksInv'
<1>1. CASE UNCHANGED <<balance, locked, tasks, paid>>
  BY <1>1, OpenStay, PaidStays DEF BooksInv
<1>2. ASSUME NEW tx \in flight, Accepts(tx), Apply(tx) PROVE BooksInv'
  <2>1. tx.q \in Live /\ (tx.op \in {"release", "complete"} => tx.task \in 1..Len(tasks))
    BY LiveSources DEF RefInv
  <2>2. CASE tx.op = "keyless"
    BY <1>2, <2>1, <2>2, KeylessBooks DEF Accepts, Apply
  <2>3. CASE tx.op = "lock"
    BY <1>2, <2>1, <2>3, LockBooks DEF Accepts, Apply
  <2>4. CASE tx.op = "release"
    BY <1>2, <2>1, <2>4, ReleaseBooks DEF Accepts, Apply
  <2>5. CASE tx.op = "complete"
    BY <1>2, <2>1, <2>5, CompleteBooks DEF Accepts, Apply
  <2>6. QED
    BY <1>2, <2>2, <2>3, <2>4, <2>5 DEF Apply
<1>3. ASSUME NEW t \in 1..Len(tasks), Swept(t) PROVE BooksInv'
  BY <1>3, CompleteBooks DEF Swept
<1>4. QED
  BY <1>1, <1>2, <1>3 DEF MoneyMoves

\* Where the money of a step comes from.
LEMMA QuietMoney ==
    ASSUME UNCHANGED chainVars
    PROVE  MoneyMoves
BY DEF chainVars, MoneyMoves

LEMMA LandsMoney ==
    ASSUME NEW w, Lands(w)
    PROVE  MoneyMoves
BY DEF Lands, Waiting, MoneyMoves

LEMMA NextMoney ==
    ASSUME [Next]_vars
    PROVE  MoneyMoves
<1>1. CASE UNCHANGED vars
  BY <1>1, QuietMoney DEF vars
<1>2. ASSUME NEW d \in Spends, ClientStep(d) PROVE MoneyMoves
  <2>1. CASE ReplyPaid(d)
    BY <2>1, LandsMoney DEF ReplyPaid
  <2>2. CASE Relay(d)
    BY <2>2, QuietMoney DEF Relay, Submit, Refused
  <2>3. CASE ReplyFailed(d) \/ ReplyTimesOut(d) \/ Enqueue(d)
    BY <2>3, QuietMoney DEF ReplyFailed, ReplyTimesOut, Enqueue, FailsOnChain, GivesUp
  <2>4. ASSUME UNCHANGED clientOnly PROVE MoneyMoves
    BY <2>4, QuietMoney DEF clientOnly
  <2>5. QED
    BY <1>2, <2>1, <2>2, <2>3, <2>4 DEF ClientStep, ReadGlobals, ReadAccumulator, ReadFails,
       ReadGlobalAccumulator, Prove, TryAgain
<1>3. ASSUME NEW w \in Workers, WorkerStep(w) PROVE MoneyMoves
  <2>1. ASSUME NEW tx, Submit(tx) \/ Refused(tx) \/ FailsOnChain(w) \/ GivesUp(w)
        PROVE  MoneyMoves
    BY <2>1, QuietMoney DEF Submit, Refused, FailsOnChain, GivesUp
  <2>2. CASE LockBatch(w) \/ ReleaseBatch(w) \/ FinishBatch(w) \/ RollBack(w)
    <3>1. Lands(w) \/ \E tx : Submit(tx) \/ Refused(tx) \/ FailsOnChain(w) \/ GivesUp(w)
      BY <2>2 DEF LockBatch, ReleaseBatch, FinishBatch, RollBack, Call
    <3>2. QED
      BY <2>1, <3>1, LandsMoney
  <2>3. ASSUME UNCHANGED chainVars PROVE MoneyMoves
    BY <2>3, QuietMoney
  <2>4. QED
    BY <1>3, <2>2, <2>3 DEF WorkerStep, Take, Enter, Record, Crash, runOnly
<1>4. CASE AbandonedLands
  <2>1. UNCHANGED chainVars \/ \E tx \in flight : Accepts(tx) /\ Apply(tx)
    BY <1>4 DEF AbandonedLands, Waiting
  <2>2. QED
    BY <2>1, QuietMoney DEF MoneyMoves
<1>5. CASE \E t \in 1..Len(tasks) : Sweep(t)
  BY <1>5 DEF Sweep, Swept, MoneyMoves
<1>6. ASSUME \/ \E d \in Spends : Stall(d)
             \/ \E r \in Rules : Pin(r) \/ Unpin(r) \/ SetGlobal(r)
             \/ ClearGlobal \/ AbandonedExpires
      PROVE  MoneyMoves
  BY <1>6, QuietMoney DEF Stall, Pin, Unpin, SetGlobal, ClearGlobal, ownerOnly, AbandonedExpires
<1>7. CASE Tick
  BY <1>7 DEF Tick, MoneyMoves
<1>8. QED
  BY <1>1, <1>2, <1>3, <1>4, <1>5, <1>6, <1>7 DEF Next

\* Vault tasks are never removed.
LEMMA TasksGrow ==
    ASSUME LiveInv, TasksOK, MoneyMoves
    PROVE  Len(tasks') >= Len(tasks) /\ Len(tasks) \in Nat /\ Len(tasks') \in Nat
<1>0. Len(tasks) \in Nat
  BY OpenTerms
<1>1. ASSUME NEW tx \in flight, Accepts(tx), Apply(tx)
      PROVE  Len(tasks') = Len(tasks) \/ Len(tasks') = Len(tasks) + 1
  BY <1>1, LiveSources, Effects DEF Effect, TasksSame
<1>2. ASSUME NEW t \in 1..Len(tasks), Swept(t) PROVE Len(tasks') = Len(tasks)
  BY <1>2, Closed DEF Swept, TasksSame
<1>3. QED
  BY <1>0, <1>1, <1>2 DEF MoneyMoves

-----------------------------------------------------------------------------
\* What names a task.

Named(r) == r.task \in 0..Len(tasks') /\ (r.at \in Holding => r.task # 0)
RunNames == run' = run \/ \E w \in Workers : \E r : Named(r) /\ run' = [run EXCEPT ![w] = r]
TxNames ==
    \A tx \in flight' :
        \/ tx.op \notin {"release", "complete"}
        \/ tx.task \in 1..Len(tasks)
        \/ \E t \in flight : t.op = tx.op /\ t.task = tx.task

LEMMA NamesHold ==
    ASSUME TypeInv, LiveInv, TasksOK, RefInv, MoneyMoves, RunNames, TxNames
    PROVE  RefInv'
<1>1. \A n \in Int : (n \in 0..Len(tasks) => n \in 0..Len(tasks'))
                     /\ (n \in 1..Len(tasks) => n \in 1..Len(tasks'))
  BY TasksGrow
<1>2. ASSUME NEW w \in Workers PROVE Named(run'[w])
  <2>1. run'[w] = run[w] \/ Named(run'[w])
    BY DEF RunNames, TypeInv, WorkersOK
  <2>2. Named(run[w])
    BY <1>1 DEF RefInv, Named
  <2>3. QED
    BY <2>1, <2>2
<1>3. ASSUME NEW tx \in flight', tx.op \in {"release", "complete"}
      PROVE  tx.task \in 1..Len(tasks')
  BY <1>1, <1>3 DEF TxNames, RefInv
<1>4. QED
  BY <1>2, <1>3 DEF RefInv, Named

LEMMA SubmitNames ==
    ASSUME NEW tx, Submit(tx),
           tx.op \in {"release", "complete"} => tx.task \in 1..Len(tasks)
    PROVE  TxNames
BY DEF Submit, TxNames

LEMMA FewerNames ==
    ASSUME flight' \subseteq flight
    PROVE  TxNames
BY DEF TxNames

LEMMA AbandonNames ==
    ASSUME FlightOK, NEW w, flight' = Abandon(w)
    PROVE  TxNames
<1>1. ASSUME NEW tx \in flight' PROVE \E t \in flight : t.op = tx.op /\ t.task = tx.task
  <2>1. CASE tx \in flight
    BY <2>1
  <2>2. ASSUME NEW t \in Waiting(w), tx = [t EXCEPT !.by = None]
        PROVE  \E x \in flight : x.op = tx.op /\ x.task = tx.task
    <3>1. t \in flight /\ t = [op |-> t.op, by |-> t.by, task |-> t.task, q |-> t.q]
      BY DEF Waiting, FlightOK, TxOK
    <3>2. tx = [op |-> t.op, by |-> None, task |-> t.task, q |-> t.q]
      BY <2>2, <3>1
    <3>3. tx.op = t.op /\ tx.task = t.task
      BY <3>2
    <3>4. QED
      BY <3>1, <3>3
  <2>3. QED
    BY <2>1, <2>2 DEF Abandon
<1>2. QED
  BY <1>1 DEF TxNames

LEMMA NetNames ==
    ASSUME FlightOK, NEW w, Lands(w) \/ FailsOnChain(w) \/ GivesUp(w)
    PROVE  TxNames
<1>1. CASE GivesUp(w)
  BY <1>1, AbandonNames DEF GivesUp
<1>2. CASE Lands(w) \/ FailsOnChain(w)
  BY <1>2, FewerNames DEF Lands, FailsOnChain
<1>3. QED
  BY <1>1, <1>2

LEMMA IdlesNames ==
    ASSUME TasksOK, LiveInv, MoneyMoves, NEW w \in Workers, run' = [run EXCEPT ![w] = Idle]
    PROVE  RunNames
<1>1. Named(Idle)
  BY TasksGrow DEF Named, Idle, Holding
<1>2. QED
  BY <1>1 DEF RunNames

LEMMA GoesNames ==
    ASSUME TypeInv, LiveInv, TasksOK, RefInv, MoneyMoves, NEW w \in Workers,
           run[w].at # "idle", NEW place, RunGoto(w, place),
           place \in Holding => run[w].at \in Holding
    PROVE  RunNames
<1>1. PICK r : r = [at |-> place, of |-> run[w].of, task |-> run[w].task]
  OBVIOUS
<1>2. run[w] = [at |-> run[w].at, of |-> run[w].of, task |-> run[w].task]
  BY DEF TypeInv, WorkersOK, RunOK
<1>3. r = [run[w] EXCEPT !.at = place]
  BY <1>1, <1>2
<1>4. run' = [run EXCEPT ![w] = r]
  BY <1>3 DEF RunGoto, TypeInv, WorkersOK
<1>5. r.at = place /\ r.task = run[w].task
  BY <1>1
<1>6. Named(r)
  BY <1>5, TasksGrow DEF Named, RefInv
<1>7. QED
  BY <1>4, <1>6 DEF RunNames

LEMMA LocksNames ==
    ASSUME TypeInv, LiveInv, TasksOK, Tied, MoneyMoves, NEW w \in Workers, LockBatch(w), RefInv
    PROVE  RunNames
<1>1. run[w].at # "idle"
  BY DEF LockBatch, Call, RunAt
<1>2. CASE RunGoto(w, "locking") \/ RunGoto(w, "failed")
  BY <1>1, <1>2, GoesNames DEF Holding
<1>3. CASE /\ run[w].at = "locking" /\ Lands(w)
           /\ run' = [run EXCEPT ![w].at = "release", ![w].task = Len(tasks) + 1]
  <2>1. PICK r : r = [run[w] EXCEPT !.at = "release", !.task = Len(tasks) + 1]
    OBVIOUS
  <2>2. RunOK(run[w]) /\ DOMAIN run = Workers
    BY DEF TypeInv, WorkersOK
  <2>3. run' = [run EXCEPT ![w] = r] /\ r.task = Len(tasks) + 1
    BY <1>3, <2>1, <2>2 DEF RunOK
  <2>4. PICK tx \in Waiting(w) : Accepts(tx) /\ Apply(tx)
    BY <1>3 DEF Lands
  <2>5. tx \in flight /\ tx.by = w /\ tx.op = "lock"
    BY <1>3, <2>4 DEF Waiting, Tied, TiedTx, Sent
  <2>6. Len(tasks') = Len(tasks) + 1
    BY <2>4, <2>5, Effects, LiveSources DEF Effect
  <2>7. Named(r)
    BY <2>3, <2>6, TasksGrow DEF Named
  <2>8. QED
    BY <2>3, <2>7 DEF RunNames
<1>4. QED
  BY <1>2, <1>3 DEF LockBatch, Call, RunAt, Leaving

LEMMA CallNames ==
    ASSUME TypeInv, LiveInv, TasksOK, Tied, RefInv, MoneyMoves, NEW w \in Workers,
           LockBatch(w) \/ ReleaseBatch(w) \/ FinishBatch(w) \/ RollBack(w)
    PROVE  RunNames /\ TxNames
<1>1. CASE LockBatch(w)
  <2>1. RunNames
    BY <1>1, LocksNames
  <2>2. Submit(LockTx(w)) \/ flight' \subseteq flight \/ Lands(w) \/ FailsOnChain(w) \/ GivesUp(w)
    BY <1>1 DEF LockBatch, Call, Refused
  <2>3. Submit(LockTx(w)) => TxNames
    BY SubmitNames DEF LockTx
  <2>4. QED
    BY <2>1, <2>2, <2>3, FewerNames, NetNames DEF TypeInv
<1>2. CASE ReleaseBatch(w)
  <2>1. /\ run[w].at \in {"release", "releasing"}
        /\ RunGoto(w, "releasing") \/ RunGoto(w, "complete") \/ RunGoto(w, "rollback")
    BY <1>2 DEF ReleaseBatch, Call, On, RunAt
  <2>2. run[w].at \in Holding /\ run[w].at # "idle" /\ run[w].task \in 1..Len(tasks)
    BY <2>1, OpenTerms DEF Holding, RefInv
  <2>3. RunNames
    BY <2>1, <2>2, GoesNames
  <2>4. Submit(ReleaseTx(w)) \/ flight' \subseteq flight \/ Lands(w) \/ FailsOnChain(w) \/ GivesUp(w)
    BY <1>2 DEF ReleaseBatch, Call, Refused
  <2>5. Submit(ReleaseTx(w)) => TxNames
    BY <2>2, SubmitNames DEF ReleaseTx
  <2>6. QED
    BY <2>3, <2>4, <2>5, FewerNames, NetNames DEF TypeInv
<1>3. CASE FinishBatch(w) \/ RollBack(w)
  <2>1. /\ run[w].at \in {"complete", "completing", "rollback", "rolling"}
        /\ \E place : RunGoto(w, place)
    BY <1>3 DEF FinishBatch, RollBack, Call, Leaving, RunAt
  <2>2. run[w].at \in Holding /\ run[w].at # "idle" /\ run[w].task \in 1..Len(tasks)
    BY <2>1, OpenTerms DEF Holding, RefInv
  <2>3. RunNames
    BY <2>1, <2>2, GoesNames
  <2>4. Submit(CompleteTx(w)) \/ flight' \subseteq flight \/ Lands(w) \/ FailsOnChain(w) \/ GivesUp(w)
    BY <1>3 DEF FinishBatch, RollBack, Call, Refused
  <2>5. Submit(CompleteTx(w)) => TxNames
    BY <2>2, SubmitNames DEF CompleteTx
  <2>6. QED
    BY <2>3, <2>4, <2>5, FewerNames, NetNames DEF TypeInv
<1>4. QED
  BY <1>1, <1>2, <1>3

LEMMA NextNames ==
    ASSUME TypeInv, LiveInv, TasksOK, Tied, RefInv, MoneyMoves, [Next]_vars
    PROVE  RunNames /\ TxNames
<1>1. CASE UNCHANGED vars
  BY <1>1, FewerNames DEF vars, workerVars, RunNames
<1>2. ASSUME NEW d \in Spends, ClientStep(d) PROVE RunNames /\ TxNames
  <2>1. run' = run
    BY <1>2 DEF ClientStep, ReadGlobals, ReadAccumulator, ReadFails, ReadGlobalAccumulator,
       Prove, Relay, ReplyPaid, ReplyFailed, ReplyTimesOut, TryAgain, Enqueue, clientOnly, workerVars
  <2>2. CASE Relay(d)
    <3>1. Submit(KeylessTx(d)) => TxNames
      BY SubmitNames DEF KeylessTx
    <3>2. QED
      BY <2>1, <2>2, <3>1, FewerNames DEF Relay, Refused, RunNames
  <2>3. CASE ReplyPaid(d) \/ ReplyFailed(d) \/ ReplyTimesOut(d)
    BY <2>1, <2>3, NetNames DEF ReplyPaid, ReplyFailed, ReplyTimesOut, TypeInv, RunNames
  <2>4. ASSUME flight' = flight PROVE RunNames /\ TxNames
    BY <2>1, <2>4, FewerNames DEF RunNames
  <2>5. QED
    BY <1>2, <2>2, <2>3, <2>4 DEF ClientStep, ReadGlobals, ReadAccumulator, ReadFails,
       ReadGlobalAccumulator, Prove, TryAgain, Enqueue, clientOnly
<1>3. ASSUME NEW w \in Workers, WorkerStep(w) PROVE RunNames /\ TxNames
  <2>1. ASSUME NEW d \in Spends, Take(w, d) PROVE RunNames /\ TxNames
    <3>1. PICK r : r = [Idle EXCEPT !.at = "enter", !.of = d]
      OBVIOUS
    <3>2. r.at = "enter" /\ r.task = 0
      BY <3>1 DEF Idle
    <3>3. Named(r)
      BY <3>2, TasksGrow DEF Named, Holding
    <3>4. QED
      BY <2>1, <3>1, <3>3, FewerNames DEF Take, runOnly, RunNames
  <2>2. CASE Enter(w)
    BY <2>2, FewerNames, GoesNames DEF Enter, RunAt, runOnly, Holding
  <2>3. CASE LockBatch(w) \/ ReleaseBatch(w) \/ FinishBatch(w) \/ RollBack(w)
    BY <2>3, CallNames
  <2>4. CASE Record(w)
    BY <2>4, FewerNames, IdlesNames DEF Record
  <2>5. CASE Crash(w)
    BY <2>5, AbandonNames, IdlesNames DEF Crash, TypeInv
  <2>6. QED
    BY <1>3, <2>1, <2>2, <2>3, <2>4, <2>5 DEF WorkerStep
<1>4. ASSUME \/ \E d \in Spends : Stall(d)
             \/ \E t \in 1..Len(tasks) : Sweep(t)
             \/ \E r \in Rules : Pin(r) \/ Unpin(r) \/ SetGlobal(r)
             \/ ClearGlobal \/ Tick \/ AbandonedLands \/ AbandonedExpires
      PROVE  RunNames /\ TxNames
  <2>1. run' = run /\ flight' \subseteq flight
    BY <1>4 DEF Stall, Sweep, Pin, Unpin, SetGlobal, ClearGlobal, ownerOnly, Tick,
       AbandonedLands, AbandonedExpires, workerVars
  <2>2. QED
    BY <2>1, FewerNames DEF RunNames
<1>5. QED
  BY <1>1, <1>2, <1>3, <1>4 DEF Next

LEMMA InitBooks == Init => BooksInv /\ RefInv
<1> SUFFICES ASSUME Init PROVE BooksInv /\ RefInv
  OBVIOUS
<1>1. tasks = <<>> /\ Len(tasks) = 0
  BY DEF Init
<1>2. OpenTasks = {} /\ PaidIds = {}
  BY <1>1 DEF Init, OpenTasks, TaskIds, PaidIds
<1>3. OpenLocked = 0 /\ OpenSpent = 0 /\ PaidOut = 0
  BY <1>2, SumEmpty DEF OpenLocked, OpenSpent, PaidOut
<1>4. IsFiniteSet(PaidIds)
  BY <1>2, FS_EmptySet
<1>5. Funds \in Nat /\ balance = Funds /\ locked = 0
  BY PrivateAssumption DEF Init
<1>6. BooksInv
  BY <1>1, <1>3, <1>4, <1>5 DEF BooksInv
<1>7. RefInv
  BY <1>1 DEF Init, RefInv, Idle, Holding
<1>8. QED
  BY <1>6, <1>7

LEMMA NextBooks ==
    ASSUME Inv, Inv', RecInv, RecInv', BooksInv, RefInv, [Next]_vars
    PROVE  BooksInv' /\ RefInv'
<1>1. /\ TypeInv /\ LiveInv /\ ChainOK /\ ChainOK' /\ LiveInv' /\ TasksOK /\ TasksOK' /\ Tied
  BY DEF Inv, TypeInv, RecInv
<1>2. MoneyMoves
  BY NextMoney
<1>3. BooksInv'
  BY <1>1, <1>2, BooksStep
<1>4. RunNames /\ TxNames
  BY <1>1, <1>2, NextNames
<1>5. RefInv'
  BY <1>1, <1>2, <1>4, NamesHold
<1>6. QED
  BY <1>3, <1>5

-----------------------------------------------------------------------------
\* What else is bounded.

JobStates == {"none", "waiting", "active", "done", "failed"}
RecordValues == {"none", "COMPLETED", "FAILED"}
SmallInv ==
    /\ now \in Start..(Start + MaxTime)
    /\ \A r \in Rules : accum[r].anchor <= now
    /\ \A d \in Spends : job[d].state \in JobStates /\ record[d] \in RecordValues
    /\ holder \in Workers \cup {None}
    /\ faults \in Nat /\ changes \in Nat /\ faults + changes <= MaxTroubles

LEMMA ClockStep ==
    ASSUME TypeInv, LiveInv, SmallInv, [Next]_vars
    PROVE  (/\ now \in Start..(Start + MaxTime)
            /\ \A r \in Rules : accum[r].anchor <= now)'
<1>1. Start \in Nat /\ MaxTime \in Nat
  BY PrivateAssumption DEF Start
<1>2. now \in Start..(Start + MaxTime) /\ \A r \in Rules : accum[r] \in Acc /\ accum[r].anchor <= now
  BY DEF SmallInv, TypeInv, ChainOK
<1>3. UNCHANGED <<now, accum>> \/ Tick \/ (now' = now /\ PaysOne)
  <2>1. CASE UNCHANGED vars
    BY <2>1 DEF vars, chainVars
  <2>2. CASE Next
    BY <2>2, NextStep DEF Step, Ordinary, Gains, PaysNothing
  <2>3. QED
    BY <2>1, <2>2
<1>4. CASE UNCHANGED <<now, accum>>
  BY <1>2, <1>4
<1>5. CASE Tick
  <2>1. now < Start + MaxTime /\ now' = now + 1 /\ accum' = accum
    BY <1>5 DEF Tick
  <2>2. \A r \in Rules : accum[r].anchor \in Nat
    BY <1>2 DEF Acc
  <2>3. QED
    BY <1>1, <1>2, <2>1, <2>2
<1>6. CASE now' = now /\ PaysOne
  <2>1. PICK q \in Live, rs \in SUBSET Rules : Payment(q, rs)
    BY <1>6 DEF PaysOne
  <2>2. q.va <= now
    BY <2>1 DEF Payment, InWindow
  <2>3. \A r \in Rules : accum'[r] = IF r \in rs THEN Rolled(accum[r], q) ELSE accum[r]
    BY <2>1 DEF Payment, Roll
  <2>4. \A r \in Rules : Rolled(accum[r], q).anchor <= now
    BY <1>2, <2>2 DEF Rolled
  <2>5. QED
    BY <1>2, <1>6, <2>3, <2>4
<1>7. QED
  BY <1>3, <1>4, <1>5, <1>6

\* What happens to the owner's settings, and what is counted.
LEMMA OwnerKinds ==
    ASSUME [Next]_vars
    PROVE  \/ UNCHANGED ownerVars /\ (faults' = faults \/ Fault)
           \/ \E r \in Rules : Pin(r)
           \/ Change /\ faults' = faults
<1> DEFINE Quiet == UNCHANGED ownerVars /\ (faults' = faults \/ Fault)
<1>1. CASE UNCHANGED vars
  BY <1>1 DEF vars
<1>2. ASSUME NEW d \in Spends, ClientStep(d) PROVE Quiet
  BY <1>2 DEF ClientStep, ReadGlobals, ReadAccumulator, ReadFails, ReadGlobalAccumulator,
     Prove, Relay, ReplyPaid, ReplyFailed, ReplyTimesOut, TryAgain, Enqueue, clientOnly,
     ownerVars, GivesUp
<1>3. ASSUME NEW w \in Workers, WorkerStep(w) PROVE Quiet
  <2>1. CASE LockBatch(w) \/ ReleaseBatch(w) \/ FinishBatch(w) \/ RollBack(w)
    BY <2>1 DEF LockBatch, ReleaseBatch, FinishBatch, RollBack, Call, ownerVars, GivesUp
  <2>2. QED
    BY <1>3, <2>1 DEF WorkerStep, Take, Enter, Record, Crash, runOnly, ownerVars
<1>4. ASSUME NEW r \in Rules, Pin(r) \/ Unpin(r) \/ SetGlobal(r)
      PROVE  Pin(r) \/ (Change /\ faults' = faults)
  BY <1>4 DEF Unpin, SetGlobal, ownerOnly
<1>5. CASE ClearGlobal
  BY <1>5 DEF ClearGlobal, ownerOnly
<1>6. ASSUME \/ \E d \in Spends : Stall(d)
             \/ \E t \in 1..Len(tasks) : Sweep(t)
             \/ Tick \/ AbandonedLands \/ AbandonedExpires
      PROVE  Quiet
  BY <1>6 DEF Stall, Sweep, Tick, AbandonedLands, AbandonedExpires, ownerVars
<1>7. QED
  BY <1>1, <1>2, <1>3, <1>4, <1>5, <1>6 DEF Next

LEMMA TroublesStep ==
    ASSUME SmallInv, [Next]_vars
    PROVE  (faults \in Nat /\ changes \in Nat /\ faults + changes <= MaxTroubles)'
<1>1. faults \in Nat /\ changes \in Nat /\ faults + changes <= MaxTroubles /\ MaxTroubles \in Nat
  BY Numbers DEF SmallInv
<1>2. QED
  BY <1>1, OwnerKinds DEF Fault, Change, ownerVars, Pin, ownerOnly

LEMMA JobsStep ==
    ASSUME TypeInv, RecInv, SmallInv, [Next]_vars
    PROVE  (/\ \A d \in Spends : job[d].state \in JobStates /\ record[d] \in RecordValues
            /\ holder \in Workers \cup {None})'
<1> DEFINE Goal == (/\ \A d \in Spends : job[d].state \in JobStates /\ record[d] \in RecordValues
                    /\ holder \in Workers \cup {None})'
<1>0. /\ \A d \in Spends : job[d].state \in JobStates /\ record[d] \in RecordValues
      /\ holder \in Workers \cup {None}
      /\ job = [d \in Spends |-> job[d]] /\ record = [d \in Spends |-> record[d]]
      /\ \A d \in Spends : job[d] = [state |-> job[d].state, by |-> job[d].by,
                                     stalls |-> job[d].stalls]
      /\ \A w \in Workers : run[w].at # "idle" => run[w].of \in Spends
  BY DEF SmallInv, TypeInv, WorkersOK, JobOK, RunOK, RecInv, RecordsOK
<1>1. ASSUME NEW d \in Spends, NEW j, j.state \in JobStates, job' = [job EXCEPT ![d] = j]
      PROVE  \A e \in Spends : job'[e].state \in JobStates
  BY <1>0, <1>1
<1>2. \A d \in Spends : Requeued(d).state \in {"waiting", "failed"}
  <2>1. ASSUME NEW d \in Spends PROVE Requeued(d).state \in {"waiting", "failed"}
    <3>1. PICK s : s = IF job[d].stalls = 0 THEN "waiting" ELSE "failed"
      OBVIOUS
    <3>2. Requeued(d) = [state |-> s, by |-> None, stalls |-> 1]
      BY <1>0, <3>1, RequeuedJob
    <3>3. QED
      BY <3>1, <3>2
  <2>2. QED
    BY <2>1
<1>3. ASSUME NEW d \in Spends, job' = [job EXCEPT ![d] = Requeued(d)]
      PROVE  \A e \in Spends : job'[e].state \in JobStates
  <2>1. PICK j : j = Requeued(d)
    OBVIOUS
  <2>2. j.state \in JobStates
    BY <1>2, <2>1 DEF JobStates
  <2>3. QED
    BY <1>1, <1>3, <2>1, <2>2
<1>4. ASSUME UNCHANGED <<job, record, holder>> PROVE Goal
  BY <1>0, <1>4
<1>5. CASE UNCHANGED vars
  BY <1>4, <1>5 DEF vars, workerVars
<1>6. ASSUME NEW d \in Spends, ClientStep(d) PROVE Goal
  <2>1. CASE Enqueue(d)
    <3>1. PICK j : j = [job[d] EXCEPT !.state = "waiting"]
      OBVIOUS
    <3>2. j.state \in JobStates
      BY <1>0, <3>1 DEF JobStates
    <3>3. job' = [job EXCEPT ![d] = j] /\ UNCHANGED <<record, holder>>
      BY <2>1, <3>1 DEF Enqueue
    <3>4. QED
      BY <1>0, <1>1, <3>2, <3>3
  <2>2. QED
    BY <1>4, <1>6, <2>1 DEF ClientStep, ReadGlobals, ReadAccumulator, ReadFails,
       ReadGlobalAccumulator, Prove, Relay, ReplyPaid, ReplyFailed, ReplyTimesOut, TryAgain,
       clientOnly, workerVars
<1>7. ASSUME NEW w \in Workers, WorkerStep(w) PROVE Goal
  <2>1. ASSUME NEW d \in Spends, Take(w, d) PROVE Goal
    <3>1. PICK j : j = [job[d] EXCEPT !.state = "active", !.by = w]
      OBVIOUS
    <3>2. j = [state |-> "active", by |-> w, stalls |-> job[d].stalls]
      BY <1>0, <3>1, JobUpdated
    <3>3. j.state \in JobStates
      BY <3>2 DEF JobStates
    <3>4. job' = [job EXCEPT ![d] = j] /\ UNCHANGED <<record, holder>>
      BY <2>1, <3>1 DEF Take, runOnly
    <3>5. QED
      BY <1>0, <1>1, <3>3, <3>4
  <2>2. CASE Enter(w)
    BY <1>0, <2>2 DEF Enter, runOnly
  <2>3. CASE LockBatch(w) \/ ReleaseBatch(w) \/ FinishBatch(w) \/ RollBack(w)
    <3>1. UNCHANGED <<job, record>> /\ (holder' = holder \/ holder' = None)
      BY <2>3 DEF LockBatch, ReleaseBatch, FinishBatch, RollBack, Call, On, Leaving
    <3>2. QED
      BY <1>0, <3>1
  <2>4. CASE Record(w)
    <3>1. PICK d : d = run[w].of
      OBVIOUS
    <3>2. d \in Spends /\ holder' = holder
      BY <1>0, <2>4, <3>1 DEF Record
    <3>3. \A e \in Spends : record'[e] \in RecordValues
      BY <1>0, <2>4, <3>1 DEF Record, RecordValues
    <3>4. PICK j : j = [job[d] EXCEPT !.state = "done", !.by = None]
      OBVIOUS
    <3>5. j = [state |-> "done", by |-> None, stalls |-> job[d].stalls]
      BY <1>0, <3>2, <3>4, JobUpdated
    <3>6. j.state \in JobStates
      BY <3>5 DEF JobStates
    <3>7. job' = job \/ job' = [job EXCEPT ![d] = j]
      BY <1>0, <2>4, <3>1, <3>2, <3>4 DEF Record
    <3>8. QED
      BY <1>0, <1>1, <3>2, <3>3, <3>6, <3>7
  <2>5. CASE Crash(w)
    <3>1. PICK d : d = run[w].of
      OBVIOUS
    <3>2. /\ d \in Spends /\ (holder' = holder \/ holder' = None) /\ record' = record
          /\ job' = job \/ job' = [job EXCEPT ![d] = Requeued(d)]
      BY <1>0, <2>5, <3>1 DEF Crash, RunAt
    <3>3. QED
      BY <1>0, <1>3, <3>2
  <2>6. QED
    BY <1>7, <2>1, <2>2, <2>3, <2>4, <2>5 DEF WorkerStep
<1>8. ASSUME NEW d \in Spends, Stall(d) PROVE Goal
  BY <1>0, <1>3, <1>8 DEF Stall
<1>9. ASSUME \/ \E t \in 1..Len(tasks) : Sweep(t)
             \/ \E r \in Rules : Pin(r) \/ Unpin(r) \/ SetGlobal(r)
             \/ ClearGlobal \/ Tick \/ AbandonedLands \/ AbandonedExpires
      PROVE  Goal
  BY <1>4, <1>9 DEF Sweep, Pin, Unpin, SetGlobal, ClearGlobal, ownerOnly, Tick,
     AbandonedLands, AbandonedExpires, workerVars
<1>10. QED
  BY <1>5, <1>6, <1>7, <1>8, <1>9 DEF Next

LEMMA InitSmall == Init => SmallInv
<1> SUFFICES ASSUME Init PROVE SmallInv
  OBVIOUS
<1>1. Start \in Nat /\ MaxTime \in Nat /\ MaxTroubles \in Nat
  BY PrivateAssumption DEF Start
<1>2. now = Start /\ \A r \in Rules : accum[r].anchor = 0
  BY DEF Init, NoSpend
<1>3. \A d \in Spends : job[d].state = "none" /\ record[d] = "none"
  BY DEF Init, NoJob
<1>4. QED
  BY <1>1, <1>2, <1>3 DEF Init, SmallInv, JobStates, RecordValues

LEMMA TypesFollow == Inv /\ RecInv /\ BooksInv /\ RefInv /\ SmallInv => TypeOK
<1> SUFFICES ASSUME Inv, RecInv, BooksInv, RefInv, SmallInv PROVE TypeOK
  OBVIOUS
<1>1. TasksOK /\ TaskIds = 1..Len(tasks) /\ Len(tasks) \in Nat
  BY OpenTerms DEF RecInv
<1>2. {balance, locked} \subseteq 0..Funds /\ locked <= balance
  BY PrivateAssumption DEF BooksInv
<1>3. \A t \in TaskIds : tasks[t].spent \in 0..tasks[t].budget
  BY <1>1, OpenTerms DEF BooksInv, VaultTask
<1>4. \A r \in Rules : accum[r].spent \in 0..Cap[r] /\ accum[r].anchor <= now
  <2>1. \A r \in Rules : accum[r].spent \in Nat /\ accum[r].spent <= Cap[r] /\ Cap[r] \in Nat
    BY Numbers DEF Inv, TypeInv, ChainOK, Acc, RateInv, RateOf
  <2>2. QED
    BY <2>1 DEF SmallInv
<1>5. pinned \subseteq Rules /\ global \in Rules \cup {None}
  BY DEF Inv, TypeInv, ChainOK, RuleOrNone
<1>6. \A d \in Spends : client[d].at \in Places
  BY DEF Inv, TypeInv, ClientsOK, ClientOK, ClientRec
<1>7. \A w \in Workers : run[w].task \in {0} \cup TaskIds
  BY <1>1 DEF RefInv
<1>8. QED
  BY <1>2, <1>3, <1>4, <1>5, <1>6, <1>7 DEF TypeOK, SmallInv, Places, JobStates, RecordValues

-----------------------------------------------------------------------------
\* A list whose account nobody else uses.

\* What its browser holds is what the vault has stored, and its request is new.
Knows(d) ==
    LET c == client[d] IN
    /\ c.at # "start" => c.glob = global
    /\ c.at \in {"readGlobal", "prove", "post", "sent"} => c.acc = accum[c.rule]
    /\ c.at \in {"prove", "post", "sent"} /\ c.glob # None => c.gacc = accum[c.glob]
    /\ c.at \in {"post", "sent"} =>
          /\ c.q.rule = c.rule /\ c.q.acc = c.acc /\ c.q.glob = c.glob /\ c.q.gacc = c.gacc
          /\ paid[c.q.id] = 0
Web(d) == client[d].kind = "web"
UsedArePaid == \A u \in used : paid[u.nul[2]] > 0
ListInv ==
    /\ UsedArePaid
    /\ changes = 0 => pinned = Rules
    /\ \A d \in Spends : Alone(d) /\ Web(d) => Knows(d)

Whole == Inv /\ RecInv /\ BooksInv /\ RefInv /\ SmallInv

LEMMA ClientsMove ==
    ASSUME TypeInv, LiveInv, [Next]_vars
    PROVE  client' = client \/ \E d \in Spends : ClientStep(d) /\ ClientMoved(d)
<1>1. ASSUME NEW d \in Spends, ClientStep(d) PROVE ClientMoved(d)
  BY <1>1, ReadGlobalsStep, ReadAccumulatorStep, ReadFailsStep, ReadGlobalAccumulatorStep,
     ProveStep, RelayStep, ReplyStep, TryAgainStep, EnqueueStep DEF ClientStep
<1>2. ASSUME NEW w \in Workers, WorkerStep(w) PROVE client' = client
  <2>1. CASE LockBatch(w) \/ ReleaseBatch(w) \/ FinishBatch(w) \/ RollBack(w)
    BY <2>1 DEF LockBatch, ReleaseBatch, FinishBatch, RollBack
  <2>2. QED
    BY <1>2, <2>1 DEF WorkerStep, Take, Enter, Record, Crash, runOnly
<1>3. QED
  BY <1>1, <1>2 DEF Next, vars, Stall, Sweep, Pin, Unpin, SetGlobal, ClearGlobal, ownerOnly,
     Tick, AbandonedLands, AbandonedExpires

\* What is counted only grows.
LEMMA AloneStays ==
    ASSUME Whole, Whole', NEW d \in Spends, Alone(d)', [Next]_vars
    PROVE  Alone(d) /\ UNCHANGED <<faults, changes>>
<1>0. /\ TypeInv /\ LiveInv /\ LiveInv' /\ ChainOK /\ TasksOK /\ TasksOK'
      /\ faults \in Nat /\ changes \in Nat
  BY DEF Whole, Inv, TypeInv, RecInv, SmallInv
<1>1. faults = 0 /\ changes = 0 /\ UNCHANGED <<faults, changes>>
  BY <1>0, OwnerKinds DEF Alone, Fault, Change, ownerVars, Pin, ownerOnly
<1>2. client[d].try = 1
  <2>1. client[d].try \in Nat \ {0}
    BY <1>0, ClientFacts DEF ClientRec
  <2>2. client'[d].try = 1
    BY DEF Alone
  <2>3. client'[d] = client[d] \/ \E c : Turns(d, c)
    <3>1. ASSUME NEW e \in Spends, ClientMoved(e) PROVE client'[d] = client[d] \/ \E c : Turns(d, c)
      BY <1>0, <3>1, MovedFacts DEF ClientMoved
    <3>2. QED
      BY <1>0, <3>1, ClientsMove
  <2>4. CASE client'[d] = client[d]
    BY <2>2, <2>4
  <2>5. ASSUME NEW c, Turns(d, c) PROVE client[d].try = 1
    <3>1. client'[d] = c /\ c.try \in Nat
      BY <1>0, <2>5, Turned DEF TypeInv, Turns, ClientOK, ClientRec
    <3>2. c.try >= client[d].try
      BY <2>1, <2>5, <3>1 DEF Turns, Onward
    <3>3. QED
      BY <2>1, <2>2, <3>1, <3>2
  <2>6. QED
    BY <2>3, <2>4, <2>5
<1>3. tasks = <<>>
  <2>1. Len(tasks') >= Len(tasks) /\ Len(tasks) \in Nat
    BY <1>0, NextMoney, TasksGrow
  <2>2. Len(tasks') = 0
    BY DEF Alone
  <2>3. Len(tasks) = 0 /\ tasks \in Seq(VaultTask)
    BY <1>0, <2>1, <2>2 DEF TasksOK
  <2>4. QED
    BY <2>3, EmptySeq
<1>4. \A i \in Ids : i[1] # d => paid[i] = 0
  <2>1. PaysNothing \/ PaysOne \/ paid' = paid
    <3>1. CASE UNCHANGED vars
      BY <3>1 DEF vars, chainVars
    <3>2. CASE Next
      BY <1>0, <3>2, NextStep DEF Step, Ordinary, Tick, Gains
    <3>3. QED
      BY <3>1, <3>2
  <2>2. CASE paid' = paid
    BY <2>2 DEF Alone
  <2>3. CASE PaysNothing \/ PaysOne
    <3>1. \A i \in Ids : paid[i] \in Nat /\ paid[i] <= paid'[i]
      BY <1>0, <2>3, PaidGrows
    <3>2. QED
      BY <3>1 DEF Alone
  <2>4. QED
    BY <2>1, <2>2, <2>3
<1>5. QED
  BY <1>1, <1>2, <1>3, <1>4 DEF Alone

\* No call of anybody else can land.
LEMMA AloneLands ==
    ASSUME Whole, NEW d \in Spends, Alone(d), Alone(d)',
           NEW tx \in flight, Accepts(tx), Apply(tx)
    PROVE  tx.by = d
<1> SUFFICES ASSUME tx.by # d PROVE FALSE
  OBVIOUS
<1>0. TypeInv /\ LiveInv /\ TasksOK /\ Calm /\ TiedTx(tx) /\ tx.q \in Live
  BY LiveSources DEF Whole, Inv, RecInv, Tied, Alone
<1>1. Effect(tx)
  BY <1>0, Effects
<1>2. tasks = <<>> /\ tasks' = <<>> /\ Len(tasks) = 0 /\ Len(tasks') = 0
  BY DEF Alone
<1>3. tx.op = "keyless"
  <2>1. tx.op \notin {"release", "complete"}
    BY <1>2 DEF Whole, RefInv
  <2>2. tx.op # "lock"
    BY <1>1, <1>2 DEF Effect
  <2>3. QED
    BY <1>1, <2>1, <2>2 DEF Effect
<1>4. tx.by \in Spends
  BY <1>0, <1>3 DEF TiedTx, Sent, Calm
<1>5. PICK e \in Spends : e = tx.by /\ e # d
  BY <1>4
<1>6. tx.q = client[e].q /\ client[e].at = "sent"
  BY <1>0, <1>5 DEF TiedTx
<1>7. tx.q.id = <<e, client[e].group, client[e].try>> /\ tx.q.id \in Ids
  BY <1>0, <1>6, ClientFacts DEF ClientOK, Posted, Req
<1>8. tx.q.id[1] # d
  BY <1>5, <1>7
<1>9. paid' = [paid EXCEPT ![tx.q.id] = @ + 1] /\ paid \in [Ids -> Nat]
  BY <1>0, <1>1, <1>3 DEF Effect, PaysFor, TypeInv, ChainOK
<1>10. paid'[tx.q.id] # 0
  BY <1>7, <1>9
<1>11. QED
  BY <1>7, <1>8, <1>10 DEF Alone

LEMMA AloneMoves ==
    ASSUME Whole, NEW d \in Spends, Alone(d), Alone(d)', [Next]_vars
    PROVE  UNCHANGED <<accum, paid, global>> \/ ReplyPaid(d)
<1> DEFINE Same == UNCHANGED <<accum, paid, global>>
<1>0. faults = 0 /\ changes = 0 /\ faults' = 0 /\ changes' = 0 /\ tasks = <<>>
  BY DEF Alone
<1>1. ASSUME NEW w, Lands(w) PROVE w = d
  <2>1. PICK tx \in Waiting(w) : Accepts(tx) /\ Apply(tx)
    BY <1>1 DEF Lands
  <2>2. QED
    BY <2>1, AloneLands DEF Waiting
<1>2. ASSUME UNCHANGED <<chainVars, global>> PROVE Same
  BY <1>2 DEF chainVars
<1>3. ASSUME UNCHANGED ownerVars PROVE global' = global
  BY <1>3 DEF ownerVars
<1>4. CASE UNCHANGED vars
  BY <1>2, <1>3, <1>4 DEF vars
<1>5. ASSUME NEW e \in Spends, ClientStep(e) PROVE Same \/ ReplyPaid(d)
  <2>1. CASE ReplyPaid(e)
    BY <1>1, <2>1 DEF ReplyPaid
  <2>2. CASE Relay(e)
    BY <1>2, <1>3, <2>2 DEF Relay, Submit, Refused
  <2>3. CASE ReplyFailed(e) \/ ReplyTimesOut(e) \/ Enqueue(e)
    BY <1>2, <1>3, <2>3 DEF ReplyFailed, ReplyTimesOut, Enqueue, FailsOnChain, GivesUp
  <2>4. ASSUME UNCHANGED clientOnly PROVE Same
    BY <1>2, <1>3, <2>4 DEF clientOnly
  <2>5. QED
    BY <1>5, <2>1, <2>2, <2>3, <2>4 DEF ClientStep, ReadGlobals, ReadAccumulator, ReadFails,
       ReadGlobalAccumulator, Prove, TryAgain
<1>6. ASSUME NEW w \in Workers, WorkerStep(w) PROVE Same
  <2>0. UNCHANGED ownerVars
    <3>1. CASE LockBatch(w) \/ ReleaseBatch(w) \/ FinishBatch(w) \/ RollBack(w)
      BY <3>1 DEF LockBatch, ReleaseBatch, FinishBatch, RollBack
    <3>2. QED
      BY <1>6, <3>1 DEF WorkerStep, Take, Enter, Record, Crash, runOnly
  <2>1. ASSUME NEW tx, Submit(tx) \/ Refused(tx) \/ FailsOnChain(w) \/ GivesUp(w)
        PROVE  UNCHANGED chainVars
    BY <2>1 DEF Submit, Refused, FailsOnChain, GivesUp
  <2>2. ~Lands(w)
    BY <1>1, Names
  <2>3. CASE LockBatch(w) \/ ReleaseBatch(w) \/ FinishBatch(w) \/ RollBack(w)
    <3>1. \E tx : Submit(tx) \/ Refused(tx) \/ FailsOnChain(w) \/ GivesUp(w)
      BY <2>2, <2>3 DEF LockBatch, ReleaseBatch, FinishBatch, RollBack, Call
    <3>2. QED
      BY <1>2, <1>3, <2>0, <2>1, <3>1
  <2>4. ASSUME UNCHANGED chainVars PROVE Same
    BY <1>2, <1>3, <2>0, <2>4
  <2>5. QED
    BY <1>6, <2>3, <2>4 DEF WorkerStep, Take, Enter, Record, Crash, runOnly
<1>7. CASE AbandonedLands
  <2>1. PICK tx \in flight : tx.by = None
    BY <1>7 DEF AbandonedLands, Waiting
  <2>2. QED
    BY <1>0, <2>1 DEF Whole, RecInv, Calm
<1>8. ASSUME NEW r \in Rules, Pin(r) \/ Unpin(r) \/ SetGlobal(r) PROVE Same
  BY <1>0, <1>2, <1>8 DEF Pin, Unpin, SetGlobal, ownerOnly, Change
<1>9. CASE ClearGlobal
  BY <1>0, <1>9 DEF ClearGlobal, Change
<1>10. ASSUME NEW t \in 1..Len(tasks) PROVE FALSE
  BY <1>0, <1>10
<1>11. CASE Tick
  BY <1>3, <1>11 DEF Tick
<1>12. ASSUME \/ \E e \in Spends : Stall(e)
              \/ AbandonedExpires
       PROVE  Same
  BY <1>2, <1>3, <1>12 DEF Stall, AbandonedExpires
<1>13. QED
  BY <1>4, <1>5, <1>6, <1>7, <1>8, <1>9, <1>10, <1>11, <1>12 DEF Next

LEMMA EndedFields ==
    ASSUME TypeInv, NEW d \in Spends, NEW place, Ended(d, place)
    PROVE  client'[d].at = place /\ client'[d].glob = client[d].glob
<1>1. PICK c : c = [client[d] EXCEPT !.at = place, !.acc = NoSpend, !.gacc = NoSpend,
                                     !.va = 0, !.q = NoRequest]
  OBVIOUS
<1>2. client' = [client EXCEPT ![d] = c]
  BY <1>1, ClientFacts DEF Ended
<1>3. c.at = place /\ c.glob = client[d].glob
  BY <1>1, ClientFacts DEF ClientRec
<1>4. QED
  BY <1>2, <1>3, ClientFacts

LEMMA EndedKnows ==
    ASSUME TypeInv, NEW d \in Spends, NEW place \in {"done", "failed"}, Ended(d, place),
           client[d].at # "start", Knows(d), global' = global
    PROVE  Knows(d)'
BY EndedFields DEF Knows

LEMMA GotoKnows ==
    ASSUME TypeInv, NEW d \in Spends, client[d].at = "post", Goto(d, "sent"),
           Knows(d), UNCHANGED <<accum, paid, global>>
    PROVE  Knows(d)'
<1>1. PICK c : c = [client[d] EXCEPT !.at = "sent"]
  OBVIOUS
<1>2. client' = [client EXCEPT ![d] = c]
  BY <1>1, ClientFacts DEF Goto
<1>3. /\ c.at = "sent" /\ c.glob = client[d].glob /\ c.rule = client[d].rule
      /\ c.acc = client[d].acc /\ c.gacc = client[d].gacc /\ c.q = client[d].q
  BY <1>1, ClientFacts DEF ClientRec
<1>4. client'[d] = c
  BY <1>2, ClientFacts
<1>5. QED
  BY <1>3, <1>4 DEF Knows

LEMMA ReadsKnow ==
    ASSUME TypeInv, NEW d \in Spends, Web(d), Knows(d), UNCHANGED <<accum, paid, global>>,
           ReadGlobals(d) \/ ReadAccumulator(d) \/ ReadGlobalAccumulator(d)
    PROVE  Knows(d)'
<1> DEFINE b == client[d]
<1>1. CASE ReadGlobals(d)
  <2>1. PICK c : c = [b EXCEPT !.glob = global, !.at = "read"]
    OBVIOUS
  <2>2. client' = [client EXCEPT ![d] = c]
    BY <1>1, <2>1, ClientFacts DEF ReadGlobals
  <2>3. c.at = "read" /\ c.glob = global
    BY <2>1, ClientFacts DEF ClientRec
  <2>4. client'[d] = c
    BY <2>2, ClientFacts
  <2>5. QED
    BY <2>3, <2>4 DEF Knows
<1>2. CASE ReadAccumulator(d)
  <2>0. b.kind = "web" /\ b.at = "read"
    BY <1>2 DEF Web, ReadAccumulator, At
  <2>1. PICK v, p : /\ v = IF b.va = 0 /\ b.kind = "sdk" THEN now ELSE b.va
                    /\ p = AfterRead(d)
    OBVIOUS
  <2>2. PICK c : c = [b EXCEPT !.acc = accum[b.rule], !.va = v, !.at = p]
    OBVIOUS
  <2>3. client' = [client EXCEPT ![d] = c]
    BY <1>2, <2>0, <2>1, <2>2, ClientFacts DEF ReadAccumulator
  <2>4. /\ c.at = p /\ c.glob = b.glob /\ c.rule = b.rule /\ c.acc = accum[b.rule]
    BY <2>2, ClientFacts DEF ClientRec
  <2>5. client'[d] = c
    BY <2>3, ClientFacts
  <2>6. p = IF b.glob = None THEN "prove" ELSE "readGlobal"
    BY <2>1 DEF AfterRead
  <2>7. QED
    BY <2>0, <2>4, <2>5, <2>6 DEF Knows
<1>3. CASE ReadGlobalAccumulator(d)
  <2>1. PICK c : c = [b EXCEPT !.gacc = accum[b.glob], !.at = "prove"]
    OBVIOUS
  <2>2. client' = [client EXCEPT ![d] = c] /\ b.at = "readGlobal"
    BY <1>3, <2>1, ClientFacts DEF ReadGlobalAccumulator, At
  <2>3. /\ c.at = "prove" /\ c.glob = b.glob /\ c.rule = b.rule
        /\ c.acc = b.acc /\ c.gacc = accum[b.glob]
    BY <2>1, ClientFacts DEF ClientRec
  <2>4. client'[d] = c
    BY <2>2, ClientFacts
  <2>5. QED
    BY <2>2, <2>3, <2>4 DEF Knows
<1>4. QED
  BY <1>1, <1>2, <1>3

\* A new request has not been paid: its client was not yet through with it.
LEMMA ProveKnows ==
    ASSUME TypeInv, LiveInv, NEW d \in Spends, Web(d), Knows(d), Prove(d),
           UNCHANGED <<accum, paid, global>>
    PROVE  Knows(d)'
<1> DEFINE b == client[d]
           va == IF b.kind = "sdk" THEN b.va ELSE now
<1>1. b.at = "prove"
  BY DEF Prove, At
<1>2. CASE Ended(d, "failed")
  BY <1>1, <1>2, EndedKnows
<1>3. ASSUME NEW span \in Spans,
             client' = [client EXCEPT ![d].at = "post",
                          ![d].q = [id |-> <<d, b.group, b.try>>, total |-> Total(d),
                                    va |-> va, vb |-> va + span, rule |-> b.rule, acc |-> b.acc,
                                    glob |-> b.glob, gacc |-> b.gacc]]
      PROVE  Knows(d)'
  <2>1. PICK q : q = [id |-> <<d, b.group, b.try>>, total |-> Total(d),
                      va |-> va, vb |-> va + span, rule |-> b.rule, acc |-> b.acc,
                      glob |-> b.glob, gacc |-> b.gacc]
    OBVIOUS
  <2>2. PICK c : c = [b EXCEPT !.at = "post", !.q = q]
    OBVIOUS
  <2>3. client' = [client EXCEPT ![d] = c]
    BY <1>3, <2>1, <2>2, ClientFacts
  <2>4. client'[d] = c
    BY <2>3, ClientFacts
  <2>5. /\ c.at = "post" /\ c.glob = b.glob /\ c.rule = b.rule
        /\ c.acc = b.acc /\ c.gacc = b.gacc /\ c.q = q
    BY <2>2, ClientFacts DEF ClientRec
  <2>6. /\ q.id = <<d, b.group, b.try>> /\ q.rule = b.rule /\ q.acc = b.acc
        /\ q.glob = b.glob /\ q.gacc = b.gacc
    BY <2>1
  <2>7. q.id \in Ids
    BY <2>6, ClientFacts, IdMade DEF ClientOK
  <2>8. ~Behind(q.id)
    <3>1. q.id[1] = d /\ q.id[2] = b.group /\ q.id[3] = b.try
      BY <2>6
    <3>2. b.group \in Nat /\ b.try \in Nat /\ b.at \notin Past
      BY <1>1, ClientFacts DEF Past, Posted
    <3>3. QED
      BY <3>1, <3>2 DEF Behind
  <2>9. paid[q.id] = 0
    BY <2>7, <2>8 DEF LiveInv, TypeInv, ChainOK
  <2>10. QED
    BY <1>1, <2>4, <2>5, <2>6, <2>9 DEF Knows
<1>4. QED
  BY <1>2, <1>3 DEF Prove

\* The windows the browser rolls by itself are those the vault stores.
LEMMA AdvanceKnows ==
    ASSUME TypeInv, RecInv, NEW d \in Spends, Web(d), Knows(d), ReplyPaid(d)
    PROVE  Knows(d)'
<1> DEFINE b == client[d]
<1>1. b.at = "sent" /\ Lands(d) /\ Advanced(d) /\ global' = global
  BY DEF ReplyPaid, At, ownerVars
<1>2. CASE ~(b.group < Len(Groups[d]))
  <2>1. Ended(d, "done")
    BY <1>1, <1>2 DEF Advanced
  <2>2. QED
    BY <1>1, <2>1, EndedKnows
<1>3. CASE b.group < Len(Groups[d])
  <2>1. PICK tx \in Waiting(d) : Accepts(tx) /\ Apply(tx)
    BY <1>1 DEF Lands
  <2>2. tx.op = "keyless" /\ tx.q = b.q
    BY <2>1 DEF Waiting, RecInv, Tied, TiedTx
  <2>3. PICK q : q = b.q
    OBVIOUS
  <2>4. PICK rs : rs = {q.rule} \cup ({global} \ {None})
    OBVIOUS
  <2>5. Roll(q, rs)
    BY <2>1, <2>2, <2>3, <2>4 DEF Apply, PayKeyless
  <2>6. \A r \in Rules : r \in rs => accum'[r] = Rolled(accum[r], q)
    BY <2>5 DEF Roll
  <2>7. /\ b.glob = global /\ b.acc = accum[b.rule] /\ (b.glob # None => b.gacc = accum[b.glob])
        /\ q.rule = b.rule
    BY <1>1, <2>3 DEF Knows
  <2>8. b.rule \in Rules /\ (b.glob # None => b.glob \in Rules)
    BY ClientFacts DEF RuleOrNone
  <2>9. accum'[b.rule] = Rolled(b.acc, q)
    BY <2>4, <2>6, <2>7, <2>8
  <2>10. b.glob # None => accum'[b.glob] = Rolled(b.gacc, q)
    BY <2>4, <2>6, <2>7, <2>8
  <2>11. PICK a, g : a = Rolled(b.acc, q) /\ g = IF b.glob = None THEN b.gacc ELSE Rolled(b.gacc, q)
    OBVIOUS
  <2>12. PICK c : c = [b EXCEPT !.group = b.group + 1, !.at = "prove", !.q = NoRequest,
                                !.acc = a, !.gacc = g]
    OBVIOUS
  <2>13. client' = [client EXCEPT ![d] = c]
    BY <1>1, <1>3, <2>3, <2>11, <2>12, ClientFacts DEF Advanced
  <2>14. client'[d] = c
    BY <2>13, ClientFacts
  <2>15. c.at = "prove" /\ c.glob = b.glob /\ c.rule = b.rule /\ c.acc = a /\ c.gacc = g
    BY <2>12, ClientFacts DEF ClientRec
  <2>16. QED
    BY <1>1, <2>7, <2>9, <2>10, <2>11, <2>14, <2>15 DEF Knows
<1>4. QED
  BY <1>2, <1>3

LEMMA KnowsStep ==
    ASSUME Whole, Whole', NEW d \in Spends, Alone(d), Alone(d)', Web(d), Knows(d), [Next]_vars
    PROVE  Knows(d)'
<1>0. TypeInv /\ LiveInv /\ RecInv
  BY DEF Whole, Inv
<1>1. CASE ReplyPaid(d)
  BY <1>0, <1>1, AdvanceKnows
<1>2. CASE UNCHANGED <<accum, paid, global>>
  <2>1. CASE client'[d] = client[d]
    BY <1>2, <2>1 DEF Knows
  <2>2. CASE ClientStep(d)
    <3>1. CASE Relay(d)
      <4>1. client[d].at = "post" /\ (Goto(d, "sent") \/ Ended(d, "failed"))
        BY <3>1 DEF Relay, At
      <4>2. QED
        BY <1>0, <1>2, <4>1, GotoKnows, EndedKnows
    <3>2. CASE ReplyFailed(d)
      BY <1>0, <1>2, <3>2, EndedKnows DEF ReplyFailed, At
    <3>3. ~ReadFails(d) /\ ~ReplyTimesOut(d)
      BY DEF ReadFails, ReplyTimesOut, GivesUp, Fault, Alone
    <3>4. ~Enqueue(d)
      BY DEF Enqueue, Web
    <3>5. ~TryAgain(d)
      <4>1. ASSUME TryAgain(d) PROVE FALSE
        <5>1. PICK c : c = [client[d] EXCEPT !.try = client[d].try + 1, !.group = 1,
                                            !.at = First(client[d].kind)]
          OBVIOUS
        <5>2. client' = [client EXCEPT ![d] = c]
          BY <1>0, <4>1, <5>1, ClientFacts DEF TryAgain
        <5>3. c.try = client[d].try + 1
          BY <1>0, <5>1, ClientFacts DEF ClientRec
        <5>4. client'[d] = c
          BY <1>0, <5>2, ClientFacts
        <5>5. QED
          BY <5>3, <5>4 DEF Alone
      <4>2. QED
        BY <4>1
    <3>6. QED
      BY <1>0, <1>1, <1>2, <2>2, <3>1, <3>2, <3>3, <3>4, <3>5, ReadsKnow, ProveKnows DEF ClientStep
  <2>3. QED
    <3>1. ASSUME NEW e \in Spends, ClientStep(e), ClientMoved(e), e # d
          PROVE  client'[d] = client[d]
      BY <1>0, <3>1, MovedFacts
    <3>2. QED
      BY <1>0, <2>1, <2>2, <3>1, ClientsMove
<1>3. QED
  BY <1>1, <1>2, AloneMoves

LEMMA UsedStep ==
    ASSUME Inv, Inv', UsedArePaid, [Next]_vars
    PROVE  UsedArePaid'
<1>0. TypeInv /\ LiveInv /\ LiveInv' /\ ChainOK
  BY DEF Inv, TypeInv
<1>1. \A u \in used : u.nul[2] \in Ids
  BY <1>0 DEF ChainOK
<1>2. \/ used' \subseteq used /\ paid' = paid
      \/ PaysOne
  <2>1. CASE UNCHANGED vars
    BY <2>1 DEF vars, chainVars
  <2>2. CASE Tick
    BY <2>2 DEF Tick
  <2>3. CASE Next
    BY <1>0, <2>2, <2>3, NextStep DEF Step, Ordinary, Gains, PaysNothing
  <2>4. QED
    BY <2>1, <2>3
<1>3. CASE used' \subseteq used /\ paid' = paid
  BY <1>3 DEF UsedArePaid
<1>4. CASE PaysOne
  <2>1. PICK q \in Live, rs \in SUBSET Rules : Payment(q, rs)
    BY <1>4 DEF PaysOne
  <2>2. q.id \in Ids /\ paid' = [paid EXCEPT ![q.id] = @ + 1] /\ paid \in [Ids -> Nat]
    BY <1>0, <2>1 DEF LiveInv, Req, Payment, Roll, ChainOK
  <2>3. \A u \in used' : u \in used \/ \E r \in rs : u.nul = <<r, q.id>>
    BY <2>1 DEF Payment, Consume, Nullifiers
  <2>4. ASSUME NEW u \in used' PROVE paid'[u.nul[2]] > 0
    <3>1. CASE u \in used
      BY <1>1, <2>2, <3>1 DEF UsedArePaid
    <3>2. CASE \E r \in rs : u.nul = <<r, q.id>>
      BY <2>2, <3>2
    <3>3. QED
      BY <2>3, <3>1, <3>2
  <2>5. QED
    BY <2>4 DEF UsedArePaid
<1>5. QED
  BY <1>2, <1>3, <1>4

LEMMA ListStep ==
    ASSUME Whole, Whole', ListInv, [Next]_vars
    PROVE  ListInv'
<1>1. UsedArePaid'
  BY UsedStep DEF ListInv, Whole
<1>2. changes' = 0 => pinned' = Rules
  <2>1. pinned \subseteq Rules /\ changes \in Nat
    BY DEF Whole, Inv, TypeInv, ChainOK, SmallInv
  <2>2. QED
    BY <2>1, OwnerKinds DEF ListInv, ownerVars, Pin, Change
<1>3. ASSUME NEW d \in Spends, Alone(d)', Web(d)' PROVE Knows(d)'
  <2>1. Alone(d)
    BY <1>3, AloneStays
  <2>2. Web(d)
    <3>1. TypeInv /\ LiveInv
      BY DEF Whole, Inv
    <3>2. client'[d].kind = client[d].kind
      BY <3>1, ClientsMove, MovedFacts
    <3>3. QED
      BY <1>3, <3>2 DEF Web
  <2>3. QED
    BY <1>3, <2>1, <2>2, KnowsStep DEF ListInv
<1>4. QED
  BY <1>1, <1>2, <1>3 DEF ListInv

LEMMA InitList == Init => ListInv
<1> SUFFICES ASSUME Init PROVE ListInv
  OBVIOUS
<1>1. used = {} /\ pinned = Rules
  BY DEF Init
<1>2. PICK plan \in Plans : client = [d \in Spends |-> Begin(plan[d], global)]
  BY DEF Init
<1>3. ASSUME NEW d \in Spends, Web(d) PROVE client[d].at = "start"
  <2>1. client[d] = Begin(plan[d], global)
    BY <1>2
  <2>2. plan[d].kind = "web" /\ client[d].at = First(plan[d].kind)
    BY <1>3, <2>1 DEF Web, Begin
  <2>3. QED
    BY <2>2 DEF First
<1>4. QED
  BY <1>1, <1>3 DEF ListInv, UsedArePaid, Knows

\* What the vault refuses of such a list.
LEMMA ListRefused ==
    ASSUME Whole, ListInv, NEW d \in Spends, At(d, "post"), client'[d].at = "failed",
           client[d].kind = "web", Alone(d), [Next]_vars
    PROVE  ~InWindow(client[d].q) \/ client[d].q.total > Available
<1>0. TypeInv /\ LiveInv
  BY DEF Whole, Inv
<1>1. Relay(d)
  <2>1. client[d].at = "post"
    BY DEF At
  <2>2. client' # client
    BY <2>1
  <2>3. PICK e \in Spends : ClientStep(e) /\ ClientMoved(e)
    BY <1>0, <2>2, ClientsMove
  <2>4. e = d
    BY <1>0, <2>1, <2>3, MovedFacts
  <2>5. QED
    BY <2>1, <2>3, <2>4 DEF ClientStep, ReadGlobals, ReadAccumulator, ReadFails,
       ReadGlobalAccumulator, Prove, ReplyPaid, ReplyFailed, ReplyTimesOut, TryAgain, Enqueue, At
<1>2. Refused(KeylessTx(d))
  <2>1. ASSUME Goto(d, "sent") PROVE FALSE
    <3>1. PICK c : c = [client[d] EXCEPT !.at = "sent"]
      OBVIOUS
    <3>2. client' = [client EXCEPT ![d] = c] /\ c.at = "sent"
      BY <1>0, <2>1, <3>1, ClientFacts DEF Goto, ClientRec
    <3>3. QED
      BY <1>0, <3>2, ClientFacts
  <2>2. QED
    BY <1>1, <2>1 DEF Relay
<1>3. PICK q : q = client[d].q
  OBVIOUS
<1>4. ~KeylessAccepts(q)
  <2>1. PICK tx : tx = KeylessTx(d)
    OBVIOUS
  <2>2. tx.op = "keyless" /\ tx.q = q
    BY <1>3, <2>1 DEF KeylessTx
  <2>3. QED
    BY <1>2, <2>1, <2>2 DEF Refused, Accepts
<1>5. Knows(d) /\ pinned = Rules /\ UsedArePaid
  BY DEF ListInv, Alone, Web
<1>6. /\ client[d].glob = global /\ client[d].acc = accum[client[d].rule]
      /\ client[d].glob # None => client[d].gacc = accum[client[d].glob]
      /\ q.rule = client[d].rule /\ q.acc = client[d].acc
      /\ q.glob = client[d].glob /\ q.gacc = client[d].gacc
      /\ paid[q.id] = 0
  BY <1>3, <1>5 DEF Knows, At
<1>7. ASSUME NEW rs PROVE Fresh(Nullifiers(q, rs))
  <2>1. ASSUME NEW u \in used, u.nul \in Nullifiers(q, rs) PROVE FALSE
    <3>1. u.nul[2] = q.id
      BY <2>1 DEF Nullifiers
    <3>2. QED
      BY <1>5, <1>6, <3>1 DEF UsedArePaid
  <2>2. QED
    BY <2>1 DEF Fresh
<1>8. q.rule \in pinned /\ Verified(q.rule, q.acc) /\ GlobalAccepts(q)
  BY <1>0, <1>5, <1>6, <1>7, ClientFacts DEF Verified, GlobalAccepts
<1>9. ~InWindow(q) \/ ~(q.total <= Available)
  BY <1>4, <1>7, <1>8 DEF KeylessAccepts
<1>10. q.total \in Nat /\ Available \in Int
  BY <1>0, <1>3, ClientFacts DEF ClientOK, Posted, Req, At, Available, Whole, BooksInv
<1>11. QED
  BY <1>3, <1>9, <1>10

-----------------------------------------------------------------------------
\* The theorems.

LEMMA RecordsInvariant == Spec => []RecInv
<1>1. Init => RecInv
  BY InitRec
<1>2. TypeInv /\ LiveInv /\ LiveInv' /\ RecInv /\ [Next]_vars => RecInv'
  BY NextRec
<1>3. Inv => TypeInv /\ LiveInv
  BY DEF Inv
<1>4. Inv' => LiveInv'
  BY DEF Inv
<1>5. QED
  BY <1>1, <1>2, <1>3, <1>4, Invariant, PTL DEF Spec

LEMMA WholeInvariant == Spec => []Whole
<1>1. Init => BooksInv /\ RefInv /\ SmallInv
  BY InitBooks, InitSmall
<1>2. Inv /\ Inv' /\ RecInv /\ RecInv' /\ BooksInv /\ RefInv /\ SmallInv /\ [Next]_vars
        => BooksInv' /\ RefInv' /\ SmallInv'
  <2> SUFFICES ASSUME Inv, Inv', RecInv, RecInv', BooksInv, RefInv, SmallInv, [Next]_vars
               PROVE  BooksInv' /\ RefInv' /\ SmallInv'
    OBVIOUS
  <2>2. TypeInv /\ LiveInv
    BY DEF Inv
  <2>3. SmallInv'
    BY <2>2, ClockStep, TroublesStep, JobsStep DEF SmallInv
  <2>4. QED
    BY <2>3, NextBooks
<1>3. Inv /\ RecInv /\ BooksInv /\ RefInv /\ SmallInv => Whole
  BY DEF Whole
<1>4. QED
  BY <1>1, <1>2, <1>3, Invariant, RecordsInvariant, PTL DEF Spec

\* A proof moves money at most once, in whichever lane and however often its
\* transaction is repeated, and its nullifier outlives its validity window
\* (release_proved_keyless, lib.rs 2545; record_nullifier, lib.rs 3900).
THEOREM ProofsPayOnce == Spec => []ProofPaysOnce
<1>1. Inv => ProofPaysOnce
  BY LiveIsOnce DEF Inv
<1>2. QED
  BY <1>1, Invariant, PTL

\* What is paid under a commitment fits its rolling cap once per window begun,
\* though every prover computes from an accumulator it read earlier
\* (verify_batch_proof, lib.rs 2772; policy_batch.circom).
THEOREM RateAlwaysBounded == Spec => []RateBounded
<1>1. Inv => RateBounded
  BY RateIsBounded DEF Inv, TypeInv
<1>2. QED
  BY <1>1, Invariant, PTL

\* A batch recorded as completed has paid, and while nothing goes wrong one
\* recorded as failed has not, and no finished job leaves a budget locked
\* (recordBatchActivity and settleBatch, settlement.ts 476 and 537).
THEOREM RecordsAlwaysTrue == Spec => []RecordTellsTruth
  BY RecordsInvariant, RecordsTrue, PTL

\* The books, the windows, the jobs and the records keep their types, what is
\* locked never exceeds the balance, and no window begins in the future
\* (complete_task and release_proved_keyless, lib.rs; settlement.ts).
THEOREM TypesAlwaysHold == Spec => []TypeOK
<1>1. Whole => TypeOK
  BY TypesFollow DEF Whole
<1>2. QED
  BY <1>1, WholeInvariant, PTL

\* What is locked is what the open batch tasks reserve, and the balance is the
\* deposit less every payout, those of open tasks apart, in whatever order the
\* calls of both lanes land, fail, time out or land late (create_task_with_policy,
\* release_payment_proved_batch, release_proved_keyless, complete_task, lib.rs).
THEOREM BooksAlwaysBalance == Spec => []BooksBalance
<1>1. Whole => BooksBalance
  BY BooksMeaning DEF Whole
<1>2. QED
  BY <1>1, WholeInvariant, PTL

\* A list whose account nobody else uses is refused part-way only when its
\* proof is out of its validity window or the money does not suffice: the
\* windows that the browser rolls by itself are those the vault has stored.
THEOREM ListsGoThrough == Spec => ListGoesThrough
<1>1. Init => ListInv
  BY InitList
<1>2. Whole /\ Whole' /\ ListInv /\ [Next]_vars => ListInv'
  BY ListStep
<1>3. Whole /\ ListInv /\ [Next]_vars =>
        [\A d \in Spends :
           /\ At(d, "post") /\ client'[d].at = "failed"
           /\ client[d].kind = "web" /\ Alone(d)
           => ~InWindow(client[d].q) \/ client[d].q.total > Available]_vars
  BY ListRefused
<1>4. QED
  BY <1>1, <1>2, <1>3, WholeInvariant, PTL DEF Spec, ListGoesThrough

-----------------------------------------------------------------------------
\* The account, its batch tasks and what was paid, as the books of FundsEscrow:
\* one owner, one asset, one escrow per vault task.  PrivateLane leaves fees out, so
\* none accrues.  Its account starts with its funds, where FundsEscrow starts empty
\* and credits them first.

Owner == {"owner"}
Asset == {"asset"}
TaskNumbers == Nat \ {0}

EscrowOf(t) ==
    IF t \in TaskIds
    THEN [phase |-> IF tasks[t].open THEN "open" ELSE "closed",
          owner |-> "owner", asset |-> "asset",
          left |-> IF tasks[t].open THEN tasks[t].budget - tasks[t].spent ELSE 0]
    ELSE [phase |-> "none"]

Free == [u \in Owner |-> [a \in Asset |-> Available]]
NoFees == [a \in Asset |-> 0]
Tokens == [a \in Asset |-> Funds - PaidOut]
Escrows == [t \in TaskNumbers |-> EscrowOf(t)]

Books == INSTANCE FundsEscrow WITH
    Users <- Owner, Assets <- Asset, TaskIds <- TaskNumbers, Amounts <- Nat,
    free <- Free, fees <- NoFees, tokens <- Tokens, escrow <- Escrows

\* The books right after the one credit of the account's funds.
Credited ==
    /\ Free = [u \in Owner |-> [a \in Asset |-> Funds]]
    /\ NoFees = [a \in Asset |-> 0]
    /\ Tokens = [a \in Asset |-> Funds]
    /\ Escrows = [t \in TaskNumbers |-> Books!Unopened]

LEMMA StartsCredited == Init => Credited
<1> SUFFICES ASSUME Init PROVE Credited
  OBVIOUS
<1>1. tasks = <<>> /\ Len(tasks) = 0 /\ TaskIds = {}
  BY DEF Init, TaskIds
<1>2. PaidIds = {}
  BY DEF Init, PaidIds
<1>3. PaidOut = 0
  BY <1>2, SumEmpty DEF PaidOut
<1>4. Funds \in Nat /\ Available = Funds /\ Funds - PaidOut = Funds
  BY <1>3, PrivateAssumption DEF Init, Available
<1>5. Escrows = [t \in TaskNumbers |-> Books!Unopened]
  BY <1>1 DEF Escrows, EscrowOf, Books!Unopened
<1>6. QED
  BY <1>4, <1>5 DEF Credited, Free, NoFees, Tokens

\* The account's free funds change by one write.
LEMMA FreeWritten ==
    ASSUME NEW x, Available' = x
    PROVE  Free' = [Free EXCEPT !["owner"]["asset"] = x]
  BY DEF Free, Owner, Asset

\* Escrows are a function of the vault's tasks.
LEMMA EscrowsStay == UNCHANGED tasks => Escrows' = Escrows
  BY DEF Escrows, EscrowOf, TaskIds

\* One task changes one escrow.
LEMMA EscrowWritten ==
    ASSUME TasksOK, NEW t \in TaskNumbers, NEW e, EscrowOf(t)' = e,
           \A x \in TaskNumbers : x # t => EscrowOf(x)' = EscrowOf(x)
    PROVE  Escrows' = [Escrows EXCEPT ![t] = e]
  BY DEF Escrows

\* Free funds leave on a keyless proof.
LEMMA DebitMade ==
    ASSUME NEW x \in Nat, Available \in Int, PaidOut \in Int, Funds \in Int, x <= Available,
           Available' = Available - x, PaidOut' = PaidOut + x, UNCHANGED tasks
    PROVE  Books!Next
<1>1. Free["owner"]["asset"] = Available /\ Tokens["asset"] = Funds - PaidOut /\ NoFees["asset"] = 0
  BY DEF Free, Tokens, NoFees, Owner, Asset
<1>2. Free' = [Free EXCEPT !["owner"]["asset"] = Free["owner"]["asset"] - x]
  BY <1>1, FreeWritten
<1>3. Tokens' = [Tokens EXCEPT !["asset"] = Tokens["asset"] - (x - 0)]
  <2>1. Funds - PaidOut' = (Funds - PaidOut) - (x - 0)
    OBVIOUS
  <2>2. QED
    BY <1>1, <2>1 DEF Tokens, Asset
<1>4. NoFees' = [NoFees EXCEPT !["asset"] = NoFees["asset"] + 0]
  BY <1>1 DEF NoFees, Asset
<1>5. Books!Debit("owner", "asset", x, 0)
  BY <1>1, <1>2, <1>3, <1>4, EscrowsStay DEF Books!Debit
<1>6. "owner" \in Owner /\ "asset" \in Asset /\ 0 \in 0..x
  BY DEF Owner, Asset
<1>7. QED
  BY <1>5, <1>6 DEF Books!Next

\* Free funds are committed to a new task.
LEMMA OpenMade ==
    ASSUME TasksOK, TasksOK', NEW x \in Nat, x <= Available,
           Available' = Available - x, PaidOut' = PaidOut,
           Len(tasks') = Len(tasks) + 1, \A y \in 1..Len(tasks) : tasks'[y] = tasks[y],
           NEW t, t = Len(tasks'), tasks'[t].open, tasks'[t].budget = x, tasks'[t].spent = 0
    PROVE  Books!Next
<1>1. /\ TaskIds = 1..Len(tasks) /\ TaskIds' = 1..Len(tasks') /\ Len(tasks) \in Nat
      /\ t \in TaskNumbers /\ t \notin TaskIds /\ t \in TaskIds' /\ TaskIds' = TaskIds \cup {t}
  BY OpenTerms, NewTerms DEF TaskNumbers
<1>2. Free["owner"]["asset"] = Available
  BY DEF Free, Owner, Asset
<1>3. Free' = [Free EXCEPT !["owner"]["asset"] = Free["owner"]["asset"] - x]
  BY <1>2, FreeWritten
<1>4. x - 0 = x
  OBVIOUS
<1>5. EscrowOf(t)' = [phase |-> "open", owner |-> "owner", asset |-> "asset", left |-> x]
  BY <1>1, <1>4 DEF EscrowOf
<1>6. \A y \in TaskNumbers : y # t => EscrowOf(y)' = EscrowOf(y)
  BY <1>1 DEF EscrowOf
<1>7. Escrows' = [Escrows EXCEPT ![t] =
                    [phase |-> "open", owner |-> "owner", asset |-> "asset", left |-> x]]
  BY <1>1, <1>5, <1>6, EscrowWritten
<1>8. Escrows[t].phase = "none"
  BY <1>1 DEF Escrows, EscrowOf
<1>9. Tokens' = Tokens /\ NoFees' = NoFees
  BY DEF Tokens, NoFees
<1>10. Books!Open(t, "owner", "asset", x)
  BY <1>2, <1>3, <1>7, <1>8, <1>9 DEF Books!Open
<1>11. "owner" \in Owner /\ "asset" \in Asset
  BY DEF Owner, Asset
<1>12. QED
  BY <1>1, <1>10, <1>11 DEF Books!Next

\* An open task's escrow, before and after a call on it.
LEMMA OpenEscrow ==
    ASSUME TasksOK, TasksOK', NEW t \in 1..Len(tasks), tasks[t].open, Len(tasks') = Len(tasks),
           \A y \in 1..Len(tasks) : y # t => tasks'[y] = tasks[y]
    PROVE  /\ t \in TaskNumbers
           /\ Escrows[t] = [phase |-> "open", owner |-> "owner", asset |-> "asset",
                            left |-> tasks[t].budget - tasks[t].spent]
           /\ Escrows' = [Escrows EXCEPT ![t] =
                [phase |-> IF tasks'[t].open THEN "open" ELSE "closed",
                 owner |-> "owner", asset |-> "asset",
                 left |-> IF tasks'[t].open THEN tasks'[t].budget - tasks'[t].spent ELSE 0]]
<1>1. /\ TaskIds = 1..Len(tasks) /\ TaskIds' = TaskIds /\ Len(tasks) \in Nat
      /\ t \in TaskNumbers
  BY OpenTerms, NewTerms DEF TaskNumbers
<1>2. \A y \in TaskNumbers : y # t => EscrowOf(y)' = EscrowOf(y)
  BY <1>1 DEF EscrowOf
<1>3. Escrows[t] = [phase |-> "open", owner |-> "owner", asset |-> "asset",
                    left |-> tasks[t].budget - tasks[t].spent]
  BY <1>1 DEF Escrows, EscrowOf
<1>4. PICK e : e = EscrowOf(t)'
  OBVIOUS
<1>5. e = [phase |-> IF tasks'[t].open THEN "open" ELSE "closed",
           owner |-> "owner", asset |-> "asset",
           left |-> IF tasks'[t].open THEN tasks'[t].budget - tasks'[t].spent ELSE 0]
  BY <1>1, <1>4 DEF EscrowOf
<1>6. Escrows' = [Escrows EXCEPT ![t] = e]
  BY <1>1, <1>2, <1>4, EscrowWritten
<1>7. QED
  BY <1>1, <1>3, <1>5, <1>6

\* Part of an open escrow is paid out.
LEMMA PayMade ==
    ASSUME TasksOK, TasksOK', NEW t \in 1..Len(tasks), tasks[t].open, Len(tasks') = Len(tasks),
           \A y \in 1..Len(tasks) : y # t => tasks'[y] = tasks[y],
           NEW x \in Nat, tasks[t].spent + x <= tasks[t].budget,
           tasks'[t].open, tasks'[t].budget = tasks[t].budget,
           tasks'[t].spent = tasks[t].spent + x,
           Available' = Available, PaidOut \in Int, Funds \in Int, PaidOut' = PaidOut + x
    PROVE  Books!Next
<1>1. tasks[t].budget \in Nat /\ tasks[t].spent \in Nat
  <2>1. tasks[t] \in VaultTask
    BY DEF TasksOK
  <2>2. QED
    BY <2>1 DEF VaultTask
<1>2. PICK left \in Int : left = tasks[t].budget - tasks[t].spent
  BY <1>1
<1>3. x <= left /\ tasks'[t].budget - tasks'[t].spent = left - x
  BY <1>1, <1>2
<1>4. /\ t \in TaskNumbers
      /\ Escrows[t] = [phase |-> "open", owner |-> "owner", asset |-> "asset", left |-> left]
      /\ Escrows' = [Escrows EXCEPT ![t] =
           [phase |-> "open", owner |-> "owner", asset |-> "asset", left |-> left - x]]
  BY <1>2, <1>3, OpenEscrow
<1>5. /\ Escrows[t].phase = "open" /\ Escrows[t].asset = "asset" /\ Escrows[t].left = left
  BY <1>4
<1>6. Escrows' = [Escrows EXCEPT ![t] = [@ EXCEPT !.left = Escrows[t].left - x]]
  <2>1. [Escrows[t] EXCEPT !.left = left - x] =
          [phase |-> "open", owner |-> "owner", asset |-> "asset", left |-> left - x]
    BY <1>4
  <2>2. QED
    BY <1>4, <1>5, <2>1, Zenon
<1>7. Tokens' = [Tokens EXCEPT !["asset"] = Tokens["asset"] - (x - 0)]
  <2>1. Funds - PaidOut' = (Funds - PaidOut) - (x - 0)
    OBVIOUS
  <2>2. QED
    BY <2>1 DEF Tokens, Asset
<1>8. NoFees' = [NoFees EXCEPT !["asset"] = NoFees["asset"] + 0]
  BY DEF NoFees, Asset
<1>9. Free' = Free
  BY DEF Free
<1>10. Books!Pay(t, x, 0)
  BY <1>3, <1>5, <1>6, <1>7, <1>8, <1>9 DEF Books!Pay
<1>11. 0 \in 0..x
  OBVIOUS
<1>12. QED
  BY <1>4, <1>10, <1>11 DEF Books!Next

\* An open escrow ends: the rest is free again.
LEMMA ReturnMade ==
    ASSUME TasksOK, TasksOK', NEW t \in 1..Len(tasks), tasks[t].open, Len(tasks') = Len(tasks),
           \A y \in 1..Len(tasks) : y # t => tasks'[y] = tasks[y], ~tasks'[t].open,
           Available' = Available + (tasks[t].budget - tasks[t].spent), PaidOut' = PaidOut
    PROVE  Books!Next
<1>1. tasks[t].budget \in Nat /\ tasks[t].spent \in Nat
  <2>1. tasks[t] \in VaultTask
    BY DEF TasksOK
  <2>2. QED
    BY <2>1 DEF VaultTask
<1>2. PICK left \in Int : left = tasks[t].budget - tasks[t].spent
  BY <1>1
<1>3. /\ t \in TaskNumbers
      /\ Escrows[t] = [phase |-> "open", owner |-> "owner", asset |-> "asset", left |-> left]
      /\ Escrows' = [Escrows EXCEPT ![t] =
           [phase |-> "closed", owner |-> "owner", asset |-> "asset", left |-> 0]]
  BY <1>2, OpenEscrow
<1>4. /\ Escrows[t].phase = "open" /\ Escrows[t].owner = "owner"
      /\ Escrows[t].asset = "asset" /\ Escrows[t].left = left
  BY <1>3
<1>5. Escrows' = [Escrows EXCEPT ![t] = [@ EXCEPT !.phase = "closed", !.left = 0]]
  <2>1. [Escrows[t] EXCEPT !.phase = "closed", !.left = 0] =
          [phase |-> "closed", owner |-> "owner", asset |-> "asset", left |-> 0]
    <3>1. PICK e : e = Escrows[t]
      OBVIOUS
    <3>2. PICK c : c = [e EXCEPT !.phase = "closed"]
      OBVIOUS
    <3>3. c = [phase |-> "closed", owner |-> "owner", asset |-> "asset", left |-> left]
      BY <1>3, <3>1, <3>2
    <3>4. [e EXCEPT !.phase = "closed", !.left = 0] = [c EXCEPT !.left = 0]
      BY <1>3, <3>1, <3>2
    <3>5. QED
      BY <3>1, <3>3, <3>4
  <2>2. QED
    BY <1>3, <2>1, Zenon
<1>6. Free["owner"]["asset"] = Available
  BY DEF Free, Owner, Asset
<1>7. Free' = [Free EXCEPT !["owner"]["asset"] = Free["owner"]["asset"] + left]
  BY <1>2, <1>6, FreeWritten
<1>8. Free' = [Free EXCEPT ![Escrows[t].owner][Escrows[t].asset] = @ + Escrows[t].left]
  BY <1>4, <1>7, Zenon
<1>9. Tokens' = Tokens /\ NoFees' = NoFees
  BY DEF Tokens, NoFees
<1>10. Books!Return(t)
  BY <1>4, <1>5, <1>8, <1>9 DEF Books!Return
<1>11. QED
  BY <1>3, <1>10 DEF Books!Next

\* A completed task returns what it did not spend.
LEMMA CloseBooks ==
    ASSUME BooksInv, TasksOK, TasksOK', NEW t \in 1..Len(tasks), tasks[t].open, CompleteTask(t)
    PROVE  Books!Next
<1>1. /\ locked' = locked - tasks[t].budget /\ balance' = balance - tasks[t].spent
      /\ paid' = paid
  BY DEF CompleteTask
<1>2. tasks[t] \in VaultTask
  BY DEF TasksOK
<1>3. PICK new : new = [tasks[t] EXCEPT !.open = FALSE]
  OBVIOUS
<1>4. new \in VaultTask /\ ~new.open
  BY <1>2, <1>3 DEF VaultTask
<1>5. tasks' = [tasks EXCEPT ![t] = new]
  BY <1>3 DEF CompleteTask
<1>6. /\ Len(tasks') = Len(tasks)
      /\ \A x \in 1..Len(tasks) : tasks'[x] = IF x = t THEN new ELSE tasks[x]
  BY <1>4, <1>5, TaskRewritten
<1>7. Available' = Available + (tasks[t].budget - tasks[t].spent)
  BY <1>1, <1>2 DEF Available, VaultTask, BooksInv
<1>8. PaidOut' = PaidOut
  BY <1>1, PaidStays
<1>9. QED
  BY <1>4, <1>6, <1>7, <1>8, ReturnMade

\* Each call the vault accepts is one transition.
LEMMA CallBooks ==
    ASSUME ChainOK, LiveInv, ChainOK', LiveInv', BooksInv, TasksOK, TasksOK', RefInv,
           NEW tx \in flight, Accepts(tx), Apply(tx)
    PROVE  Books!Next
<1>1. PICK q \in Live : q = tx.q
  BY LiveSources
<1>2. /\ tx.op \in {"release", "complete"} => tx.task \in 1..Len(tasks)
      /\ balance \in Nat /\ locked \in Nat /\ Funds \in Nat /\ q.total \in Nat
      /\ PaidOut \in Nat /\ Available \in Int
  BY PaidNumber, PrivateAssumption DEF RefInv, BooksInv, LiveInv, Req, Available
<1>3. CASE tx.op = "keyless"
  <2>1. KeylessAccepts(q) /\ PayKeyless(q)
    BY <1>1, <1>3 DEF Accepts, Apply
  <2>2. /\ balance' = balance - q.total /\ locked' = locked /\ tasks' = tasks
        /\ q.total <= Available /\ PaysFor(q.id)
    BY <2>1 DEF PayKeyless, KeylessAccepts, Roll, PaysFor
  <2>3. PaidOut' = PaidOut + q.total
    BY <2>2, PaidGains DEF BooksInv
  <2>4. Available' = Available - q.total
    BY <1>2, <2>2 DEF Available
  <2>5. QED
    BY <1>2, <2>2, <2>3, <2>4, DebitMade
<1>4. CASE tx.op = "lock"
  <2>1. q.total <= Available /\ LockBudget(q)
    BY <1>1, <1>4 DEF Accepts, Apply
  <2>2. PICK new : new = [open |-> TRUE, budget |-> q.total, spent |-> 0, of |-> q.id]
    OBVIOUS
  <2>3. new \in VaultTask /\ new.open /\ new.budget = q.total /\ new.spent = 0
    BY <1>2, <2>2 DEF VaultTask, LiveInv, Req
  <2>4. /\ tasks' = Append(tasks, new) /\ locked' = locked + q.total
        /\ balance' = balance /\ paid' = paid
    BY <2>1, <2>2 DEF LockBudget
  <2>5. /\ Len(tasks') = Len(tasks) + 1
        /\ \A x \in 1..Len(tasks) : tasks'[x] = tasks[x]
        /\ tasks'[Len(tasks')] = new
    BY <2>3, <2>4, AppendProperties DEF TasksOK
  <2>6. Available' = Available - q.total
    BY <1>2, <2>4 DEF Available
  <2>7. PaidOut' = PaidOut
    BY <2>4, PaidStays
  <2>8. QED
    BY <1>2, <2>1, <2>3, <2>5, <2>6, <2>7, OpenMade
<1>5. CASE tx.op = "release"
  <2>1. PICK t \in 1..Len(tasks) : t = tx.task
    BY <1>2, <1>5
  <2>2. BatchAccepts(t, q) /\ PayBatch(t, q)
    BY <1>1, <1>5, <2>1 DEF Accepts, Apply
  <2>3. PaysFor(q.id) /\ balance' = balance /\ locked' = locked
    BY <2>2 DEF PayBatch, Roll, PaysFor
  <2>4. PaidOut' = PaidOut + q.total
    BY <2>3, PaidGains DEF BooksInv
  <2>5. tasks[t] \in VaultTask
    BY DEF TasksOK
  <2>6. PICK new : new = [tasks[t] EXCEPT !.spent = tasks[t].spent + q.total]
    OBVIOUS
  <2>7. /\ new \in VaultTask /\ new.open = tasks[t].open /\ new.budget = tasks[t].budget
        /\ new.spent = tasks[t].spent + q.total
    <3>1. PICK x \in Nat : x = tasks[t].spent + q.total
      BY <1>2, <2>5 DEF VaultTask
    <3>2. new = [tasks[t] EXCEPT !.spent = x]
      BY <2>6, <3>1
    <3>3. QED
      BY <2>5, <3>1, <3>2 DEF VaultTask
  <2>8. tasks' = [tasks EXCEPT ![t] = new]
    BY <2>2, <2>6 DEF PayBatch
  <2>9. /\ Len(tasks') = Len(tasks)
        /\ \A x \in 1..Len(tasks) : tasks'[x] = IF x = t THEN new ELSE tasks[x]
    BY <2>7, <2>8, TaskRewritten
  <2>10. tasks[t].open /\ tasks[t].spent + q.total <= tasks[t].budget
    BY <2>2 DEF BatchAccepts
  <2>11. Available' = Available
    BY <2>3 DEF Available
  <2>12. /\ tasks'[t].open /\ tasks'[t].budget = tasks[t].budget
         /\ tasks'[t].spent = tasks[t].spent + q.total
         /\ \A y \in 1..Len(tasks) : y # t => tasks'[y] = tasks[y]
    BY <2>7, <2>9, <2>10
  <2>13. PaidOut \in Int /\ Funds \in Int /\ q.total \in Nat
    BY <1>2
  <2>14. QED
    BY <2>4, <2>9, <2>10, <2>11, <2>12, <2>13, PayMade
<1>6. CASE tx.op = "complete"
  BY <1>2, <1>6, CloseBooks DEF Accepts, Apply
<1>7. QED
  BY <1>3, <1>4, <1>5, <1>6 DEF Apply

\* And so is every step of the lanes, if it moves money at all.
LEMMA BooksMove ==
    ASSUME Whole, Whole', [Next]_vars
    PROVE  [Books!Next]_(Books!vars)
<1>0. /\ ChainOK /\ LiveInv /\ ChainOK' /\ LiveInv' /\ BooksInv /\ TasksOK /\ TasksOK' /\ RefInv
  BY DEF Whole, Inv, TypeInv, RecInv
<1>1. CASE UNCHANGED <<balance, locked, tasks, paid>>
  <2>1. Free' = Free /\ NoFees' = NoFees
    BY <1>1 DEF Free, NoFees, Available
  <2>2. Tokens' = Tokens
    BY <1>1, PaidStays DEF Tokens
  <2>3. QED
    BY <1>1, <2>1, <2>2, EscrowsStay DEF Books!vars
<1>2. ASSUME NEW t \in 1..Len(tasks), Swept(t) PROVE Books!Next
  BY <1>0, <1>2, CloseBooks DEF Swept
<1>3. QED
  BY <1>0, <1>1, <1>2, NextMoney, CallBooks DEF MoneyMoves

\* The private lanes move money only along the transitions of the same promise as
\* the task lane: a keyless payment debits free funds, a batch's lock opens an
\* escrow, its release pays out of that escrow while it is open, and its
\* completion, by the worker or the sweep, returns exactly the rest
\* (create_task_with_policy, release_payment_proved_batch, release_proved_keyless,
\* complete_task, lib.rs).  The tokens are counted from the payouts and not from
\* the balance, so a step that forgot either would not be a transition.
THEOREM EscrowImplemented == Spec => Credited /\ [][Books!Next]_(Books!vars)
<1>1. Init => Credited
  BY StartsCredited
<1>2. Whole /\ Whole' /\ [Next]_vars => [Books!Next]_(Books!vars)
  BY BooksMove
<1>3. QED
  BY <1>1, <1>2, WholeInvariant, PTL DEF Spec
=============================================================================
