--------------------------- MODULE UniV2SyncProofs ---------------------------
(***************************************************************************)
(* Proofs about the UniV2 cache, for every list of pools, page size, chain *)
(* and number of failures: an Ok answer is an exact snapshot, entries are  *)
(* always states the pool really had, and fetch_pools and update_pools_mut *)
(* implement the contract of the trait.                                    *)
(***************************************************************************)
EXTENDS UniV2Sync, FiniteSetTheorems, WellFoundedInduction, TLAPS

-----------------------------------------------------------------------------
(* Tables that are filled one place after the other.                       *)

(* A set of natural numbers that is not empty has a least element: this is *)
(* what the inductions below rest on.                                      *)
LEMMA Least ==
  ASSUME NEW T \in SUBSET Nat, T # {}
  PROVE  \E n \in T : \A m \in T : n <= m
<1>1. PICK n \in T : \A m \in T : ~(<<m, n>> \in OpToRel(<, Nat))
  BY NatLessThanWellFounded, WFMin
<1>2. ASSUME NEW m \in T, m < n PROVE FALSE
  <2>1. <<m, n>> \in Nat \X Nat /\ <<m, n>>[1] = m /\ <<m, n>>[2] = n
    OBVIOUS
  <2>2. <<m, n>> \in OpToRel(<, Nat)
    BY <1>2, <2>1 DEF OpToRel
  <2>3. QED
    BY <1>1, <2>2
<1>3. QED
  BY <1>2

(* A set with the first number, and with the next of each it has, has all. *)
LEMMA AllOf ==
  ASSUME NEW n \in Nat, NEW T, 0 \in T, \A k \in 1..n : k - 1 \in T => k \in T
  PROVE  \A k \in 0..n : k \in T
<1> DEFINE U == {k \in 0..n : k \notin T}
<1>1. SUFFICES ASSUME U # {} PROVE FALSE
  OBVIOUS
<1>2. PICK m \in U : \A j \in U : m <= j
  <2>1. U \in SUBSET Nat
    OBVIOUS
  <2>2. QED
    BY <1>1, <2>1, Least
<1>3. m \in 1..n /\ m - 1 \in 0..n
  OBVIOUS
<1>4. m - 1 \notin U
  <2> HIDE DEF U
  <2>1. QED
    BY <1>2, <1>3
<1>5. QED
  BY <1>3, <1>4

(* f starts with x, and step k takes its place k - 1 to its place k. *)
Fills(f, x, step, n) == f[0] = x /\ \A k \in 1..n : f[k] = step[k][f[k - 1]]

LEMMA TableExists ==
  ASSUME NEW n \in Nat, NEW X, NEW x \in X, NEW step \in [1..n -> [X -> X]]
  PROVE  \E f \in [0..n -> X] : Fills(f, x, step, n)
<1> DEFINE T == {m \in 0..n : \E g \in [0..n -> X] : Fills(g, x, step, m)}
<1>1. 0 \in T
  <2>1. PICK g : g = [k \in 0..n |-> x]
    OBVIOUS
  <2>2. g \in [0..n -> X] /\ g[0] = x
    BY <2>1
  <2>3. Fills(g, x, step, 0)
    BY <2>2 DEF Fills
  <2>4. QED
    BY <2>2, <2>3
<1>2. ASSUME NEW m \in 1..n, m - 1 \in T PROVE m \in T
  <2>1. PICK g \in [0..n -> X] : Fills(g, x, step, m - 1)
    BY <1>2
  <2>2. PICK h : h = [g EXCEPT ![m] = step[m][g[m - 1]]]
    OBVIOUS
  <2>3. m \in 0..n /\ m - 1 \in 0..n /\ g[m - 1] \in X /\ step[m][g[m - 1]] \in X
    <3>1. m \in 0..n /\ m - 1 \in 0..n
      OBVIOUS
    <3>2. g[m - 1] \in X /\ step[m] \in [X -> X]
      BY <3>1
    <3>3. QED
      BY <3>1, <3>2
  <2>4. h \in [0..n -> X] /\ h[m] = step[m][g[m - 1]]
        /\ \A k \in 0..n : k # m => h[k] = g[k]
    BY <2>2, <2>3
  <2>5. ASSUME NEW k \in 1..m PROVE h[k] = step[k][h[k - 1]]
    <3>1. CASE k = m
      <4>1. h[m - 1] = g[m - 1]
        BY <2>3, <2>4
      <4>2. QED
        BY <2>4, <3>1, <4>1
    <3>2. CASE k # m
      <4>1. k \in 1..(m - 1) /\ k \in 0..n /\ k - 1 \in 0..n /\ k - 1 # m
        BY <3>2
      <4>2. h[k] = g[k] /\ h[k - 1] = g[k - 1]
        BY <2>4, <3>2, <4>1
      <4>3. QED
        BY <2>1, <4>1, <4>2 DEF Fills
    <3>3. QED
      BY <3>1, <3>2
  <2>6. h[0] = x
    BY <2>1, <2>4 DEF Fills
  <2>7. Fills(h, x, step, m)
    BY <2>5, <2>6 DEF Fills
  <2>8. QED
    BY <2>3, <2>4, <2>7
<1>3. n \in T
  <2>1. \A k \in 1..n : k - 1 \in T => k \in T
    BY <1>2
  <2> HIDE DEF T
  <2>2. n \in 0..n
    OBVIOUS
  <2>3. QED
    BY <1>1, <2>1, <2>2, AllOf
<1>4. QED
  BY <1>3

(* The library's concatenation of parts, as such a table. *)
LEMMA FlattenTable ==
  ASSUME NEW X, NEW parts \in Seq(Seq(X))
  PROVE  \E f \in [0..Len(parts) -> Seq(X)] :
           /\ f[0] = <<>> /\ \A k \in 1..Len(parts) : f[k] = f[k - 1] \o parts[k]
           /\ FlattenSeq(parts) = f[Len(parts)]
<1>1. PICK n \in Nat : n = Len(parts)
  OBVIOUS
<1>2. \A k \in 1..n : parts[k] \in Seq(X)
  BY <1>1
<1>3. PICK step : step = [k \in 1..n |-> [s \in Seq(X) |-> s \o parts[k]]]
  OBVIOUS
<1>4. step \in [1..n -> [Seq(X) -> Seq(X)]] /\ <<>> \in Seq(X)
  <2>1. \A k \in 1..n : [s \in Seq(X) |-> s \o parts[k]] \in [Seq(X) -> Seq(X)]
    BY <1>2
  <2>2. QED
    BY <1>3, <2>1
<1>5. PICK f \in [0..n -> Seq(X)] : Fills(f, <<>>, step, n)
  BY <1>4, TableExists
<1>6. f[0] = <<>> /\ \A k \in 1..n : f[k] = f[k - 1] \o parts[k]
  <2>1. \A k \in 1..n : f[k - 1] \in Seq(X)
    <3>1. \A k \in 1..n : k - 1 \in 0..n
      OBVIOUS
    <3>2. QED
      BY <3>1
  <2>2. QED
    BY <1>3, <1>5, <2>1 DEF Fills
<1>7. CASE n = 0
  <2>0. FlattenSeq(parts) = parts
    BY <1>1, <1>7 DEF FlattenSeq
  <2>1. parts = <<>>
    <3>1. PICK Y : Y = Seq(X)
      OBVIOUS
    <3>2. parts \in Seq(Y) /\ Len(parts) = 0
      BY <1>1, <1>7, <3>1
    <3>3. QED
      BY <3>2
  <2>2. QED
    BY <1>1, <1>6, <1>7, <2>0, <2>1
<1>8. CASE n # 0
  <2> DEFINE Step(g, k) == IF k = 1 THEN parts[k] ELSE g[k - 1] \o parts[k]
             F == CHOOSE g : g = [k \in 1..Len(parts) |-> Step(g, k)]
  <2>0. f[1] = parts[1]
    <3>1. 1 \in 1..n /\ 1 - 1 = 0
      BY <1>8
    <3>2. f[1] = f[0] \o parts[1] /\ parts[1] \in Seq(X) /\ f[0] = <<>>
      BY <1>2, <1>6, <3>1
    <3>3. <<>> \o parts[1] = parts[1]
      BY <3>2
    <3>4. QED
      BY <3>2, <3>3
  <2>1. PICK g : g = [k \in 1..n |-> f[k]]
    OBVIOUS
  <2>2. \A k \in 1..n : f[k] = Step(g, k)
    <3>1. TAKE k \in 1..n
    <3>2. CASE k = 1
      BY <2>0, <3>2
    <3>3. CASE k # 1
      <4>1. k - 1 \in 1..n
        BY <3>3
      <4>2. QED
        BY <1>6, <2>1, <3>3, <4>1
    <3>4. QED
      BY <3>2, <3>3
  <2>3. g = [k \in 1..n |-> Step(g, k)]
    BY <2>1, <2>2
  <2>4. F = [k \in 1..n |-> Step(F, k)]
    BY <1>1, <2>3
  <2>5. FlattenSeq(parts) = F[n]
    BY <1>1, <1>8 DEF FlattenSeq
  <2> HIDE DEF F
  <2>6. PICK h : h = [k \in 0..n |-> IF k = 0 THEN <<>> ELSE F[k]]
    OBVIOUS
  <2>7. \A k \in 1..n : f[k - 1] = h[k - 1] => f[k] = h[k]
    <3>1. SUFFICES ASSUME NEW k \in 1..n, f[k - 1] = h[k - 1] PROVE f[k] = h[k]
      OBVIOUS
    <3>2. h[k] = F[k] /\ F[k] = Step(F, k)
      <4>1. k \in 0..n /\ k # 0
        OBVIOUS
      <4>2. h[k] = F[k]
        BY <2>6, <4>1
      <4>3. F[k] = Step(F, k)
        BY <2>4
      <4>4. QED
        BY <4>2, <4>3
    <3>3. CASE k = 1
      BY <2>0, <3>2, <3>3
    <3>4. CASE k # 1
      <4>1. k - 1 \in 0..n /\ k - 1 # 0
        BY <3>4
      <4>2. h[k - 1] = F[k - 1]
        BY <2>6, <4>1
      <4>3. QED
        BY <1>6, <3>1, <3>2, <3>4, <4>2
    <3>5. QED
      BY <3>3, <3>4
  <2>8. f[0] = h[0]
    BY <1>6, <2>6
  <2>9. \A k \in 0..n : f[k] = h[k]
    <3> DEFINE T == {k \in 0..n : f[k] = h[k]}
    <3>1. 0 \in T
      BY <2>8
    <3>2. \A k \in 1..n : k - 1 \in T => k \in T
      BY <2>7
    <3>3. \A k \in 0..n : k \in T
      <4> HIDE DEF T
      <4>1. QED
        BY <3>1, <3>2, AllOf
    <3>4. QED
      BY <3>3
  <2>10. F[n] = f[n]
    <3>1. n \in 0..n
      OBVIOUS
    <3>2. QED
      BY <1>8, <2>6, <2>9, <3>1
  <2>11. QED
    BY <1>1, <1>6, <2>5, <2>10
<1>9. QED
  BY <1>7, <1>8

-----------------------------------------------------------------------------
(* What the logs of a range of blocks tell of a pool.                      *)

(* Log i is one that reports the reserves of p. *)
Reports(s, i, p) == s[i].address = p /\ s[i].kind = "Sync"
Silent(s, n, p) == \A i \in 1..n : ~Reports(s, i, p)

(* The first n logs take p from v to w: the last that reports of p says w, *)
(* and if none does p stays as it is.                                      *)
Leads(s, n, p, v, w) ==
  \/ Silent(s, n, p) /\ w = v
  \/ \E i \in 1..n :
       /\ Reports(s, i, p) /\ s[i].post = w
       /\ \A j \in (i + 1)..n : ~Reports(s, j, p)

LEMMA LeadsStart == ASSUME NEW s, NEW p, NEW v PROVE Leads(s, 0, p, v, v)
BY DEF Leads, Silent

(* One more log. *)
LEMMA LeadsOneMore ==
  ASSUME NEW n \in Nat, NEW s, NEW p, NEW v, NEW w, Leads(s, n, p, v, w)
  PROVE  Leads(s, n + 1, p, v, IF Reports(s, n + 1, p) THEN s[n + 1].post ELSE w)
<1>1. CASE Reports(s, n + 1, p)
  <2>1. n + 1 \in 1..(n + 1) /\ (n + 1 + 1)..(n + 1) = {}
    OBVIOUS
  <2>2. QED
    BY <1>1, <2>1 DEF Leads
<1>2. CASE ~Reports(s, n + 1, p)
  <2>1. \A i \in 1..(n + 1) : i \in 1..n \/ i = n + 1
    OBVIOUS
  <2>2. CASE Silent(s, n, p) /\ w = v
    BY <1>2, <2>1, <2>2 DEF Leads, Silent
  <2>3. ASSUME NEW i \in 1..n, Reports(s, i, p), s[i].post = w,
               \A j \in (i + 1)..n : ~Reports(s, j, p)
        PROVE  Leads(s, n + 1, p, v, w)
    <3>1. i \in 1..(n + 1) /\ \A j \in (i + 1)..(n + 1) : j \in (i + 1)..n \/ j = n + 1
      OBVIOUS
    <3>2. QED
      BY <1>2, <2>3, <3>1 DEF Leads
  <2>4. QED
    BY <1>2, <2>2, <2>3 DEF Leads
<1>3. QED
  BY <1>1, <1>2

(* The same logs, told differently. *)
LEMMA LeadsSame ==
  ASSUME NEW n \in Nat, NEW s, NEW t, \A i \in 1..n : s[i] = t[i],
         NEW p, NEW v, NEW w, Leads(s, n, p, v, w)
  PROVE  Leads(t, n, p, v, w)
<1>1. \A i \in 1..n : Reports(s, i, p) <=> Reports(t, i, p)
  BY DEF Reports
<1>2. \A i \in 1..n : \A j \in (i + 1)..n : j \in 1..n
  OBVIOUS
<1>3. QED
  BY <1>1, <1>2 DEF Leads, Silent

(* A log more at the end of a sequence. *)
LEMMA LeadsAppend ==
  ASSUME NEW X, NEW s \in Seq(X), NEW e \in X, NEW p, NEW v, NEW w,
         Leads(s, Len(s), p, v, w)
  PROVE  Leads(Append(s, e), Len(s) + 1, p, v,
               IF e.address = p /\ e.kind = "Sync" THEN e.post ELSE w)
<1>1. PICK n \in Nat : n = Len(s)
  OBVIOUS
<1>2. PICK t : t = Append(s, e)
  OBVIOUS
<1>3. t[n + 1] = e /\ \A i \in 1..n : s[i] = t[i]
  BY <1>1, <1>2
<1>4. Leads(t, n, p, v, w)
  BY <1>1, <1>3, LeadsSame
<1>5. Leads(t, n + 1, p, v, IF Reports(t, n + 1, p) THEN t[n + 1].post ELSE w)
  BY <1>4, LeadsOneMore
<1>6. QED
  BY <1>1, <1>2, <1>3, <1>5 DEF Reports

(* One sequence of logs after the other. *)
LEMMA LeadsJoin ==
  ASSUME NEW X, NEW s \in Seq(X), NEW t \in Seq(X), NEW p, NEW u, NEW v, NEW w,
         Leads(s, Len(s), p, u, v), Leads(t, Len(t), p, v, w)
  PROVE  /\ Leads(s \o t, Len(s \o t), p, u, w)
         /\ Silent(s \o t, Len(s \o t), p) =>
              Silent(s, Len(s), p) /\ Silent(t, Len(t), p)
<1>1. PICK n \in Nat, m \in Nat : n = Len(s) /\ m = Len(t)
  OBVIOUS
<1>2. PICK r : r = s \o t
  OBVIOUS
<1>3. /\ Len(r) = n + m
      /\ \A i \in 1..n : r[i] = s[i]
      /\ \A i \in (n + 1)..(n + m) : r[i] = t[i - n]
  BY <1>1, <1>2
<1>4. /\ \A i \in 1..n : i \in 1..(n + m) /\ (Reports(r, i, p) <=> Reports(s, i, p))
      /\ \A i \in 1..m : i + n \in 1..(n + m) /\ (Reports(r, i + n, p) <=> Reports(t, i, p))
  <2>1. \A i \in 1..m : i + n \in (n + 1)..(n + m) /\ (i + n) - n = i
    OBVIOUS
  <2>2. \A i \in 1..m : r[i + n] = t[i]
    BY <1>3, <2>1
  <2>3. QED
    BY <1>3, <2>1, <2>2 DEF Reports
<1>5. \A i \in 1..(n + m) : i \in 1..n \/ (i - n \in 1..m /\ (i - n) + n = i)
  OBVIOUS
<1>6. Silent(r, n + m, p) => Silent(s, n, p) /\ Silent(t, m, p)
  BY <1>4 DEF Silent
<1>7. Leads(r, n + m, p, u, w)
  <2>1. CASE Silent(t, m, p) /\ w = v
    <3>1. \A j \in 1..(n + m) : j \notin 1..n => ~Reports(r, j, p)
      <4>1. SUFFICES ASSUME NEW j \in 1..(n + m), j \notin 1..n PROVE ~Reports(r, j, p)
        OBVIOUS
      <4>2. PICK i \in 1..m : j = i + n
        BY <1>5, <4>1
      <4>3. ~Reports(t, i, p)
        BY <2>1 DEF Silent
      <4>4. QED
        BY <1>4, <4>2, <4>3
    <3>2. CASE Silent(s, n, p) /\ v = u
      BY <1>4, <2>1, <3>1, <3>2 DEF Leads, Silent
    <3>3. ASSUME NEW i \in 1..n, Reports(s, i, p), s[i].post = v,
                 \A j \in (i + 1)..n : ~Reports(s, j, p)
          PROVE  Leads(r, n + m, p, u, w)
      <4>1. i \in 1..(n + m) /\ Reports(r, i, p) /\ r[i].post = w
        BY <1>3, <1>4, <2>1, <3>3
      <4>2. ASSUME NEW j \in (i + 1)..(n + m) PROVE ~Reports(r, j, p)
        <5>1. j \in 1..(n + m) /\ (j \in 1..n => j \in (i + 1)..n)
          OBVIOUS
        <5>2. QED
          BY <1>4, <3>1, <3>3, <5>1
      <4>3. QED
        BY <4>1, <4>2 DEF Leads
    <3>4. QED
      BY <1>1, <3>2, <3>3 DEF Leads
  <2>2. ASSUME NEW i \in 1..m, Reports(t, i, p), t[i].post = w,
               \A j \in (i + 1)..m : ~Reports(t, j, p)
        PROVE  Leads(r, n + m, p, u, w)
    <3>1. i + n \in 1..(n + m) /\ Reports(r, i + n, p) /\ r[i + n].post = w
      <4>1. i + n \in (n + 1)..(n + m) /\ (i + n) - n = i
        OBVIOUS
      <4>2. QED
        BY <1>3, <1>4, <2>2, <4>1
    <3>2. ASSUME NEW j \in (i + n + 1)..(n + m) PROVE ~Reports(r, j, p)
      <4>1. j - n \in (i + 1)..m /\ j - n \in 1..m /\ (j - n) + n = j
        OBVIOUS
      <4>2. Reports(r, (j - n) + n, p) <=> Reports(t, j - n, p)
        BY <1>4, <4>1
      <4>3. QED
        BY <2>2, <4>1, <4>2
    <3>3. QED
      BY <3>1, <3>2 DEF Leads
  <2>3. QED
    BY <1>1, <2>1, <2>2 DEF Leads
<1>8. QED
  BY <1>1, <1>2, <1>3, <1>6, <1>7

-----------------------------------------------------------------------------
(* What get_logs answers.                                                  *)

(* The Sync logs of the pools ps. *)
SyncLogs(ps) == {e \in Log : e.address \in ps /\ e.kind = "Sync"}

(* The filter of a query keeps exactly the logs that report of its pools.  *)
LEMMA SyncsKept ==
  ASSUME NEW ps, NEW log \in Seq(Log)
  PROVE  /\ SyncsOf(ps, log) \in Seq(SyncLogs(ps))
         /\ \A p \in ps : \A v, w :
              Leads(log, Len(log), p, v, w)
                => Leads(SyncsOf(ps, log), Len(SyncsOf(ps, log)), p, v, w)
<1> DEFINE X == SyncLogs(ps)
           Keeps(k) == log[k].address \in ps /\ log[k].kind = "Sync"
           F == CHOOSE g : g = [k \in 0..Len(log) |->
                                 IF k = 0 THEN <<>>
                                 ELSE IF Keeps(k) THEN Append(g[k - 1], log[k]) ELSE g[k - 1]]
<1>1. PICK n \in Nat : n = Len(log)
  OBVIOUS
<1>2. \A k \in 1..n : log[k] \in Log /\ (Keeps(k) => log[k] \in X)
  BY <1>1 DEF SyncLogs
<1> HIDE DEF X
<1>3. PICK step : step = [k \in 1..n |-> [s \in Seq(X) |->
                             IF Keeps(k) THEN Append(s, log[k]) ELSE s]]
  OBVIOUS
<1>4. step \in [1..n -> [Seq(X) -> Seq(X)]] /\ <<>> \in Seq(X)
  <2>1. ASSUME NEW k \in 1..n
        PROVE  [s \in Seq(X) |-> IF Keeps(k) THEN Append(s, log[k]) ELSE s] \in [Seq(X) -> Seq(X)]
    <3>1. CASE Keeps(k)
      BY <1>2, <3>1
    <3>2. CASE ~Keeps(k)
      BY <3>2
    <3>3. QED
      BY <3>1, <3>2
  <2>2. QED
    BY <1>3, <2>1
<1>5. PICK f \in [0..n -> Seq(X)] : Fills(f, <<>>, step, n)
  BY <1>4, TableExists
<1>6. /\ f[0] = <<>>
      /\ \A k \in 1..n : /\ f[k - 1] \in Seq(X)
                         /\ f[k] = IF Keeps(k) THEN Append(f[k - 1], log[k]) ELSE f[k - 1]
  <2>1. \A k \in 1..n : f[k - 1] \in Seq(X)
    <3>1. \A k \in 1..n : k - 1 \in 0..n
      OBVIOUS
    <3>2. QED
      BY <3>1
  <2>2. QED
    BY <1>3, <1>5, <2>1 DEF Fills
<1>7. f = [k \in 0..n |-> IF k = 0 THEN <<>>
                         ELSE IF Keeps(k) THEN Append(f[k - 1], log[k]) ELSE f[k - 1]]
  <2>1. f = [k \in 0..n |-> f[k]]
    OBVIOUS
  <2>2. \A k \in 0..n : k = 0 \/ k \in 1..n
    OBVIOUS
  <2>3. QED
    BY <1>6, <2>1, <2>2
<1>8. F = [k \in 0..n |-> IF k = 0 THEN <<>>
                         ELSE IF Keeps(k) THEN Append(F[k - 1], log[k]) ELSE F[k - 1]]
  BY <1>1, <1>7
<1>9. SyncsOf(ps, log) = F[n]
  BY <1>1 DEF SyncsOf
<1> HIDE DEF F
<1>10. F[n] = f[n]
  <2>1. F[0] = f[0]
    <3>1. 0 \in 0..n
      OBVIOUS
    <3>2. QED
      BY <1>6, <1>8, <3>1
  <2>2. \A k \in 1..n : F[k] = IF Keeps(k) THEN Append(F[k - 1], log[k]) ELSE F[k - 1]
    <3>1. \A k \in 1..n : k \in 0..n /\ k # 0
      OBVIOUS
    <3> HIDE DEF Keeps
    <3>2. QED
      BY <1>8, <3>1
  <2>3. \A k \in 1..n : F[k - 1] = f[k - 1] => F[k] = f[k]
    <3> HIDE DEF Keeps
    <3>1. QED
      BY <1>6, <2>2
  <2> DEFINE T == {k \in 0..n : F[k] = f[k]}
  <2>4. 0 \in T
    BY <2>1
  <2>5. \A k \in 1..n : k - 1 \in T => k \in T
    BY <2>3
  <2>6. n \in T
    <3>1. n \in 0..n
      OBVIOUS
    <3> HIDE DEF T
    <3>2. QED
      BY <2>4, <2>5, <3>1, AllOf
  <2>7. QED
    BY <2>6
<1>11. SyncsOf(ps, log) = f[n] /\ f[n] \in Seq(X)
  BY <1>9, <1>10
<1>12. ASSUME NEW p \in ps, NEW v
       PROVE  \A w : Leads(log, n, p, v, w) => Leads(f[n], Len(f[n]), p, v, w)
  <2> DEFINE T == {k \in 0..n : \A w : Leads(log, k, p, v, w) => Leads(f[k], Len(f[k]), p, v, w)}
  <2>1. 0 \in T
    <3>1. f[0] = <<>> /\ Len(f[0]) = 0
      BY <1>6
    <3>2. \A w : Leads(log, 0, p, v, w) => w = v
      BY DEF Leads
    <3>3. \A w : Leads(log, 0, p, v, w) => Leads(f[0], Len(f[0]), p, v, w)
      BY <3>1, <3>2, LeadsStart
    <3>4. 0 \in 0..n
      OBVIOUS
    <3>5. QED
      BY <3>3, <3>4
  <2>2. ASSUME NEW k \in 1..n, k - 1 \in T PROVE k \in T
    <3>1. SUFFICES ASSUME NEW w, Leads(log, k, p, v, w) PROVE Leads(f[k], Len(f[k]), p, v, w)
      BY <2>2
    <3>2. \A u : Leads(log, k - 1, p, v, u) => Leads(f[k - 1], Len(f[k - 1]), p, v, u)
      BY <2>2
    <3>3. f[k - 1] \in Seq(X) /\ (Keeps(k) => log[k] \in X)
      BY <1>2, <1>6
    <3>4. CASE Reports(log, k, p)
      <4>1. w = log[k].post
        BY <3>1, <3>4 DEF Leads, Silent
      <4>2. f[k] = Append(f[k - 1], log[k]) /\ Keeps(k)
        BY <1>6, <3>4 DEF Reports
      <4>3. PICK s : s = f[k]
        OBVIOUS
      <4>4. PICK m \in Nat : Len(f[k - 1]) = m
        BY <3>3
      <4>5. Len(s) = m + 1 /\ s[m + 1] = log[k]
        BY <3>3, <4>2, <4>3, <4>4
      <4>6. Leads(s, m + 1, p, v, w)
        <5>1. m + 1 \in 1..(m + 1) /\ (m + 1 + 1)..(m + 1) = {}
          OBVIOUS
        <5>2. Reports(s, m + 1, p) /\ s[m + 1].post = w
          BY <3>4, <4>1, <4>5 DEF Reports
        <5>3. QED
          BY <5>1, <5>2 DEF Leads
      <4>7. QED
        BY <4>3, <4>5, <4>6
    <3>5. CASE ~Reports(log, k, p)
      <4>1. Leads(log, k - 1, p, v, w)
        <5>1. \A i \in 1..k : i = k \/ i \in 1..(k - 1)
          OBVIOUS
        <5>2. \A i \in 1..k : \A j \in (i + 1)..(k - 1) : j \in (i + 1)..k
          OBVIOUS
        <5>3. \A i \in 1..(k - 1) : i \in 1..k
          OBVIOUS
        <5>4. QED
          BY <3>1, <3>5, <5>1, <5>2, <5>3 DEF Leads, Silent
      <4>2. Leads(f[k - 1], Len(f[k - 1]), p, v, w)
        BY <3>2, <4>1
      <4>3. CASE Keeps(k)
        <5>1. f[k] = Append(f[k - 1], log[k]) /\ log[k] \in X
          BY <1>6, <3>3, <4>3
        <5>2. ~(log[k].address = p /\ log[k].kind = "Sync")
          BY <3>5 DEF Reports
        <5>3. Leads(Append(f[k - 1], log[k]), Len(f[k - 1]) + 1, p, v,
                    IF log[k].address = p /\ log[k].kind = "Sync" THEN log[k].post ELSE w)
          BY <3>3, <4>2, <5>1, LeadsAppend
        <5>4. Len(f[k]) = Len(f[k - 1]) + 1
          BY <3>3, <5>1
        <5>5. QED
          BY <5>1, <5>2, <5>3, <5>4
      <4>4. CASE ~Keeps(k)
        <5>1. f[k] = f[k - 1]
          BY <1>6, <4>4
        <5>2. QED
          BY <4>2, <5>1
      <4>5. QED
        BY <4>3, <4>4
    <3>6. QED
      BY <3>4, <3>5
  <2>3. n \in T
    <3>1. \A k \in 1..n : k - 1 \in T => k \in T
      BY <2>2
    <3>2. n \in 0..n
      OBVIOUS
    <3> HIDE DEF T
    <3>3. QED
      BY <2>1, <3>1, <3>2, AllOf
  <2>4. QED
    BY <2>3
<1>13. QED
  BY <1>1, <1>11, <1>12 DEF X

(* Parts that lead from x[0] to x[1], from x[1] to x[2] and so on lead,    *)
(* joined up, from the first to the last.                                  *)
LEMMA PartsLead ==
  ASSUME NEW X, NEW parts \in Seq(Seq(X)), NEW p, NEW x,
         \A k \in 1..Len(parts) : Leads(parts[k], Len(parts[k]), p, x[k - 1], x[k])
  PROVE  /\ FlattenSeq(parts) \in Seq(X)
         /\ Leads(FlattenSeq(parts), Len(FlattenSeq(parts)), p, x[0], x[Len(parts)])
         /\ Silent(FlattenSeq(parts), Len(FlattenSeq(parts)), p) =>
              /\ \A k \in 1..Len(parts) : Silent(parts[k], Len(parts[k]), p)
              /\ \A k \in 0..Len(parts) : x[k] = x[0]
<1>1. PICK n \in Nat : n = Len(parts)
  OBVIOUS
<1>2. PICK f \in [0..n -> Seq(X)] :
        /\ f[0] = <<>> /\ \A k \in 1..n : f[k] = f[k - 1] \o parts[k]
        /\ FlattenSeq(parts) = f[n]
  BY <1>1, FlattenTable
<1>3. \A k \in 1..n : parts[k] \in Seq(X) /\ f[k - 1] \in Seq(X)
  <2>1. \A k \in 1..n : k - 1 \in 0..n
    OBVIOUS
  <2>2. \A k \in 0..n : f[k] \in Seq(X)
    OBVIOUS
  <2>3. \A k \in 1..n : parts[k] \in Seq(X)
    BY <1>1
  <2>4. QED
    BY <2>1, <2>2, <2>3
<1> DEFINE Fine(k) == /\ Leads(f[k], Len(f[k]), p, x[0], x[k])
                      /\ Silent(f[k], Len(f[k]), p) =>
                           /\ \A j \in 1..k : Silent(parts[j], Len(parts[j]), p)
                           /\ \A j \in 0..k : x[j] = x[0]
           T == {k \in 0..n : Fine(k)}
<1>4. 0 \in T
  <2>1. f[0] = <<>> /\ Len(f[0]) = 0 /\ 0 \in 0..n
    BY <1>2
  <2>2. Leads(f[0], Len(f[0]), p, x[0], x[0])
    BY <2>1, LeadsStart
  <2>3. QED
    BY <2>1, <2>2
<1>5. ASSUME NEW k \in 1..n, k - 1 \in T PROVE k \in T
  <2>1. Fine(k - 1) /\ k \in 0..n
    BY <1>5
  <2>2. PICK s \in Seq(X), t \in Seq(X) : s = f[k - 1] /\ t = parts[k]
    BY <1>3
  <2>3. f[k] = s \o t
    BY <1>2, <2>2
  <2>4. Leads(s, Len(s), p, x[0], x[k - 1]) /\ Leads(t, Len(t), p, x[k - 1], x[k])
    BY <1>1, <2>1, <2>2
  <2>5. /\ Leads(s \o t, Len(s \o t), p, x[0], x[k])
        /\ Silent(s \o t, Len(s \o t), p) => Silent(s, Len(s), p) /\ Silent(t, Len(t), p)
    BY <2>4, LeadsJoin
  <2>6. ASSUME Silent(s \o t, Len(s \o t), p)
        PROVE  /\ \A j \in 1..k : Silent(parts[j], Len(parts[j]), p)
               /\ \A j \in 0..k : x[j] = x[0]
    <3>1. Silent(s, Len(s), p) /\ Silent(t, Len(t), p)
      BY <2>5, <2>6
    <3>2. /\ \A j \in 1..(k - 1) : Silent(parts[j], Len(parts[j]), p)
          /\ \A j \in 0..(k - 1) : x[j] = x[0]
      BY <2>1, <2>2, <3>1
    <3>3. x[k] = x[k - 1]
      BY <2>4, <3>1 DEF Leads, Silent
    <3>4. k - 1 \in 0..(k - 1) /\ (\A j \in 1..k : j = k \/ j \in 1..(k - 1))
          /\ (\A j \in 0..k : j = k \/ j \in 0..(k - 1))
      OBVIOUS
    <3>5. x[k] = x[0]
      BY <3>2, <3>3, <3>4
    <3>6. Silent(parts[k], Len(parts[k]), p)
      BY <2>2, <3>1
    <3>7. QED
      BY <3>2, <3>4, <3>5, <3>6
  <2>7. Fine(k)
    BY <2>3, <2>5, <2>6
  <2>8. QED
    BY <2>1, <2>7
<1>6. Fine(n)
  <2>1. \A k \in 1..n : k - 1 \in T => k \in T
    BY <1>5
  <2>2. n \in 0..n
    OBVIOUS
  <2>3. n \in T
    <3> HIDE DEF T
    <3>1. QED
      BY <1>4, <2>1, <2>2, AllOf
  <2>4. QED
    BY <2>3
<1>7. f[n] \in Seq(X)
  <2>1. n \in 0..n
    OBVIOUS
  <2>2. QED
    BY <2>1
<1>8. QED
  BY <1>1, <1>2, <1>6, <1>7

(* Replaying Sync logs leaves every entry where they lead its pool.        *)
LEMMA Replayed ==
  ASSUME cache \in [Slots -> Nat], NEW events \in Seq(Log),
         \A k \in 1..Len(events) : events[k].kind = "Sync"
  PROVE  /\ Replay(events) \in [Slots -> Nat]
         /\ \A i \in Slots :
              Leads(events, Len(events), Tracked[i], cache[i], Replay(events)[i])
<1> DEFINE Step(g, k) == [i \in Slots |-> IF Tracked[i] = events[k].address THEN events[k].post
                                          ELSE g[i]]
           F == CHOOSE g : g = [k \in 0..Len(events) |-> IF k = 0 THEN cache ELSE Step(g[k - 1], k)]
<1>1. PICK n \in Nat : n = Len(events)
  OBVIOUS
<1>2. \A k \in 1..n : events[k] \in Log /\ events[k].post \in Nat /\ events[k].kind = "Sync"
  <2>1. \A k \in 1..n : events[k] \in Log
    BY <1>1
  <2>2. \A e \in Log : e.post \in Nat
    BY DEF Log
  <2>3. QED
    BY <1>1, <2>1, <2>2
<1>3. PICK step : step = [k \in 1..n |-> [c \in [Slots -> Nat] |-> Step(c, k)]]
  OBVIOUS
<1>4. step \in [1..n -> [[Slots -> Nat] -> [Slots -> Nat]]]
  <2>1. ASSUME NEW k \in 1..n
        PROVE  [c \in [Slots -> Nat] |-> Step(c, k)] \in [[Slots -> Nat] -> [Slots -> Nat]]
    BY <1>2
  <2>2. QED
    BY <1>3, <2>1
<1>5. PICK f \in [0..n -> [Slots -> Nat]] : Fills(f, cache, step, n)
  BY <1>4, TableExists
<1>6. /\ f[0] = cache
      /\ \A k \in 1..n : f[k - 1] \in [Slots -> Nat] /\ f[k] = Step(f[k - 1], k)
  <2>1. \A k \in 1..n : f[k - 1] \in [Slots -> Nat]
    <3>1. \A k \in 1..n : k - 1 \in 0..n
      OBVIOUS
    <3>2. QED
      BY <3>1
  <2>2. QED
    BY <1>3, <1>5, <2>1 DEF Fills
<1>7. f = [k \in 0..n |-> IF k = 0 THEN cache ELSE Step(f[k - 1], k)]
  <2>1. f = [k \in 0..n |-> f[k]]
    OBVIOUS
  <2>2. \A k \in 0..n : k = 0 \/ k \in 1..n
    OBVIOUS
  <2> HIDE DEF Step
  <2>3. QED
    BY <1>6, <2>1, <2>2
<1>8. F = [k \in 0..n |-> IF k = 0 THEN cache ELSE Step(F[k - 1], k)]
  <2> HIDE DEF Step
  <2>1. QED
    BY <1>1, <1>7
<1>9. Replay(events) = F[n]
  BY <1>1 DEF Replay
<1> HIDE DEF F, Step
<1>10. F[n] = f[n]
  <2>1. F[0] = f[0]
    <3>1. 0 \in 0..n
      OBVIOUS
    <3>2. QED
      BY <1>6, <1>8, <3>1
  <2>2. \A k \in 1..n : F[k] = Step(F[k - 1], k)
    <3>1. \A k \in 1..n : k \in 0..n /\ k # 0
      OBVIOUS
    <3>2. QED
      BY <1>8, <3>1
  <2>3. \A k \in 1..n : F[k - 1] = f[k - 1] => F[k] = f[k]
    BY <1>6, <2>2
  <2>4. n \in 0..n
    OBVIOUS
  <2> DEFINE T == {k \in 0..n : F[k] = f[k]}
  <2>5. 0 \in T
    BY <2>1
  <2>6. \A k \in 1..n : k - 1 \in T => k \in T
    <3>1. TAKE k \in 1..n
    <3>2. k \in 0..n
      OBVIOUS
    <3>3. QED
      BY <2>3, <3>2
  <2>7. n \in T
    <3> HIDE DEF T
    <3>1. QED
      BY <2>4, <2>5, <2>6, AllOf
  <2>8. QED
    BY <2>7
<1>11. n \in 0..n /\ f[n] \in [Slots -> Nat]
  OBVIOUS
<1>12. ASSUME NEW i \in Slots PROVE Leads(events, n, Tracked[i], cache[i], f[n][i])
  <2> DEFINE T == {k \in 0..n : Leads(events, k, Tracked[i], cache[i], f[k][i])}
  <2>1. 0 \in T
    <3>1. 0 \in 0..n
      OBVIOUS
    <3>2. QED
      BY <1>6, <3>1, LeadsStart
  <2>2. ASSUME NEW k \in 1..n, k - 1 \in T PROVE k \in T
    <3>1. PICK j \in Nat : j = k - 1 /\ k = j + 1
      OBVIOUS
    <3>2. Leads(events, j, Tracked[i], cache[i], f[j][i])
      BY <2>2, <3>1
    <3>3. Leads(events, j + 1, Tracked[i], cache[i],
                IF Reports(events, j + 1, Tracked[i]) THEN events[j + 1].post ELSE f[j][i])
      BY <3>2, LeadsOneMore
    <3>4. Reports(events, k, Tracked[i]) <=> Tracked[i] = events[k].address
      BY <1>2 DEF Reports
    <3>5. f[k][i] = IF Tracked[i] = events[k].address THEN events[k].post ELSE f[k - 1][i]
      BY <1>6 DEF Step
    <3>6. k \in 0..n
      OBVIOUS
    <3>7. QED
      BY <3>1, <3>3, <3>4, <3>5, <3>6
  <2>3. n \in T
    <3>1. \A k \in 1..n : k - 1 \in T => k \in T
      BY <2>2
    <3> HIDE DEF T
    <3>2. QED
      BY <1>11, <2>1, <3>1, AllOf
  <2>4. QED
    BY <2>3
<1>13. QED
  BY <1>1, <1>9, <1>10, <1>11, <1>12

-----------------------------------------------------------------------------
(* The chain.                                                              *)

Emitted == [address : Pools, kind : Kinds]

LEMMA VersionType ==
  ASSUME NEW pre \in [Pools -> Nat], NEW block, NEW p \in Pools, NEW n \in Nat
  PROVE  /\ Version(pre, block, p, n) \in Nat
         /\ Version(pre, block, p, 0) = pre[p]
<1> DEFINE Changes(k) == {j \in 1..k : block[j].address = p /\ block[j].kind \in StateKinds}
<1>1. IsFiniteSet(Changes(n))
  <2>1. IsFiniteSet(1..n)
    BY FS_Interval
  <2>2. QED
    BY <2>1, FS_Subset
<1>2. Cardinality(Changes(n)) \in Nat
  BY <1>1, FS_CardinalityType
<1>3. Changes(0) = {}
  OBVIOUS
<1>4. Cardinality(Changes(0)) = 0
  BY <1>3, FS_EmptySet
<1>5. QED
  BY <1>2, <1>4 DEF Version

(* The logs of a block are well formed, and take every pool from the state *)
(* it was in before the block to the one after it.                         *)
LEMMA EmitProps ==
  ASSUME NEW pre \in [Pools -> Nat], NEW n \in Nat, NEW block \in [1..n -> Emitted]
  PROVE  /\ Emit(pre, block) \in Seq(Log) /\ Len(Emit(pre, block)) = n
         /\ \A p \in Pools : Leads(Emit(pre, block), n, p, pre[p], Version(pre, block, p, n))
<1> DEFINE E == Emit(pre, block)
<1>1. /\ DOMAIN E = 1..n
      /\ \A i \in 1..n : E[i] = [address |-> block[i].address, kind |-> block[i].kind,
                                post |-> Version(pre, block, block[i].address, i)]
  BY DEF Emit
<1>2. \A i \in 1..n : block[i].address \in Pools /\ block[i].kind \in Kinds
  BY DEF Emitted
<1>3. \A i \in 1..n : E[i] \in Log
  <2>1. TAKE i \in 1..n
  <2>2. PICK v \in Nat : v = Version(pre, block, block[i].address, i)
    <3>1. PICK a \in Pools : a = block[i].address
      BY <1>2
    <3>2. Version(pre, block, a, i) \in Nat
      <4>1. i \in Nat
        OBVIOUS
      <4>2. QED
        BY <4>1, VersionType
    <3>3. QED
      BY <3>1, <3>2
  <2>3. QED
    BY <1>1, <1>2, <2>2 DEF Log
<1>4. E \in Seq(Log) /\ Len(E) = n
  <2>1. E \in [1..n -> Log]
    BY <1>1, <1>3 DEF Emit
  <2>2. QED
    BY <1>1, <2>1
<1>5. ASSUME NEW p \in Pools PROVE Leads(E, n, p, pre[p], Version(pre, block, p, n))
  <2> DEFINE T == {k \in 0..n : Leads(E, k, p, pre[p], Version(pre, block, p, k))}
  <2>1. 0 \in T
    <3>1. Version(pre, block, p, 0) = pre[p] /\ 0 \in 0..n
      BY VersionType
    <3>2. QED
      BY <3>1, LeadsStart
  <2>2. ASSUME NEW k \in 1..n, k - 1 \in T PROVE k \in T
    <3>1. PICK j \in Nat : j = k - 1 /\ k = j + 1
      OBVIOUS
    <3>2. Leads(E, j + 1, p, pre[p],
                IF Reports(E, j + 1, p) THEN E[j + 1].post ELSE Version(pre, block, p, j))
      <4>1. Leads(E, j, p, pre[p], Version(pre, block, p, j))
        BY <2>2, <3>1
      <4>2. QED
        BY <4>1, LeadsOneMore
    <3>3. Reports(E, k, p) => E[k].post = Version(pre, block, p, k)
      BY <1>1 DEF Reports
    <3>4. ~Reports(E, k, p) => Version(pre, block, p, j) = Version(pre, block, p, k)
      <4>1. SUFFICES ASSUME ~Reports(E, k, p)
                     PROVE  Version(pre, block, p, j) = Version(pre, block, p, k)
        OBVIOUS
      <4>2. ~(block[k].address = p /\ block[k].kind \in StateKinds)
        BY <1>1, <1>2, <4>1, PairAssumption DEF Reports
      <4>3. \A m \in 1..k : m \in 1..j \/ m = k
        BY <3>1
      <4>4. \A m \in 1..j : m \in 1..k
        BY <3>1
      <4>5. {m \in 1..j : block[m].address = p /\ block[m].kind \in StateKinds}
              = {m \in 1..k : block[m].address = p /\ block[m].kind \in StateKinds}
        BY <4>2, <4>3, <4>4
      <4>6. QED
        BY <4>5, Zenon DEF Version
    <3>5. k \in 0..n
      OBVIOUS
    <3>6. Leads(E, k, p, pre[p], Version(pre, block, p, k))
      <4> HIDE DEF E
      <4>1. QED
        BY <3>1, <3>2, <3>3, <3>4
    <3>7. QED
      BY <3>5, <3>6
  <2>3. n \in T
    <3>1. \A k \in 1..n : k - 1 \in T => k \in T
      BY <2>2
    <3>2. n \in 0..n
      OBVIOUS
    <3> HIDE DEF T
    <3>3. QED
      BY <2>1, <3>1, <3>2, AllOf
  <2>4. QED
    BY <2>3
<1>6. QED
  BY <1>4, <1>5

(* Every block takes a pool from its state before to its state after it.   *)
Replays ==
  \A p \in Pools : \A b \in 1..Height :
    Leads(logs[b], Len(logs[b]), p, states[b - 1][p], states[b][p])

ChainInv == ChainTypeOK /\ Replays

LEMMA ChainInitInv == ChainInit => ChainInv
<1> SUFFICES ASSUME ChainInit PROVE ChainInv
  OBVIOUS
<1>1. Height = 0 /\ logs = <<>>
  BY DEF ChainInit, Height
<1>2. PICK g \in [Pools -> Genesis] : states = [b \in {0} |-> g]
  BY DEF ChainInit
<1>3. ChainTypeOK
  <2>1. logs \in Seq(Seq(Log))
    BY <1>1
  <2>2. /\ \A p \in Pools : g[p] \in Nat
        /\ g = [p \in Pools |-> g[p]]
    BY ChainAssumption
  <2>3. 0..Height = {0}
    BY <1>1
  <2>4. g \in [Pools -> Nat]
    BY <2>2
  <2>5. QED
    BY <1>2, <2>1, <2>3, <2>4, Zenon DEF ChainTypeOK
<1>4. Replays
  BY <1>1 DEF Replays
<1>5. QED
  BY <1>3, <1>4 DEF ChainInv

(* What mining a block does to the variables, in one place. *)
LEMMA MineEffect ==
  ASSUME ChainTypeOK, Mine
  PROVE  /\ Height \in Nat /\ Height' = Height + 1
         /\ \A b \in 1..Height : logs'[b] = logs[b]
         /\ \A b \in 0..Height : states'[b] = states[b]
         /\ \A p \in Pools :
              Leads(logs'[Height + 1], Len(logs'[Height + 1]), p,
                    states[Height][p], states'[Height + 1][p])
         /\ ChainTypeOK'
<1>0. Height \in Nat /\ logs \in Seq(Seq(Log)) /\ states[Height] \in [Pools -> Nat]
  <2>1. Height \in Nat
    BY DEF ChainTypeOK, Height
  <2>2. Height \in 0..Height
    BY <2>1
  <2>3. QED
    BY <2>1, <2>2 DEF ChainTypeOK
<1>1. PICK block \in Blocks :
        /\ Legal(states[Height], block)
        /\ logs' = Append(logs, Emit(states[Height], block))
        /\ states' = [b \in 0..(Height + 1) |->
                        IF b <= Height THEN states[b]
                        ELSE [p \in Pools |-> Version(states[Height], block, p, Len(block))]]
  BY DEF Mine
<1>2. PICK n \in Nat : block \in [1..n -> Emitted]
  BY ChainAssumption DEF Blocks, Emitted
<1>3. Len(block) = n
  BY <1>2
<1>4. PICK pre \in [Pools -> Nat] : pre = states[Height]
  BY <1>0
<1>5. PICK log : log = Emit(pre, block)
  OBVIOUS
<1>6. /\ log \in Seq(Log) /\ Len(log) = n
      /\ \A p \in Pools : Leads(log, n, p, pre[p], Version(pre, block, p, n))
  BY <1>2, <1>5, EmitProps
<1>7. /\ Len(logs') = Len(logs) + 1
      /\ \A b \in 1..Len(logs) : logs'[b] = logs[b]
      /\ logs'[Len(logs) + 1] = log
      /\ logs' \in Seq(Seq(Log))
  BY <1>0, <1>1, <1>4, <1>5, <1>6
<1>8. Height' = Height + 1 /\ logs'[Height + 1] = log /\ \A b \in 1..Height : logs'[b] = logs[b]
  BY <1>7 DEF Height
<1>9. \A b \in 0..Height : states'[b] = states[b]
  BY <1>0, <1>1
<1>10. states'[Height + 1] = [p \in Pools |-> Version(pre, block, p, n)]
  BY <1>0, <1>1, <1>3, <1>4
<1>11. states'[Height + 1] \in [Pools -> Nat]
  <2>1. \A p \in Pools : Version(pre, block, p, n) \in Nat
    BY VersionType
  <2>2. QED
    BY <1>10, <2>1
<1>12. ChainTypeOK'
  <2>1. states' \in [0..Height' -> [Pools -> Nat]]
    <3>1. \A b \in 0..(Height + 1) : states'[b] \in [Pools -> Nat]
      <4>1. TAKE b \in 0..(Height + 1)
      <4>2. CASE b \in 0..Height
        BY <1>9, <4>2 DEF ChainTypeOK
      <4>3. CASE b = Height + 1
        BY <1>11, <4>3
      <4>4. QED
        BY <1>0, <4>2, <4>3
    <3>2. DOMAIN states' = 0..(Height + 1) /\ states' = [b \in DOMAIN states' |-> states'[b]]
      BY <1>1
    <3>3. QED
      BY <1>8, <3>1, <3>2
  <2>2. QED
    BY <1>7, <2>1 DEF ChainTypeOK
<1>13. QED
  BY <1>0, <1>4, <1>6, <1>8, <1>9, <1>10, <1>12

(* The chain's invariant holds of every chain. *)
LEMMA MineInv ==
  ASSUME ChainInv, Mine
  PROVE  ChainInv'
<1>0. /\ Height \in Nat /\ Height' = Height + 1 /\ ChainTypeOK'
      /\ \A b \in 1..Height : logs'[b] = logs[b]
      /\ \A b \in 0..Height : states'[b] = states[b]
  BY MineEffect DEF ChainInv
<1>1. ASSUME NEW p \in Pools, NEW b \in 1..(Height + 1)
      PROVE  Leads(logs'[b], Len(logs'[b]), p, states'[b - 1][p], states'[b][p])
  <2>1. CASE b \in 1..Height
    <3>1. b \in 0..Height /\ b - 1 \in 0..Height
      BY <1>0, <2>1
    <3>2. logs'[b] = logs[b] /\ states'[b] = states[b] /\ states'[b - 1] = states[b - 1]
      BY <1>0, <2>1, <3>1
    <3>3. Leads(logs[b], Len(logs[b]), p, states[b - 1][p], states[b][p])
      BY <2>1 DEF ChainInv, Replays
    <3>4. QED
      BY <3>2, <3>3
  <2>2. CASE b = Height + 1
    <3>1. b - 1 = Height /\ Height \in 0..Height
      BY <1>0, <2>2
    <3>2. states'[b - 1] = states[Height]
      BY <1>0, <3>1
    <3>3. Leads(logs'[b], Len(logs'[b]), p, states[Height][p], states'[b][p])
      BY <2>2, MineEffect DEF ChainInv
    <3>4. QED
      BY <3>2, <3>3
  <2>3. QED
    BY <1>0, <2>1, <2>2
<1>2. Replays'
  BY <1>0, <1>1 DEF Replays
<1>3. QED
  BY <1>0, <1>2 DEF ChainInv

(* Steps of a client leave the chain, and what is known of it, alone. *)
LEMMA ChainUnchanged ==
  ASSUME ChainInv, UNCHANGED chainVars
  PROVE  ChainInv' /\ Height' = Height
<1>1. logs' = logs /\ states' = states
  BY DEF chainVars
<1>2. Height' = Height
  BY <1>1 DEF Height
<1>3. ChainTypeOK'
  BY <1>1, <1>2 DEF ChainInv, ChainTypeOK
<1>4. Replays'
  BY <1>1, <1>2 DEF ChainInv, Replays
<1>5. QED
  BY <1>2, <1>3, <1>4 DEF ChainInv

-----------------------------------------------------------------------------
(* The client.                                                             *)

(* Entry i is the state its pool had at one of the blocks lo..hi. *)
RealIn(i, lo, hi) == \E b \in lo..hi : cache[i] = states[b][Tracked[i]]

(* The logs s tell how p got from block lo to block hi. *)
Tells(s, p, lo, hi) ==
  /\ Leads(s, Len(s), p, states[lo][p], states[hi][p])
  /\ Silent(s, Len(s), p) => \A b \in lo..hi : states[b][p] = states[hi][p]

(* fetch_pools: what has been answered is the state at the target. *)
FetchInv ==
  pc = "fetch" =>
    \A i \in Slots : ChunkOf(i, StatePageSize) \notin pending =>
      got[Tracked[i]] = states[target][Tracked[i]]

(* update_pools_mut: no entry is older than the cursor.  Some may be newer: *)
(* an earlier call that failed had got further.                             *)
LoopInv ==
  pc \in {"loop", "query"} =>
    /\ synced <= cursor
    /\ \A i \in Slots : RealIn(i, cursor, target)

(* The log queries of a window answer Sync logs of their own chunk, which  *)
(* tell of each of its pools how it got through the window.                *)
QueryInv ==
  /\ pc # "query" => answers = <<>>
  /\ pc = "query" =>
       /\ cursor < target
       /\ pending \subseteq Chunks(AddrPageSize)
       /\ DOMAIN answers = Chunks(AddrPageSize) \ pending
       /\ \A k \in DOMAIN answers :
            /\ answers[k] \in Seq(SyncLogs(ChunkPools(k, AddrPageSize)))
            /\ \A p \in ChunkPools(k, AddrPageSize) : Tells(answers[k], p, cursor, ToBlock)

(* OkMeansExact is not inductive: it says nothing about a call that is     *)
(* under way.  Together with what each stage of a call has achieved it is. *)
IInv ==
  /\ TypeOK
  /\ ChainInv
  /\ ok => pc = "idle"
  /\ OkMeansExact
  /\ EntriesReal
  /\ FetchInv
  /\ LoopInv
  /\ QueryInv

-----------------------------------------------------------------------------
LEMMA TrackedInPools == \A i \in Slots : Tracked[i] \in Pools
BY SyncAssumption DEF Slots

(* The facts about numbers that the steps need, in one place. *)
LEMMA Numbers ==
  ASSUME TypeOK
  PROVE  /\ Height \in Nat
         /\ synced \in 0..Height /\ target \in 0..Height /\ cursor \in 0..Height
         /\ synced <= target /\ cursor <= target
         /\ ToBlock \in 0..Height /\ cursor <= ToBlock /\ ToBlock <= target
         /\ cursor < target => cursor < ToBlock
<1>1. Height \in Nat
  BY DEF TypeOK, ChainTypeOK, Height
<1>2. BlockPageSize \in Nat \ {0}
  BY SyncAssumption
<1>3. QED
  BY <1>1, <1>2 DEF TypeOK, ToBlock, Smaller

(* The chunks are numbered from 0. *)
LEMMA ChunksNumbered ==
  ASSUME NEW P \in Nat \ {0}
  PROVE  \E m \in Nat : Chunks(P) = 0..(m - 1) /\ Cardinality(Chunks(P)) = m
<1>1. PICK n \in Nat : n = Len(Tracked) /\ Slots = 1..n
  BY SyncAssumption DEF Slots
<1>2. CASE n = 0
  <2>1. Chunks(P) = {}
    BY <1>1, <1>2 DEF Chunks
  <2>2. 0..(0 - 1) = {}
    OBVIOUS
  <2>3. QED
    BY <2>1, <2>2, FS_EmptySet
<1>3. CASE n # 0
  <2>1. PICK m \in Nat : m = ((n - 1) \div P) + 1
    <3>1. n - 1 \in Nat
      BY <1>3
    <3>2. (n - 1) \div P \in Nat
      BY <3>1
    <3>3. QED
      BY <3>2
  <2>2. PICK q, r : q = (n - 1) \div P /\ r = (n - 1) % P
    OBVIOUS
  <2>3. q \in Nat /\ r \in 0..(P - 1) /\ n - 1 = P * q + r /\ m = q + 1
    <3>1. n - 1 \in Nat
      BY <1>3
    <3>2. QED
      BY <2>1, <2>2, <3>1
  <2>4. ASSUME NEW i \in 1..n PROVE ChunkOf(i, P) \in 0..(m - 1)
    <3>1. PICK a, b : a = (i - 1) \div P /\ b = (i - 1) % P
      OBVIOUS
    <3>2. a \in Nat /\ b \in 0..(P - 1) /\ i - 1 = P * a + b
      <4>1. i - 1 \in Nat
        OBVIOUS
      <4>2. QED
        BY <3>1, <4>1
    <3>3. a <= q
      <4>1. SUFFICES ASSUME a > q PROVE FALSE
        BY <2>3, <3>2
      <4>2. PICK d \in Nat : a = q + 1 + d
        <5>1. a - q - 1 \in Nat
          BY <2>3, <3>2, <4>1
        <5>2. QED
          BY <2>3, <3>2, <5>1
      <4>3. P * a = P * q + P + P * d /\ P * d \in Nat /\ P * q \in Nat
        BY <2>3, <4>2
      <4>4. QED
        BY <2>3, <3>2, <4>3
    <3>4. QED
      BY <2>3, <3>1, <3>2, <3>3 DEF ChunkOf
  <2>5. ASSUME NEW k \in 0..(m - 1) PROVE \E i \in 1..n : ChunkOf(i, P) = k
    <3>1. k \in Nat /\ k <= q
      BY <2>3
    <3>2. PICK d \in Nat : q = k + d
      <4>1. q - k \in Nat
        BY <2>3, <3>1
      <4>2. QED
        BY <2>3, <3>1, <4>1
    <3>3. P * q = P * k + P * d /\ P * d \in Nat /\ P * k \in Nat
      BY <3>1, <3>2
    <3>4. PICK i : i = P * k + 1
      OBVIOUS
    <3>5. i \in 1..n
      BY <2>3, <3>3, <3>4
    <3>6. (i - 1) \div P = k
      <4>0. PICK j \in Nat : j = i - 1
        BY <3>5
      <4>1. PICK a, b : a = j \div P /\ b = j % P
        OBVIOUS
      <4>2. a \in Nat /\ b \in 0..(P - 1) /\ i - 1 = P * a + b /\ i - 1 = P * k
        <5>1. a \in Nat /\ b \in 0..(P - 1) /\ j = P * a + b
          BY <4>1
        <5>2. i - 1 = P * k
          BY <3>3, <3>4
        <5>3. QED
          BY <4>0, <5>1, <5>2
      <4>3. CASE a > k
        <5>1. PICK e \in Nat : a = k + 1 + e
          <6>1. a - k - 1 \in Nat
            BY <3>1, <4>2, <4>3
          <6>2. QED
            BY <3>1, <4>2, <6>1
        <5>2. P * a = P * k + P + P * e /\ P * e \in Nat
          BY <3>1, <5>1
        <5>3. QED
          BY <3>3, <4>2, <5>2
      <4>4. CASE a < k
        <5>1. PICK e \in Nat : k = a + 1 + e
          <6>1. k - a - 1 \in Nat
            BY <3>1, <4>2, <4>4
          <6>2. QED
            BY <3>1, <4>2, <6>1
        <5>2. P * k = P * a + P + P * e /\ P * e \in Nat /\ P * a \in Nat
          BY <4>2, <5>1
        <5>3. QED
          BY <4>2, <5>2
      <4>5. QED
        BY <3>1, <4>0, <4>1, <4>2, <4>3, <4>4
    <3>7. QED
      BY <3>5, <3>6 DEF ChunkOf
  <2>6. Chunks(P) = 0..(m - 1)
    BY <1>1, <2>4, <2>5 DEF Chunks
  <2>7. Cardinality(0..(m - 1)) = m
    <3>1. m - 1 \in Int /\ 0 <= m - 1
      BY <2>3
    <3>2. Cardinality(0..(m - 1)) = (m - 1) - 0 + 1
      BY <3>1, FS_Interval
    <3>3. QED
      BY <3>1, <3>2
  <2>8. QED
    BY <2>6, <2>7
<1>4. QED
  BY <1>2, <1>3

(* A log query answers Sync logs of its pools, that tell how each of them  *)
(* got through the window.                                                 *)
LEMMA GetLogsTells ==
  ASSUME TypeOK, ChainInv, NEW k
  PROVE  /\ GetLogs(k) \in Seq(SyncLogs(ChunkPools(k, AddrPageSize)))
         /\ \A p \in ChunkPools(k, AddrPageSize) : Tells(GetLogs(k), p, cursor, ToBlock)
<1>1. PICK lo \in Nat, w \in Nat :
        cursor = lo /\ ToBlock = lo + w /\ ToBlock - AfterBlock = w /\ lo + w <= Height
  <2>1. cursor \in Nat /\ ToBlock - cursor \in Nat /\ ToBlock = cursor + (ToBlock - cursor)
    BY Numbers
  <2>2. QED
    BY <2>1, Numbers DEF AfterBlock
<1>2. PICK ps : ps = ChunkPools(k, AddrPageSize)
  OBVIOUS
<1>3. ps \subseteq Pools
  BY <1>2, TrackedInPools DEF ChunkPools
<1>4. PICK X : X = SyncLogs(ps)
  OBVIOUS
<1>5. PICK parts : parts = [n \in 1..w |-> SyncsOf(ps, logs[lo + n])]
  OBVIOUS
<1>6. GetLogs(k) = FlattenSeq(parts)
  BY <1>1, <1>2, <1>5 DEF GetLogs, AfterBlock
<1>7. \A n \in 1..w : lo + n \in 1..Height /\ (lo + n) - 1 = lo + (n - 1)
  BY <1>1, Numbers
<1>8. \A n \in 1..w : logs[lo + n] \in Seq(Log)
  <2>1. \A b \in 1..Height : logs[b] \in Seq(Log)
    BY DEF TypeOK, ChainTypeOK, Height
  <2>2. QED
    BY <1>7, <2>1
<1>9. \A n \in 1..w : parts[n] \in Seq(X)
  BY <1>4, <1>5, <1>8, SyncsKept
<1>10. parts \in Seq(Seq(X)) /\ Len(parts) = w
  <2>1. parts \in [1..w -> Seq(X)]
    BY <1>5, <1>9
  <2>2. QED
    BY <2>1
<1>11. ASSUME NEW p \in ps
       PROVE  FlattenSeq(parts) \in Seq(X) /\ Tells(FlattenSeq(parts), p, lo, lo + w)
  <2>1. PICK x : x = [n \in 0..w |-> states[lo + n][p]]
    OBVIOUS
  <2>2. ASSUME NEW n \in 1..w PROVE Leads(parts[n], Len(parts[n]), p, x[n - 1], x[n])
    <3>1. Leads(logs[lo + n], Len(logs[lo + n]), p, states[(lo + n) - 1][p], states[lo + n][p])
      BY <1>3, <1>7, <1>11 DEF ChainInv, Replays
    <3>2. x[n] = states[lo + n][p] /\ x[n - 1] = states[(lo + n) - 1][p]
      <4>1. n \in 0..w /\ n - 1 \in 0..w
        OBVIOUS
      <4>2. QED
        BY <1>7, <2>1, <4>1
    <3>3. parts[n] = SyncsOf(ps, logs[lo + n])
      BY <1>5
    <3>4. Leads(SyncsOf(ps, logs[lo + n]), Len(SyncsOf(ps, logs[lo + n])), p, x[n - 1], x[n])
      BY <1>8, <1>11, <3>1, <3>2, SyncsKept
    <3>5. QED
      BY <3>3, <3>4
  <2>3. \A n \in 1..Len(parts) : Leads(parts[n], Len(parts[n]), p, x[n - 1], x[n])
    BY <1>10, <2>2
  <2>4. PICK s : s = FlattenSeq(parts)
    OBVIOUS
  <2>5. /\ s \in Seq(X) /\ Leads(s, Len(s), p, x[0], x[w])
        /\ Silent(s, Len(s), p) => \A n \in 0..w : x[n] = x[0]
    BY <1>10, <2>3, <2>4, PartsLead
  <2>6. x[0] = states[lo][p] /\ x[w] = states[lo + w][p]
    <3>1. 0 \in 0..w /\ w \in 0..w /\ lo + 0 = lo
      OBVIOUS
    <3>2. QED
      BY <2>1, <3>1
  <2>7. ASSUME Silent(s, Len(s), p), NEW b \in lo..(lo + w)
        PROVE  states[b][p] = states[lo + w][p]
    <3>1. PICK n \in 0..w : b = lo + n
      <4>1. b - lo \in 0..w /\ b = lo + (b - lo)
        OBVIOUS
      <4>2. QED
        BY <4>1
    <3>2. x[n] = x[0] /\ x[w] = x[0]
      <4>1. w \in 0..w
        OBVIOUS
      <4>2. QED
        BY <2>5, <2>7, <4>1
    <3>3. QED
      BY <2>1, <2>6, <3>1, <3>2
  <2>8. QED
    BY <2>4, <2>5, <2>6, <2>7 DEF Tells
<1>12. FlattenSeq(parts) \in Seq(X)
  <2>1. PICK f \in [0..w -> Seq(X)] : FlattenSeq(parts) = f[w]
    BY <1>10, FlattenTable
  <2>2. w \in 0..w
    OBVIOUS
  <2>3. QED
    BY <2>1, <2>2
<1>13. QED
  BY <1>1, <1>2, <1>4, <1>6, <1>11, <1>12

(* When all chunks have answered, their answers joined up tell of every    *)
(* pool of the slice how it got through the window.                        *)
LEMMA EventsTell ==
  ASSUME IInv, pc = "query", pending = {}
  PROVE  /\ SyncEvents \in Seq(Log)
         /\ \A n \in 1..Len(SyncEvents) : SyncEvents[n].kind = "Sync"
         /\ \A i \in Slots : Tells(SyncEvents, Tracked[i], cursor, ToBlock)
<1> DEFINE ps(k) == ChunkPools(k, AddrPageSize)
<1>1. PICK m \in Nat : Chunks(AddrPageSize) = 0..(m - 1) /\ Cardinality(Chunks(AddrPageSize)) = m
  <2>1. AddrPageSize \in Nat \ {0}
    BY SyncAssumption
  <2>2. QED
    BY <2>1, ChunksNumbered
<1>2. DOMAIN answers = Chunks(AddrPageSize)
  BY DEF IInv, QueryInv
<1>3. \A k \in 0..(m - 1) : /\ answers[k] \in Seq(SyncLogs(ps(k)))
                            /\ \A p \in ps(k) : Tells(answers[k], p, cursor, ToBlock)
  BY <1>1, <1>2 DEF IInv, QueryInv
<1>4. PICK X : X = {e \in Log : e.kind = "Sync"}
  OBVIOUS
<1>5. \A k \in 0..(m - 1) : answers[k] \in Seq(X)
  <2>1. TAKE k \in 0..(m - 1)
  <2>2. SyncLogs(ps(k)) \subseteq X
    BY <1>4 DEF SyncLogs
  <2>3. PICK Y : Y = SyncLogs(ps(k))
    OBVIOUS
  <2>4. answers[k] \in Seq(Y) /\ Y \subseteq X
    BY <1>3, <2>2, <2>3
  <2> HIDE <2>2
  <2>5. QED
    BY <2>4
<1>6. PICK parts : parts = [k \in 1..m |-> answers[k - 1]]
  OBVIOUS
<1>7. SyncEvents = FlattenSeq(parts)
  BY <1>1, <1>2, <1>6 DEF SyncEvents
<1>8. parts \in Seq(Seq(X)) /\ Len(parts) = m
  <2>1. \A k \in 1..m : k - 1 \in 0..(m - 1)
    OBVIOUS
  <2>2. \A k \in 1..m : answers[k - 1] \in Seq(X)
    BY <1>5, <2>1
  <2>3. parts \in [1..m -> Seq(X)]
    BY <1>6, <2>2
  <2>4. QED
    BY <2>3
<1>9. PICK s : s = SyncEvents
  OBVIOUS
<1>10. s \in Seq(X)
  <2>1. PICK f \in [0..m -> Seq(X)] : FlattenSeq(parts) = f[m]
    BY <1>8, FlattenTable
  <2>2. m \in 0..m
    OBVIOUS
  <2>3. QED
    BY <1>7, <1>9, <2>1, <2>2
<1>11. ASSUME NEW i \in Slots PROVE Tells(s, Tracked[i], cursor, ToBlock)
  <2>1. PICK p, a, b : p = Tracked[i] /\ a = states[cursor][p] /\ b = states[ToBlock][p]
    OBVIOUS
  <2>2. PICK c : c = ChunkOf(i, AddrPageSize)
    OBVIOUS
  <2>3. c \in 0..(m - 1) /\ p \in ps(c)
    BY <1>1, <2>1, <2>2 DEF Chunks, ChunkPools
  <2>4. PICK x : x = [k \in 0..m |-> IF \E d \in 0..(k - 1) : p \in ps(d) THEN b ELSE a]
    OBVIOUS
  <2>5. ASSUME NEW k \in 1..m PROVE Leads(parts[k], Len(parts[k]), p, x[k - 1], x[k])
    <3>1. PICK d : d = k - 1 /\ d \in 0..(m - 1) /\ k \in 0..m /\ d \in 0..m
      OBVIOUS
    <3>2. parts[k] = answers[d] /\ answers[d] \in Seq(SyncLogs(ps(d)))
      BY <1>3, <1>6, <3>1
    <3>3. x[d] \in {a, b}
      BY <2>4, <3>1
    <3>4. CASE p \in ps(d)
      <4>1. Leads(answers[d], Len(answers[d]), p, a, b)
        BY <1>3, <2>1, <3>1, <3>4 DEF Tells
      <4>2. Leads(answers[d], Len(answers[d]), p, b, b)
        BY <4>1 DEF Leads
      <4>3. x[k] = b
        <5>1. d \in 0..(k - 1)
          BY <3>1
        <5>2. QED
          BY <2>4, <3>1, <3>4, <5>1
      <4>4. QED
        BY <3>1, <3>2, <3>3, <4>1, <4>2, <4>3
    <3>5. CASE p \notin ps(d)
      <4>1. x[k] = x[d]
        <5>1. \A e \in 0..(k - 1) : e = d \/ e \in 0..(d - 1)
          BY <3>1
        <5>2. \A e \in 0..(d - 1) : e \in 0..(k - 1)
          BY <3>1
        <5> HIDE DEF ps
        <5>3. (\E e \in 0..(k - 1) : p \in ps(e)) <=> (\E e \in 0..(d - 1) : p \in ps(e))
          BY <3>5, <5>1, <5>2
        <5>4. QED
          BY <2>4, <3>1, <5>3
      <4>2. Silent(answers[d], Len(answers[d]), p)
        <5>1. PICK Y : Y = SyncLogs(ps(d))
          OBVIOUS
        <5>2. \A e \in Y : e.address # p
          BY <3>5, <5>1 DEF SyncLogs
        <5>3. answers[d] \in Seq(Y)
          BY <3>2, <5>1
        <5>4. \A n \in 1..Len(answers[d]) : answers[d][n] \in Y
          BY <5>3
        <5>5. QED
          BY <5>2, <5>4 DEF Silent, Reports
      <4>3. QED
        BY <3>1, <3>2, <4>1, <4>2 DEF Leads
    <3>6. QED
      BY <3>4, <3>5
  <2>6. \A k \in 1..Len(parts) : Leads(parts[k], Len(parts[k]), p, x[k - 1], x[k])
    BY <1>8, <2>5
  <2>7. /\ Leads(s, Len(s), p, x[0], x[m])
        /\ Silent(s, Len(s), p) => \A k \in 1..m : Silent(parts[k], Len(parts[k]), p)
    BY <1>7, <1>8, <1>9, <2>6, PartsLead
  <2>8. x[0] = a /\ x[m] = b
    <3>1. 0 \in 0..m /\ m \in 0..m /\ 0..(0 - 1) = {}
      OBVIOUS
    <3>2. QED
      BY <2>3, <2>4, <3>1
  <2>9. ASSUME Silent(s, Len(s), p), NEW t \in cursor..ToBlock
        PROVE  states[t][p] = states[ToBlock][p]
    <3>1. c + 1 \in 1..m /\ (c + 1) - 1 = c
      BY <2>3
    <3>2. parts[c + 1] = answers[c]
      BY <1>6, <3>1
    <3>3. Silent(answers[c], Len(answers[c]), p)
      BY <2>7, <2>9, <3>1, <3>2
    <3>4. Tells(answers[c], p, cursor, ToBlock)
      BY <1>3, <2>3
    <3>5. QED
      BY <3>3, <3>4 DEF Tells
  <2>10. QED
    BY <2>1, <2>7, <2>8, <2>9 DEF Tells
<1>12. \A n \in 1..Len(s) : s[n] \in Log /\ s[n].kind = "Sync"
  <2>1. \A n \in 1..Len(s) : s[n] \in X
    BY <1>10
  <2>2. QED
    BY <1>4, <2>1
<1>13. s \in Seq(Log)
  <2>1. X \subseteq Log
    BY <1>4
  <2>2. QED
    BY <1>10, <2>1
<1>14. QED
  BY <1>9, <1>11, <1>12, <1>13

-----------------------------------------------------------------------------
LEMMA InitIInv == Init => IInv
<1> SUFFICES ASSUME Init PROVE IInv
  OBVIOUS
<1>1. ChainInv
  BY ChainInitInv DEF Init
<1>2. Height = 0
  BY DEF Init, ChainInit, Height
<1>4. cache = Snapshot(0) /\ synced = 0 /\ target = 0 /\ cursor = 0 /\ ok = TRUE
      /\ pc = "idle" /\ pending = {} /\ got = Nothing /\ answers = <<>> /\ failures = 0
  BY DEF Init
<1>5. ChainTypeOK
  BY <1>1 DEF ChainInv
<1>6. cache \in [Slots -> Nat]
  <2>1. \A i \in Slots : states[0][Tracked[i]] \in Nat
    BY <1>2, <1>5, TrackedInPools DEF ChainTypeOK
  <2>2. QED
    BY <1>4, <2>1 DEF Snapshot
<1>7. TypeOK
  BY <1>2, <1>4, <1>5, <1>6, SyncAssumption DEF TypeOK, Nothing
<1>8. EntriesReal
  BY <1>4 DEF EntriesReal, Snapshot
<1>9. QED
  BY <1>1, <1>4, <1>7, <1>8
     DEF IInv, OkMeansExact, FetchInv, LoopInv, QueryInv

(* A call is started.  What the entries are stays as it is; an update may  *)
(* find entries newer than its first block.                                *)
LEMMA FetchIInv ==
  ASSUME IInv, NEW block \in 0..Height, Fetch(block)
  PROVE  IInv'
<1>1. ChainInv' /\ Height' = Height
  BY ChainUnchanged DEF IInv, Fetch
<1>2. /\ logs' = logs /\ states' = states /\ cache' = cache /\ synced' = synced
      /\ pc = "idle" /\ pc' = "params" /\ ok' = FALSE /\ target' = block /\ target <= block
      /\ pending' = Chunks(ParamPageSize) /\ cursor' = cursor
      /\ got' = got /\ answers' = answers /\ failures' = failures
  BY Numbers DEF Fetch, chainVars, IInv
<1>3. TypeOK'
  <2>1. synced \in 0..Height /\ block \in synced..Height /\ cursor \in 0..block
    BY <1>2, Numbers DEF IInv
  <2>2. QED
    BY <1>1, <1>2, <2>1 DEF IInv, TypeOK, ChainInv
<1>4. EntriesReal'
  BY <1>2, Numbers DEF IInv, EntriesReal
<1>5. QED
  BY <1>1, <1>2, <1>3, <1>4 DEF IInv, OkMeansExact, FetchInv, LoopInv, QueryInv

(* The parameters are answered, and the states asked for. *)
LEMMA ParamsIInv ==
  ASSUME IInv, (\E k \in pending : ParamChunk(k)) \/ QueryStates
  PROVE  IInv'
<1>1. UNCHANGED chainVars
  BY DEF ParamChunk, QueryStates
<1>2. /\ logs' = logs /\ states' = states /\ cache' = cache /\ synced' = synced
      /\ pc = "params" /\ pc' \in {"params", "fetch"} /\ ok' = ok /\ target' = target
      /\ cursor' = cursor /\ got' = got /\ answers' = answers /\ failures' = failures
      /\ pending' \subseteq pending \/ pending' = Chunks(StatePageSize)
      /\ pc' = "fetch" => pending' = Chunks(StatePageSize)
  BY DEF ParamChunk, QueryStates, chainVars
<1>3. ChainInv' /\ Height' = Height
  BY <1>1, ChainUnchanged DEF IInv
<1>4. TypeOK'
  BY <1>2, <1>3 DEF IInv, TypeOK, ChainInv
<1>5. FetchInv'
  BY <1>2 DEF FetchInv, Chunks
<1>6. EntriesReal' /\ OkMeansExact' /\ (ok' => pc' = "idle")
  BY <1>2 DEF IInv, EntriesReal, OkMeansExact, Snapshot
<1>7. QED
  BY <1>2, <1>3, <1>4, <1>5, <1>6 DEF IInv, LoopInv, QueryInv

LEMMA UpdateIInv ==
  ASSUME IInv, NEW current \in 0..Height, Update(current)
  PROVE  IInv'
<1>1. ChainInv' /\ Height' = Height
  BY ChainUnchanged DEF IInv, ChainInv, Update
<1>2. /\ logs' = logs /\ states' = states /\ cache' = cache /\ synced' = synced
      /\ pc = "idle" /\ pc' = "loop" /\ ok' = FALSE /\ target' = current /\ target <= current
      /\ pending' = pending /\ cursor' = synced /\ answers' = answers
  BY Numbers DEF Update, chainVars, IInv
<1>3. TypeOK'
  <2>1. synced \in 0..Height /\ current \in synced..Height /\ synced \in 0..current
    BY <1>2, Numbers DEF IInv
  <2>2. QED
    BY <1>1, <1>2, <2>1 DEF IInv, TypeOK, Update, ChainInv
<1>4. EntriesReal'
  BY <1>2, Numbers DEF IInv, EntriesReal
<1>5. LoopInv'
  BY <1>2, <1>4, Numbers DEF IInv, LoopInv, EntriesReal, RealIn
<1>6. QED
  BY <1>1, <1>2, <1>3, <1>4, <1>5 DEF IInv, OkMeansExact, FetchInv, QueryInv

(* One multicall is answered: its pools are as they were at the target.    *)
LEMMA FetchChunkIInv ==
  ASSUME IInv, NEW k \in pending, FetchChunk(k)
  PROVE  IInv'
<1>1. ChainInv' /\ Height' = Height
  BY ChainUnchanged DEF IInv, ChainInv, FetchChunk
<1>2. /\ logs' = logs /\ states' = states /\ cache' = cache /\ synced' = synced
      /\ pc = "fetch" /\ pc' = pc /\ ok' = ok /\ target' = target /\ cursor' = cursor
      /\ pending' = pending \ {k} /\ answers' = answers
      /\ got' = [p \in Pools |-> IF p \in ChunkPools(k, StatePageSize)
                                THEN states[target][p] ELSE got[p]]
  BY DEF FetchChunk, chainVars, ReadBlock, UniV2PoolState
<1>3. \A p \in Pools : states[target][p] \in Nat
  BY Numbers DEF IInv, TypeOK, ChainTypeOK
<1>4. TypeOK'
  <2>1. got' \in [Pools -> Nat]
    BY <1>2, <1>3 DEF IInv, TypeOK
  <2>2. QED
    BY <1>1, <1>2, <2>1 DEF IInv, TypeOK, FetchChunk, ChainInv
<1>5. FetchInv'
  <2>1. SUFFICES ASSUME NEW i \in Slots, ChunkOf(i, StatePageSize) \notin pending \ {k}
                 PROVE  got'[Tracked[i]] = states[target][Tracked[i]]
    BY <1>2 DEF FetchInv
  <2>2. CASE Tracked[i] \in ChunkPools(k, StatePageSize)
    BY <1>2, <2>2, TrackedInPools
  <2>3. CASE Tracked[i] \notin ChunkPools(k, StatePageSize)
    <3>1. ChunkOf(i, StatePageSize) # k
      BY <2>3 DEF ChunkPools
    <3>2. got[Tracked[i]] = states[target][Tracked[i]]
      BY <1>2, <2>1, <3>1 DEF IInv, FetchInv
    <3>3. QED
      BY <1>2, <2>3, <3>2, TrackedInPools
  <2>4. QED
    BY <2>2, <2>3
<1>6. EntriesReal' /\ OkMeansExact'
  BY <1>2 DEF IInv, EntriesReal, OkMeansExact, Snapshot
<1>7. QED
  BY <1>1, <1>2, <1>4, <1>5, <1>6 DEF IInv, LoopInv, QueryInv

(* fetch_pools returns a snapshot at the target. *)
LEMMA FetchReturnsSnapshot ==
  ASSUME IInv, FetchReturn
  PROVE  cache' = Snapshot(target) /\ \A i \in Slots : cache'[i] \in Nat
<1>1. \A i \in Slots : got[Tracked[i]] = states[target][Tracked[i]]
  BY DEF IInv, FetchInv, FetchReturn
<1>2. \A i \in Slots : states[target][Tracked[i]] \in Nat
  BY Numbers, TrackedInPools DEF IInv, TypeOK, ChainTypeOK
<1>3. QED
  BY <1>1, <1>2 DEF FetchReturn, Snapshot

LEMMA FetchReturnIInv ==
  ASSUME IInv, FetchReturn
  PROVE  IInv'
<1>1. ChainInv' /\ Height' = Height
  BY ChainUnchanged DEF IInv, ChainInv, FetchReturn
<1>2. /\ logs' = logs /\ states' = states /\ synced' = target
      /\ pc = "fetch" /\ pc' = "idle" /\ ok' = TRUE /\ target' = target /\ cursor' = target
      /\ answers' = answers
  BY DEF FetchReturn, chainVars
<1>3. cache' = Snapshot(target) /\ \A i \in Slots : cache'[i] \in Nat
  BY FetchReturnsSnapshot
<1>4. TypeOK'
  <2>1. cache' \in [Slots -> Nat]
    BY <1>3 DEF Snapshot
  <2>2. QED
    BY <1>1, <1>2, <2>1, Numbers, SyncAssumption
       DEF IInv, TypeOK, FetchReturn, ChainInv, Nothing
<1>5. OkMeansExact'
  BY <1>2, <1>3 DEF OkMeansExact, Snapshot
<1>6. EntriesReal'
  BY <1>2, <1>3, Numbers DEF IInv, EntriesReal, Snapshot
<1>7. QED
  BY <1>1, <1>2, <1>4, <1>5, <1>6 DEF IInv, FetchInv, LoopInv, QueryInv

(* The loop asks for the logs of its next window, or is done. *)
LEMMA QueryWindowIInv ==
  ASSUME IInv, QueryWindow
  PROVE  IInv'
<1>1. ChainInv' /\ Height' = Height
  BY ChainUnchanged DEF IInv, QueryWindow
<1>2. /\ logs' = logs /\ states' = states /\ cache' = cache /\ synced' = synced
      /\ pc = "loop" /\ pc' = "query" /\ ok' = ok /\ target' = target /\ cursor' = cursor
      /\ cursor < target /\ got' = got /\ answers' = answers /\ failures' = failures
      /\ pending' = Chunks(AddrPageSize)
  BY DEF QueryWindow, chainVars, MoreBlocks
<1>3. TypeOK'
  BY <1>1, <1>2 DEF IInv, TypeOK, ChainInv
<1>4. EntriesReal' /\ OkMeansExact' /\ (ok' => pc' = "idle")
  BY <1>2 DEF IInv, EntriesReal, OkMeansExact, Snapshot
<1>5. LoopInv'
  BY <1>2 DEF IInv, LoopInv, RealIn
<1>6. QueryInv'
  <2>1. answers = <<>> /\ DOMAIN answers = {}
    BY <1>2 DEF IInv, QueryInv
  <2>2. QED
    BY <1>2, <2>1 DEF QueryInv
<1>7. QED
  BY <1>1, <1>2, <1>3, <1>4, <1>5, <1>6 DEF IInv, FetchInv

(* The logs of one chunk of addresses are answered. *)
LEMMA QueryChunkIInv ==
  ASSUME IInv, NEW k \in pending, QueryChunk(k)
  PROVE  IInv'
<1>1. ChainInv' /\ Height' = Height
  BY ChainUnchanged DEF IInv, QueryChunk
<1>2. /\ logs' = logs /\ states' = states /\ cache' = cache /\ synced' = synced
      /\ pc = "query" /\ pc' = pc /\ ok' = ok /\ target' = target /\ cursor' = cursor
      /\ pending' = pending \ {k} /\ got' = got /\ failures' = failures
  BY DEF QueryChunk, chainVars
<1>3. PICK told : told = GetLogs(k)
  OBVIOUS
<1>4. answers' = [c \in DOMAIN answers \cup {k} |-> IF c = k THEN told ELSE answers[c]]
  BY <1>3 DEF QueryChunk
<1>5. /\ told \in Seq(SyncLogs(ChunkPools(k, AddrPageSize)))
      /\ \A p \in ChunkPools(k, AddrPageSize) : Tells(told, p, cursor, ToBlock)
  BY <1>3, GetLogsTells DEF IInv
<1>6. told \in Seq(Log)
  <2>1. PICK Y : Y = SyncLogs(ChunkPools(k, AddrPageSize))
    OBVIOUS
  <2>2. Y \subseteq Log
    BY <2>1 DEF SyncLogs
  <2>3. told \in Seq(Y)
    BY <1>5, <2>1
  <2>4. QED
    BY <2>2, <2>3
<1>7. /\ DOMAIN answers = Chunks(AddrPageSize) \ pending /\ cursor < target
      /\ pending \subseteq Chunks(AddrPageSize)
  BY <1>2 DEF IInv, QueryInv
<1>8. CASE k \in Chunks(AddrPageSize)
  <2>1. TypeOK'
    BY <1>1, <1>2, <1>4, <1>6, <1>7, <1>8 DEF IInv, TypeOK, ChainInv
  <2>2. EntriesReal' /\ OkMeansExact' /\ LoopInv'
    BY <1>2 DEF IInv, EntriesReal, OkMeansExact, Snapshot, LoopInv, RealIn
  <2>3. ToBlock' = ToBlock
    BY <1>2 DEF ToBlock, Smaller
  <2>4. \A s, p, lo, hi : Tells(s, p, lo, hi)' <=> Tells(s, p, lo, hi)
    BY <1>2 DEF Tells
  <2>5. ASSUME NEW c \in DOMAIN answers'
        PROVE  /\ answers'[c] \in Seq(SyncLogs(ChunkPools(c, AddrPageSize)))
               /\ \A p \in ChunkPools(c, AddrPageSize) : Tells(answers'[c], p, cursor, ToBlock)
    <3>1. CASE c = k
      BY <1>4, <1>5, <3>1
    <3>2. CASE c # k
      <4>1. c \in DOMAIN answers /\ answers'[c] = answers[c]
        BY <1>4, <3>2
      <4>2. QED
        BY <1>2, <4>1 DEF IInv, QueryInv
    <3>3. QED
      BY <3>1, <3>2
  <2>6. DOMAIN answers' = Chunks(AddrPageSize) \ pending'
    BY <1>2, <1>4, <1>7, <1>8
  <2>7. QueryInv'
    BY <1>2, <1>7, <2>3, <2>4, <2>5, <2>6 DEF QueryInv, SyncLogs
  <2>8. QED
    BY <1>1, <1>2, <2>1, <2>2, <2>7 DEF IInv, FetchInv
<1>9. k \in Chunks(AddrPageSize)
  BY <1>2 DEF IInv, QueryInv
<1>10. QED
  BY <1>8, <1>9

(* Replaying a window: an entry with a Sync is now at the window's end,    *)
(* and one without has not moved, or was already newer.                    *)
LEMMA AppliedIsReal ==
  ASSUME IInv, ApplyWindow, NEW i \in Slots
  PROVE  /\ cache'[i] \in Nat
         /\ \E b \in ToBlock..target : cache'[i] = states[b][Tracked[i]]
         /\ cache[i] = states[cursor][Tracked[i]] => cache'[i] = states[ToBlock][Tracked[i]]
<1>1. /\ pc = "query" /\ pending = {} /\ cache' = Replay(SyncEvents)
      /\ cache \in [Slots -> Nat]
  BY DEF ApplyWindow, Applied, IInv, TypeOK
<1>2. /\ ToBlock \in 0..Height /\ ToBlock \in ToBlock..target /\ cursor \in cursor..ToBlock
      /\ target \in 0..Height /\ Height \in Nat /\ cursor \in 0..Height
  BY Numbers DEF IInv
<1>3. PICK p : p = Tracked[i]
  OBVIOUS
<1>4. states[ToBlock][p] \in Nat
  BY <1>2, <1>3, TrackedInPools DEF IInv, TypeOK, ChainTypeOK
<1>5. PICK s : s = SyncEvents
  OBVIOUS
<1>6. /\ s \in Seq(Log) /\ \A n \in 1..Len(s) : s[n].kind = "Sync"
      /\ Tells(s, p, cursor, ToBlock)
  BY <1>1, <1>3, <1>5, EventsTell
<1>7. Leads(s, Len(s), p, cache[i], cache'[i]) /\ cache'[i] \in Nat
  <2>1. /\ Replay(s) \in [Slots -> Nat]
        /\ Leads(s, Len(s), Tracked[i], cache[i], Replay(s)[i])
    BY <1>1, <1>6, Replayed
  <2>2. QED
    BY <1>1, <1>3, <1>5, <2>1
<1>8. CASE Silent(s, Len(s), p)
  <2>1. cache'[i] = cache[i]
    BY <1>7, <1>8 DEF Leads, Silent
  <2>2. \A b \in cursor..ToBlock : states[b][p] = states[ToBlock][p]
    BY <1>6, <1>8 DEF Tells
  <2>3. PICK b \in cursor..target : cache[i] = states[b][p]
    BY <1>1, <1>3 DEF IInv, LoopInv, RealIn
  <2>4. b \in cursor..ToBlock \/ b \in ToBlock..target
    BY <1>2
  <2>5. QED
    BY <1>2, <1>3, <1>7, <2>1, <2>2, <2>3, <2>4
<1>9. CASE ~Silent(s, Len(s), p)
  <2>1. Leads(s, Len(s), p, states[cursor][p], states[ToBlock][p])
    BY <1>6 DEF Tells
  <2>2. PICK m \in Nat : m = Len(s)
    BY <1>6
  <2>3. PICK k \in 1..m : /\ Reports(s, k, p) /\ s[k].post = states[ToBlock][p]
                          /\ \A j \in (k + 1)..m : ~Reports(s, j, p)
    BY <1>9, <2>1, <2>2 DEF Leads
  <2>4. PICK l \in 1..m : /\ Reports(s, l, p) /\ s[l].post = cache'[i]
                          /\ \A j \in (l + 1)..m : ~Reports(s, j, p)
    BY <1>7, <1>9, <2>2 DEF Leads
  <2>5. k = l
    <3>1. k \in (l + 1)..m \/ l \in (k + 1)..m \/ k = l
      OBVIOUS
    <3>2. QED
      BY <2>3, <2>4, <3>1
  <2>6. cache'[i] = states[ToBlock][p]
    BY <2>3, <2>4, <2>5
  <2>7. QED
    BY <1>2, <1>3, <1>7, <2>6
<1>10. QED
  BY <1>8, <1>9

LEMMA ReplayedType == ASSUME IInv, ApplyWindow PROVE cache' \in [Slots -> Nat]
<1>1. pc = "query" /\ pending = {} /\ cache' = Replay(SyncEvents) /\ cache \in [Slots -> Nat]
  BY DEF ApplyWindow, Applied, IInv, TypeOK
<1>2. PICK s : s = SyncEvents
  OBVIOUS
<1>3. s \in Seq(Log) /\ \A n \in 1..Len(s) : s[n].kind = "Sync"
  BY <1>1, <1>2, EventsTell
<1>4. Replay(s) \in [Slots -> Nat]
  BY <1>1, <1>3, Replayed
<1>5. QED
  BY <1>1, <1>2, <1>4

LEMMA ApplyWindowIInv ==
  ASSUME IInv, ApplyWindow
  PROVE  IInv'
<1>1. ChainInv' /\ Height' = Height
  BY ChainUnchanged DEF IInv, ChainInv, ApplyWindow
<1>2. /\ logs' = logs /\ states' = states /\ synced' = synced
      /\ pc = "query" /\ pc' = "loop" /\ ok' = ok /\ target' = target
      /\ cursor' = ToBlock /\ pending' = pending /\ answers' = <<>> /\ got' = got
  BY DEF ApplyWindow, chainVars
<1>3. \A i \in Slots : /\ cache'[i] \in Nat
                        /\ \E b \in ToBlock..target : cache'[i] = states[b][Tracked[i]]
  BY AppliedIsReal
<1>4. /\ ToBlock \in 0..target /\ synced <= ToBlock /\ Height \in Nat
      /\ synced \in 0..Height /\ target \in 0..Height
  BY <1>2, Numbers DEF IInv, LoopInv
<1>5. TypeOK'
  <2>1. cache' \in [Slots -> Nat]
    BY ReplayedType
  <2>2. QED
    BY <1>1, <1>2, <1>4, <2>1 DEF IInv, TypeOK, ApplyWindow, ChainInv
<1>6. LoopInv'
  BY <1>2, <1>3, <1>4 DEF LoopInv, RealIn
<1>7. EntriesReal'
  <2>1. \A b \in ToBlock..target : b \in synced..target
    BY <1>4
  <2>2. QED
    BY <1>2, <1>3, <2>1 DEF EntriesReal
<1>8. ok = FALSE
  BY <1>2 DEF IInv, TypeOK
<1>9. QED
  BY <1>1, <1>2, <1>5, <1>6, <1>7, <1>8 DEF IInv, OkMeansExact, FetchInv, QueryInv

(* update_pools_mut returns Ok: every entry is at the target. *)
LEMMA UpdateReturnsSnapshot ==
  ASSUME IInv, UpdateReturn
  PROVE  cursor = target /\ cache = Snapshot(target)
<1>1. cursor = target /\ target \in Nat
  BY Numbers DEF IInv, UpdateReturn, MoreBlocks
<1>2. \A i \in Slots : cache[i] = states[target][Tracked[i]]
  <2>1. TAKE i \in Slots
  <2>2. PICK b \in cursor..target : cache[i] = states[b][Tracked[i]]
    BY DEF IInv, LoopInv, RealIn, UpdateReturn
  <2>3. b = target
    BY <1>1
  <2>4. QED
    BY <2>2, <2>3
<1>3. cache = [i \in Slots |-> cache[i]]
  BY DEF IInv, TypeOK
<1>4. QED
  BY <1>1, <1>2, <1>3 DEF Snapshot

LEMMA UpdateReturnIInv ==
  ASSUME IInv, UpdateReturn
  PROVE  IInv'
<1>1. ChainInv' /\ Height' = Height
  BY ChainUnchanged DEF IInv, ChainInv, UpdateReturn
<1>2. /\ logs' = logs /\ states' = states /\ cache' = cache /\ synced' = target
      /\ pc = "loop" /\ pc' = "idle" /\ ok' = TRUE /\ target' = target /\ cursor' = cursor
      /\ answers' = answers
  BY DEF UpdateReturn, chainVars
<1>3. cache = Snapshot(target) /\ cursor = target
  BY UpdateReturnsSnapshot
<1>4. TypeOK'
  <2>1. target \in 0..Height /\ target \in target..Height
    BY Numbers DEF IInv
  <2>2. QED
    BY <1>1, <1>2, <2>1 DEF IInv, TypeOK, UpdateReturn, ChainInv
<1>5. OkMeansExact'
  BY <1>2, <1>3 DEF OkMeansExact, Snapshot
<1>6. EntriesReal'
  <2>1. target \in target..target
    BY Numbers DEF IInv
  <2>2. QED
    BY <1>2, <1>3, <2>1 DEF EntriesReal, Snapshot
<1>7. QED
  BY <1>1, <1>2, <1>4, <1>5, <1>6 DEF IInv, FetchInv, LoopInv, QueryInv

(* A request fails: the slice stays, and nothing is promised about it. *)
LEMMA FailIInv ==
  ASSUME IInv, Fail
  PROVE  IInv'
<1>1. ChainInv' /\ Height' = Height
  BY ChainUnchanged DEF IInv, ChainInv, Fail
<1>2. /\ logs' = logs /\ states' = states /\ cache' = cache /\ synced' = synced
      /\ pc \in {"params", "fetch", "query"} /\ pc' = "idle" /\ ok' = ok /\ target' = target
      /\ cursor' = cursor /\ pending' = {} /\ answers' = <<>>
  BY DEF Fail, chainVars
<1>3. ok = FALSE
  BY <1>2 DEF IInv, TypeOK
<1>4. TypeOK'
  <2>1. got' \in [Pools -> Nat]
    BY DEF Fail, Nothing
  <2>2. failures' \in 0..MaxFailures
    BY SyncAssumption DEF Fail, IInv, TypeOK
  <2>3. QED
    BY <1>1, <1>2, <2>1, <2>2 DEF IInv, TypeOK, ChainInv
<1>5. EntriesReal'
  BY <1>2 DEF IInv, EntriesReal
<1>6. QED
  BY <1>1, <1>2, <1>3, <1>4, <1>5 DEF IInv, OkMeansExact, FetchInv, LoopInv, QueryInv

(* A block is mined: nothing is said about blocks that do not exist yet. *)
LEMMA MineBlockIInv ==
  ASSUME IInv, MineBlock
  PROVE  IInv'
<1>1. Mine /\ ChainTypeOK
  BY DEF MineBlock, IInv, TypeOK
<1>2. /\ Height \in Nat /\ Height' = Height + 1 /\ ChainTypeOK'
      /\ \A b \in 0..Height : states'[b] = states[b]
  BY <1>1, MineEffect
<1>3. /\ cache' = cache /\ synced' = synced /\ pc' = pc /\ ok' = ok
      /\ target' = target /\ cursor' = cursor /\ pending' = pending /\ got' = got
      /\ answers' = answers /\ failures' = failures /\ ToBlock' = ToBlock
  BY DEF MineBlock, clientVars, ToBlock, Smaller
<1>4. ChainInv'
  BY <1>1, MineInv DEF IInv
<1>5. /\ synced \in 0..Height /\ target \in 0..Height /\ cursor \in 0..Height
      /\ ToBlock \in 0..Height /\ synced <= target /\ cursor <= target
  BY Numbers DEF IInv
<1>6. TypeOK'
  <2>1. synced \in 0..(Height + 1) /\ target \in synced..(Height + 1) /\ cursor \in 0..target
    BY <1>2, <1>5
  <2>2. QED
    BY <1>2, <1>3, <2>1 DEF IInv, TypeOK
<1>7. OkMeansExact'
  BY <1>2, <1>3, <1>5 DEF IInv, OkMeansExact, Snapshot
<1>8. EntriesReal'
  <2>1. \A b \in synced..target : b \in 0..Height
    BY <1>2, <1>5
  <2>2. QED
    BY <1>2, <1>3, <2>1 DEF IInv, EntriesReal
<1>9. FetchInv'
  BY <1>2, <1>3, <1>5 DEF IInv, FetchInv
<1>10. LoopInv'
  <2>1. \A b \in cursor..target : b \in 0..Height
    BY <1>2, <1>5
  <2>2. QED
    BY <1>2, <1>3, <2>1 DEF IInv, LoopInv, RealIn
<1>11. QueryInv'
  <2>1. SUFFICES ASSUME pc = "query", NEW k \in DOMAIN answers,
                        NEW p \in ChunkPools(k, AddrPageSize)
                 PROVE  Tells(answers[k], p, cursor, ToBlock)'
    BY <1>3 DEF IInv, QueryInv, SyncLogs
  <2>2. Tells(answers[k], p, cursor, ToBlock)
    BY <2>1 DEF IInv, QueryInv
  <2>3. PICK lo, hi, s : lo = cursor /\ hi = ToBlock /\ s = answers[k]
    OBVIOUS
  <2>4. lo \in 0..Height /\ hi \in 0..Height /\ \A b \in lo..hi : b \in 0..Height
    BY <1>2, <1>5, <2>3
  <2>5. Tells(s, p, lo, hi)
    BY <2>2, <2>3
  <2>6. \A b \in lo..hi : states'[b] = states[b]
    BY <1>2, <2>4
  <2>7. states'[lo] = states[lo] /\ states'[hi] = states[hi]
    BY <1>2, <2>4
  <2>8. Tells(s, p, lo, hi)'
    BY <2>5, <2>6, <2>7 DEF Tells
  <2>9. cursor' = lo /\ ToBlock' = hi /\ answers'[k] = s
    BY <1>3, <2>3
  <2>10. QED
    BY <2>8, <2>9 DEF Tells
<1>12. QED
  BY <1>3, <1>4, <1>6, <1>7, <1>8, <1>9, <1>10, <1>11 DEF IInv

LEMMA NextIInv == IInv /\ [Next]_vars => IInv'
<1> SUFFICES ASSUME IInv, [Next]_vars PROVE IInv'
  OBVIOUS
<1>1. CASE MineBlock
  BY <1>1, MineBlockIInv
<1>2. ASSUME NEW b \in 0..Height, Fetch(b) PROVE IInv'
  BY <1>2, FetchIInv
<1>3. ASSUME NEW b \in 0..Height, Update(b) PROVE IInv'
  BY <1>3, UpdateIInv
<1>4. ASSUME NEW k \in pending, FetchChunk(k) PROVE IInv'
  BY <1>4, FetchChunkIInv
<1>5. ASSUME NEW k \in pending, QueryChunk(k) PROVE IInv'
  BY <1>5, QueryChunkIInv
<1>6. CASE FetchReturn
  BY <1>6, FetchReturnIInv
<1>7. CASE QueryWindow
  BY <1>7, QueryWindowIInv
<1>8. CASE ApplyWindow
  BY <1>8, ApplyWindowIInv
<1>9. CASE UpdateReturn
  BY <1>9, UpdateReturnIInv
<1>10. CASE Fail
  BY <1>10, FailIInv
<1>11. CASE (\E k \in pending : ParamChunk(k)) \/ QueryStates
  BY <1>11, ParamsIInv
<1>12. CASE UNCHANGED vars
  <2>1. UNCHANGED chainVars /\ UNCHANGED clientVars
    BY <1>12 DEF vars, chainVars
  <2>2. ChainInv' /\ Height' = Height
    BY <2>1, ChainUnchanged DEF IInv, ChainInv
  <2>3. TypeOK'
    BY <2>1, <2>2 DEF IInv, TypeOK, clientVars, ChainInv
  <2>4. QED
    BY <2>1, <2>2, <2>3 DEF IInv, clientVars, chainVars, OkMeansExact, Snapshot, EntriesReal,
          FetchInv, LoopInv, RealIn, QueryInv, Tells, SyncLogs, ToBlock, Smaller
<1>13. QED
  BY <1>1, <1>2, <1>3, <1>4, <1>5, <1>6, <1>7, <1>8, <1>9, <1>10, <1>11, <1>12 DEF Next, Client

-----------------------------------------------------------------------------
(* Every reachable state satisfies the inductive invariant.                *)
THEOREM Invariance == Spec => []IInv
BY InitIInv, NextIInv, PTL DEF Spec

(* The state of the client and of the chain keep their types.              *)
THEOREM TypeCorrect == Spec => []TypeOK
<1>1. IInv => TypeOK
  BY DEF IInv
<1>2. QED
  BY <1>1, Invariance, PTL

(* Whenever fetch_pools or update_pools_mut has returned Ok, the slice is  *)
(* exactly the pools' state at the block that was asked for.               *)
THEOREM OkMeansExactCorrect == Spec => []OkMeansExact
<1>1. IInv => OkMeansExact
  BY DEF IInv
<1>2. QED
  BY <1>1, Invariance, PTL

(* At any time, failures included, each entry is a state its pool had at a *)
(* block between the last success and the last block asked for.            *)
THEOREM EntriesRealCorrect == Spec => []EntriesReal
<1>1. IInv => EntriesReal
  BY DEF IInv
<1>2. QED
  BY <1>1, Invariance, PTL

(* A window turns a snapshot of its first block into one of its last.      *)
THEOREM WindowKeepsSnapshotCorrect == Spec => WindowKeepsSnapshot
<1> DEFINE Advances == pc = "query" /\ cursor' > cursor /\ cache = Snapshot(cursor)
<1>1. IInv /\ [Next]_vars => [Advances => cache' = Snapshot(cursor)']_vars
  <2>1. SUFFICES ASSUME IInv, Next, Advances
                 PROVE  cache' = Snapshot(cursor)'
    OBVIOUS
  <2>2. cursor' # cursor /\ pc = "query"
    BY <2>1, Numbers DEF IInv
  <2>3. CASE ApplyWindow
    <3>0. cache' = [i \in Slots |-> cache'[i]]
      BY <2>1, <2>3, ReplayedType
    <3>1. cursor' = ToBlock /\ states' = states
      BY <2>3 DEF ApplyWindow, chainVars
    <3>2. \A i \in Slots : cache'[i] = states[ToBlock][Tracked[i]]
      BY <2>1, <2>3, AppliedIsReal DEF Snapshot
    <3>3. QED
      BY <3>0, <3>1, <3>2 DEF Snapshot
  <2>4. QED
    BY <2>1, <2>2, <2>3
       DEF Next, Client, MineBlock, clientVars, Fetch, ParamChunk, QueryStates, FetchChunk,
           FetchReturn, Update, QueryWindow, QueryChunk, UpdateReturn, Fail
<1>2. QED
  BY <1>1, Invariance, PTL DEF Spec, WindowKeepsSnapshot

-----------------------------------------------------------------------------
(* The refinement: a step of the client is invisible to the caller, makes  *)
(* the slice unusable, or publishes a snapshot.                            *)
View == IF ok THEN cache ELSE Unknown

LEMMA InitRefines == Init => C!Init
BY DEF Init, C!Init, C!ChainInit, ChainInit, C!Snapshot, Snapshot, C!Slots, Slots, SameState

LEMMA NextRefines == IInv /\ [Next]_vars => [C!Next]_(C!contractVars)
<1> SUFFICES ASSUME IInv, [Next]_vars
             PROVE  C!Next \/ UNCHANGED <<logs, states, synced, View>>
  BY DEF C!contractVars, View
<1>0. ok \in BOOLEAN /\ (ok => pc = "idle")
  BY DEF IInv, TypeOK
<1>1. CASE MineBlock
  <2>1. C!Height = Height /\ C!Kinds = Kinds /\ C!Blocks = Blocks
    BY DEF C!Height, Height, C!Kinds, Kinds, C!Blocks, Blocks
  <2>2. \A pre, block, p, n : C!Version(pre, block, p, n) = Version(pre, block, p, n)
    <3>1. \A S : C!Cardinality(S) = Cardinality(S)
      BY Zenon DEF C!Cardinality, Cardinality
    <3>2. QED
      BY <3>1, Zenon DEF C!Version, Version
  <2>3. \A pre, block : C!Legal(pre, block) <=> Legal(pre, block)
    BY <2>2, Zenon DEF C!Legal, Legal
  <2>4. \A pre, block : C!Emit(pre, block) = Emit(pre, block)
    BY <2>2, Zenon DEF C!Emit, Emit
  <2>5. Mine
    BY <1>1 DEF MineBlock
  <2>6. C!Mine
    BY <2>1, <2>2, <2>3, <2>4, <2>5 DEF Mine, C!Mine
  <2>7. QED
    BY <1>1, <2>6 DEF MineBlock, clientVars, C!Next
<1>2. CASE (\E b \in 0..Height : Fetch(b)) \/ (\E b \in 0..Height : Update(b))
  <2>1. C!Withdraw
    BY <1>2 DEF Fetch, Update, C!Withdraw, chainVars
  <2>2. QED
    BY <2>1 DEF C!Next
<1>3. CASE FetchReturn \/ UpdateReturn
  <2>1. /\ cache' = Snapshot(target) /\ ok' = TRUE /\ synced' = target
        /\ UNCHANGED chainVars
    BY <1>3, FetchReturnsSnapshot, UpdateReturnsSnapshot DEF FetchReturn, UpdateReturn
  <2>2. target \in 0..Height /\ target >= synced
    BY Numbers DEF IInv
  <2>3. C!Publish(target)
    BY <2>1, <2>2 DEF C!Publish, C!Snapshot, Snapshot, C!Slots, Slots, SameState,
                      C!chainVars, chainVars
  <2>4. QED
    BY <2>2, <2>3 DEF C!Next, C!Height, Height
<1>4. CASE \/ \E k \in pending : ParamChunk(k) \/ FetchChunk(k) \/ QueryChunk(k)
          \/ QueryStates \/ QueryWindow \/ ApplyWindow \/ Fail
  <2>1. ok = FALSE /\ ok' = FALSE /\ UNCHANGED <<logs, states, synced>>
    BY <1>0, <1>4
       DEF ParamChunk, QueryStates, FetchChunk, QueryChunk, QueryWindow, ApplyWindow, Fail,
           chainVars
  <2>2. QED
    BY <2>1 DEF View
<1>5. CASE UNCHANGED vars
  BY <1>5 DEF vars, clientVars, View
<1>6. QED
  BY <1>1, <1>2, <1>3, <1>4, <1>5 DEF Next, Client

(* UniV2 implements the contract of fetch_pools and update_pools_mut.      *)
THEOREM UniV2ImplementsContract == Spec => ImplementsContract
<1>1. Spec => []IInv
  BY Invariance
<1>2. QED
  BY <1>1, InitRefines, NextRefines, PTL DEF Spec, ImplementsContract, C!Spec
=============================================================================
