-------------------------- MODULE OIProxyCcbs_proof --------------------------
(***************************************************************************)
(* Proofs about the CCBs of the object implementer proxy, for all CCBs,    *)
(* components and struct attributes, and any number of changes.            *)
(***************************************************************************)
EXTENDS OIProxy_proof, SequenceTheorems

(***************************************************************************)
(* The map of the transactions: no two identifiers have the same one, a    *)
(* transaction in the map is not ended, and one of a CCB that is not ended *)
(* is in the map under the identifier of its CCB.                          *)
(***************************************************************************)
MapOK(T, M) ==
    /\ T \in Seq(Transactions) /\ DOMAIN M \subseteq Nat
    /\ \A d \in DOMAIN M : M[d] \in DOMAIN T
    /\ \A d, e \in DOMAIN M : M[d] = M[e] => d = e
    /\ \A d \in DOMAIN M : T[M[d]].state \notin Ended /\ T[M[d]].ccb \in {0, d}
    /\ \A h \in DOMAIN T : T[h].ccb # 0 /\ T[h].state \notin Ended =>
          T[h].ccb \in DOMAIN M /\ M[T[h].ccb] = h
    /\ \A h \in DOMAIN T : T[h].state = "prepared" =>
          \E c \in Ccbs : c \in DOMAIN M /\ M[c] = h

MapInv == MapOK(txs, ccbTxMap)

(***************************************************************************)
(* The queue of the applier: its changes of a CCB wait in the order in     *)
(* which they were made.                                                   *)
(***************************************************************************)
Elements(seq) == {seq[i] : i \in DOMAIN seq}
Queued(c) == {e \in Elements(applierQueue) : e.ccb = c}
Waiting(c) == {e \in Queued(c) : e.path # None}

\* A change is the one that is wanted at its place.
Placed(e, W) ==
    e.owner # None => /\ e.nr \in 1 .. Len(W[e.ccb])
                      /\ W[e.ccb][e.nr] = <<"struct", e.owner>>

QueueInv ==
    /\ \A i \in DOMAIN applierQueue : Placed(applierQueue[i], wanted)
    /\ \A i, j \in DOMAIN applierQueue :
          LET e == applierQueue[i]
              f == applierQueue[j]
          IN  i < j /\ e.ccb = f.ccb /\ e.owner # None /\ f.owner # None
                 => e.nr < f.nr

(***************************************************************************)
(* What is known of a CCB.                                                 *)
(***************************************************************************)
Late(c) == <<"late", c>> \in faults
Uninvolved(c) == <<"uninvolved", c>> \in faults
Clean(c) == \A f \in FaultKinds \ {"leak", "uninvolved"} : <<f, c>> \notin faults
Mapped(c) == c \in DOMAIN ccbTxMap
TxOf(c) == txs[ccbTxMap[c]]

\* The end waits only when there is one, and a change that waits when the CCB
\* is completed or ended is a fault.
WaitInv(c) ==
    /\ \A e \in Queued(c) : e.path = None => ccb[c].phase = "over"
    /\ ccb[c].phase = "none" => ~ccb[c].applier
    /\ ccb[c].phase = "prepared" => ccb[c].main
    /\ ccb[c].phase \in {"prepared", "over"} /\ Waiting(c) # {} =>
          IF ccb[c].main THEN Late(c) ELSE Uninvolved(c)
    /\ Queued(c) # {} \/ c \in applierError => ccb[c].applier

\* A transaction is prepared only when its CCB is.
PreparedInv(c) ==
    Mapped(c) /\ TxOf(c).state = "prepared" =>
        ccb[c].main /\ ccb[c].phase \in {"prepared", "over"}

\* What is left of a CCB.
LeftInv(c) ==
    /\ ccb[c].phase = "over" /\ "handle" \notin immFaults
         /\ ~Late(c) /\ ~Uninvolved(c) =>
            /\ Mapped(c) => TxOf(c).ccb = 0 /\ <<"leak", 0>> \in faults
            /\ ~cache[c].inUse
            /\ c \in applierError => Queued(c) # {}
    /\ ccb[c].phase = "prepared" /\ ~Late(c) => ~cache[c].inUse
    /\ cache[c].inUse /\ ~Late(c) => Mapped(c)

\* The changes that a CCB has given to its transaction and to the cache, and
\* those that its transaction has.
Gave(t, k) == t.got \o delivered(k)
Given(c) == IF Mapped(c) THEN Gave(TxOf(c), cache[c]) ELSE <<>>

\* They are the first ones that were wanted, and the others wait.
FlowOK(G, W, Q) ==
    /\ Len(G) <= Len(W)
    /\ \A n \in 1 .. Len(G) : W[n] = G[n]
    /\ \A e \in Q : e.owner # None => e.nr > Len(G)
    /\ \A n \in Len(G) + 1 .. Len(W) : \E e \in Q : e.owner # None /\ e.nr = n

Flow(c) == FlowOK(Given(c), wanted[c], Queued(c))

Done(c) == IF Mapped(c) THEN TxOf(c).got ELSE <<>>

FlowInv(c) ==
    Clean(c) =>
        /\ ccb[c].phase \in {"none", "open"} /\ c \notin applierError => Flow(c)
        /\ ccb[c].phase = "prepared" => Done(c) = wanted[c]

CommittedInv(c) ==
    \A h \in DOMAIN txs :
        txs[h].ccb = c /\ txs[h].state = "committed" =>
            ccb[c].phase = "over" /\ (Clean(c) => txs[h].got = wanted[c])

CcbInv(c) ==
    WaitInv(c) /\ PreparedInv(c) /\ LeftInv(c) /\ FlowInv(c) /\ CommittedInv(c)

-----------------------------------------------------------------------------
(***************************************************************************)
(* Sequences.                                                              *)
(***************************************************************************)
\* A sequence with something behind it.
LEMMA Appended ==
    ASSUME NEW S, NEW seq \in Seq(S), NEW x \in S
    PROVE  /\ Append(seq, x) \in Seq(S)
           /\ Len(seq) \in Nat /\ DOMAIN seq = 1 .. Len(seq)
           /\ Len(Append(seq, x)) = Len(seq) + 1
           /\ DOMAIN Append(seq, x) = 1 .. Len(seq) + 1
           /\ \A i \in DOMAIN seq : Append(seq, x)[i] = seq[i]
           /\ Append(seq, x)[Len(seq) + 1] = x
  OBVIOUS

\* A sequence with one element replaced.
LEMMA Replaced ==
    ASSUME NEW S, NEW seq \in Seq(S), NEW h \in DOMAIN seq, NEW x \in S
    PROVE  /\ [seq EXCEPT ![h] = x] \in Seq(S)
           /\ DOMAIN [seq EXCEPT ![h] = x] = DOMAIN seq
           /\ [seq EXCEPT ![h] = x][h] = x
           /\ \A i \in DOMAIN seq : i # h => [seq EXCEPT ![h] = x][i] = seq[i]
<1>1. h \in 1 .. Len(seq)
  OBVIOUS
<1>2. [seq EXCEPT ![h] = x] \in Seq(S)
  BY <1>1, ExceptSeq
<1> QED
  BY <1>2

\* A sequence that is known to be another one with x behind it.
LEMMA OneMore ==
    ASSUME NEW S, NEW d \in Seq(S), NEW e \in Seq(S), NEW x \in S,
           NEW n \in Nat, Len(d) = n, Len(e) = n + 1,
           \A i \in 1 .. n : e[i] = d[i], e[n + 1] = x
    PROVE  e = Append(d, x)
<1> DEFINE f == Append(d, x)
<1>1. f \in Seq(S) /\ Len(f) = n + 1 /\ f[n + 1] = x /\ \A i \in 1 .. n : f[i] = d[i]
  BY Appended
<1> HIDE DEF f
<1>2. \A i \in 1 .. Len(e) : e[i] = f[i]
  BY <1>1
<1>3. e = f
  BY <1>1, <1>2, SeqEqual
<1> QED
  BY <1>3 DEF f

\* Behind the second of two sequences is behind both.
LEMMA ConcatOneMore ==
    ASSUME NEW S, NEW g \in Seq(S), NEW d \in Seq(S), NEW x \in S
    PROVE  g \o Append(d, x) = Append(g \o d, x)
<1> DEFINE a == Append(d, x)
           b == g \o d
           e == g \o a
<1>1. /\ Len(g) \in Nat /\ Len(d) \in Nat
      /\ a \in Seq(S) /\ Len(a) = Len(d) + 1 /\ a[Len(d) + 1] = x
      /\ \A i \in 1 .. Len(d) : a[i] = d[i]
  BY Appended, LenProperties
<1>2. /\ b \in Seq(S) /\ Len(b) = Len(g) + Len(d)
      /\ \A i \in 1 .. Len(g) + Len(d) :
            b[i] = IF i <= Len(g) THEN g[i] ELSE d[i - Len(g)]
  BY ConcatProperties
<1> HIDE DEF a
<1>3. /\ e \in Seq(S) /\ Len(e) = Len(g) + Len(a)
      /\ \A i \in 1 .. Len(g) + Len(a) :
            e[i] = IF i <= Len(g) THEN g[i] ELSE a[i - Len(g)]
  <2>1. a \in Seq(S)
    BY <1>1
  <2> QED
    BY <2>1, ConcatProperties, Zenon
<1> HIDE DEF b, e
<1>4. ASSUME NEW i \in 1 .. Len(g) + Len(d)
      PROVE  e[i] = b[i]
  <2>1. i \in 1 .. Len(g) + Len(a)
    BY <1>1
  <2>2. e[i] = IF i <= Len(g) THEN g[i] ELSE a[i - Len(g)]
    BY <1>3, <2>1
  <2>3. b[i] = IF i <= Len(g) THEN g[i] ELSE d[i - Len(g)]
    BY <1>2
  <2>4. ~(i <= Len(g)) => i - Len(g) \in 1 .. Len(d)
    BY <1>1
  <2>5. ~(i <= Len(g)) => a[i - Len(g)] = d[i - Len(g)]
    BY <1>1, <2>4
  <2> QED
    BY <2>2, <2>3, <2>5
<1>5. e[Len(g) + Len(d) + 1] = x
  <2> DEFINE n == Len(g) + Len(d) + 1
  <2>1. n \in 1 .. Len(g) + Len(a) /\ ~(n <= Len(g)) /\ n - Len(g) = Len(d) + 1
    BY <1>1
  <2> HIDE DEF n
  <2>2. e[n] = a[n - Len(g)]
    BY <1>3, <2>1
  <2> QED
    BY <1>1, <2>1, <2>2 DEF n
<1>6. e = Append(b, x)
  <2>1. Len(g) + Len(d) \in Nat /\ Len(e) = Len(g) + Len(d) + 1
    BY <1>1, <1>3
  <2> QED
    BY <1>2, <1>3, <1>4, <1>5, <2>1, OneMore
<1> QED
  BY <1>6 DEF a, b, e

-----------------------------------------------------------------------------
(***************************************************************************)
(* The map of the transactions.                                            *)
(***************************************************************************)
\* A transaction has its fields.
LEMMA TransactionType ==
    /\ \A x \in Transactions : /\ x.ccb \in Ccbs \cup {0} /\ x.state \in States
                               /\ x.got \in Seq(Changes)
    /\ \A c \in Ccbs \cup {0} :
          /\ [NoTx EXCEPT !.ccb = c] \in Transactions
          /\ [NoTx EXCEPT !.ccb = c].ccb = c
          /\ [NoTx EXCEPT !.ccb = c].state = "open"
          /\ [NoTx EXCEPT !.ccb = c].got = <<>>
<1>1. <<>> \in Seq(Changes)
  OBVIOUS
<1> QED
  BY <1>1 DEF Transactions, NoTx, States

\* What openTransaction(c, id) leaves: the transactions that were there, and
\* a new one if the identifier was not in the map.
Entered(c, id, T, M) ==
    /\ MapOK(T, M)
    /\ \A h \in DOMAIN txs : h \in DOMAIN T /\ T[h] = txs[h]
    /\ \A h \in DOMAIN T : h \notin DOMAIN txs =>
          /\ T[h] = [NoTx EXCEPT !.ccb = c]
          /\ id \notin DOMAIN ccbTxMap /\ id \in DOMAIN M /\ M[id] = h
    /\ \A d \in DOMAIN ccbTxMap : d \in DOMAIN M /\ M[d] = ccbTxMap[d]
    /\ \A d \in DOMAIN M : d \notin DOMAIN ccbTxMap =>
          d = id /\ M[d] \notin DOMAIN txs

\* openTransaction keeps the map right, whichever way it ends.
LEMMA OpenEnters ==
    ASSUME MapInv, NEW c \in Ccbs \cup {0}, NEW id \in Nat, c \in {0, id},
           c = 0 => id \notin DOMAIN ccbTxMap,
           NEW t \in openTransaction(c, id)
    PROVE  /\ Entered(c, id, t.txs, t.map) /\ t.ok \in BOOLEAN
           /\ t.ok => id \in DOMAIN t.map /\ t.map[id] = t.h
<1> DEFINE known == id \in DOMAIN ccbTxMap
           h == IF known THEN ccbTxMap[id] ELSE Len(txs) + 1
           new == [NoTx EXCEPT !.ccb = c]
           opened == IF known THEN txs ELSE Append(txs, new)
           map == [d \in DOMAIN ccbTxMap \cup {id} |->
                      IF d = id THEN h ELSE ccbTxMap[d]]
<1>0. Ccbs \subseteq Nat \ {0}
  BY ProxyAssumption
<1>1. \/ ~t.ok /\ t.ok \in BOOLEAN /\ t.txs = txs /\ t.map = ccbTxMap
      \/ t.ok \in BOOLEAN /\ t.h = h /\ t.txs = opened /\ t.map = map
  <2>1. \/ t = [ok |-> FALSE, h |-> h, txs |-> txs, map |-> ccbTxMap]
        \/ t \in [ok : BOOLEAN, h : {h}, txs : {opened}, map : {map}]
    BY Zenon DEF openTransaction
  <2> HIDE DEF h, opened, map
  <2>2. CASE t = [ok |-> FALSE, h |-> h, txs |-> txs, map |-> ccbTxMap]
    <3>1. t.ok = FALSE /\ t.txs = txs /\ t.map = ccbTxMap
      BY <2>2
    <3> QED
      BY <3>1, Zenon
  <2>3. CASE t \in [ok : BOOLEAN, h : {h}, txs : {opened}, map : {map}]
    <3>1. t.ok \in BOOLEAN /\ t.h \in {h} /\ t.txs \in {opened} /\ t.map \in {map}
      BY <2>3
    <3> QED
      BY <3>1, Zenon
  <2> QED
    BY <2>1, <2>2, <2>3
<1>2. CASE ~t.ok /\ t.ok \in BOOLEAN /\ t.txs = txs /\ t.map = ccbTxMap
  BY <1>2 DEF Entered, MapInv
<1>3. CASE t.ok \in BOOLEAN /\ t.h = h /\ t.txs = opened /\ t.map = map
  <2>1. DOMAIN map = DOMAIN ccbTxMap \cup {id} /\ map[id] = h
    OBVIOUS
  <2>2. \A d \in DOMAIN ccbTxMap : map[d] = ccbTxMap[d]
    OBVIOUS
  <2>3. Entered(c, id, opened, map)
    <3>1. CASE known
      <4>1. DOMAIN map = DOMAIN ccbTxMap /\ opened = txs
        BY <3>1
      <4> HIDE DEF map, opened, h
      <4>2. MapOK(opened, map)
        BY <2>2, <4>1 DEF MapInv, MapOK
      <4> QED
        BY <2>2, <4>1, <4>2 DEF Entered
    <3>2. CASE ~known
      <4>1. txs \in Seq(Transactions) /\ new \in Transactions
        BY TransactionType DEF MapInv, MapOK
      <4>2. /\ opened \in Seq(Transactions) /\ h = Len(txs) + 1
            /\ Len(txs) \in Nat /\ DOMAIN txs = 1 .. Len(txs)
            /\ DOMAIN opened = 1 .. Len(txs) + 1 /\ opened[h] = new
            /\ \A i \in DOMAIN txs : opened[i] = txs[i]
        BY <3>2, <4>1, Appended
      <4>3. new.ccb = c /\ new.state = "open"
        BY TransactionType
      <4>4. \A i \in DOMAIN opened : i # h => i \in DOMAIN txs
        BY <4>2
      <4>5. h \notin DOMAIN txs /\ \A i \in DOMAIN txs : i \in DOMAIN opened
        BY <4>2
      <4>6. h \in DOMAIN opened
        BY <4>2
      <4> HIDE DEF map, opened, h, new
      <4>7. MapOK(opened, map)
        <5> USE DEF MapInv, MapOK
        <5>1. /\ DOMAIN map \subseteq Nat
              /\ \A d \in DOMAIN map : map[d] \in DOMAIN opened
          BY <2>1, <2>2, <4>5, <4>6
        <5>2. \A d, e \in DOMAIN map : map[d] = map[e] => d = e
          BY <2>1, <2>2, <4>5
        <5>3. \A d \in DOMAIN map : /\ opened[map[d]].state \notin Ended
                                    /\ opened[map[d]].ccb \in {0, d}
          BY <2>1, <2>2, <4>2, <4>3 DEF Ended
        <5>4. \A i \in DOMAIN opened :
                 opened[i].ccb # 0 /\ opened[i].state \notin Ended =>
                    opened[i].ccb \in DOMAIN map /\ map[opened[i].ccb] = i
          BY <2>1, <2>2, <4>2, <4>3, <4>4
        <5>5. \A i \in DOMAIN opened : opened[i].state = "prepared" =>
                 \E b \in Ccbs : b \in DOMAIN map /\ map[b] = i
          BY <2>1, <2>2, <4>2, <4>3, <4>4
        <5> QED
          BY <4>2, <5>1, <5>2, <5>3, <5>4, <5>5
      <4> QED
        BY <2>1, <2>2, <3>2, <4>2, <4>4, <4>5, <4>7 DEF Entered, new
    <3> QED
      BY <3>1, <3>2
  <2> QED
    BY <1>3, <2>1, <2>3
<1> QED
  BY <1>1, <1>2, <1>3

\* A transaction in the map gets a change or is prepared.
LEMMA UpdateKeepsMap ==
    ASSUME NEW T, NEW M, MapOK(T, M), NEW d \in DOMAIN M, NEW x \in Transactions,
           x.ccb = T[M[d]].ccb, x.state \notin Ended,
           x.state = "prepared" => d \in Ccbs \/ T[M[d]].state = "prepared"
    PROVE  MapOK([T EXCEPT ![M[d]] = x], M)
<1> DEFINE U == [T EXCEPT ![M[d]] = x]
<1> USE DEF MapOK
<1>1. /\ U \in Seq(Transactions) /\ DOMAIN U = DOMAIN T /\ U[M[d]] = x
      /\ \A i \in DOMAIN T : i # M[d] => U[i] = T[i]
  BY Replaced
<1> HIDE DEF U
<1>2. \A e \in DOMAIN M : U[M[e]].state \notin Ended /\ U[M[e]].ccb \in {0, e}
  BY <1>1
<1>3. \A h \in DOMAIN U : U[h].ccb # 0 /\ U[h].state \notin Ended =>
          U[h].ccb \in DOMAIN M /\ M[U[h].ccb] = h
  BY <1>1
<1>4. \A h \in DOMAIN U : U[h].state = "prepared" =>
          \E c \in Ccbs : c \in DOMAIN M /\ M[c] = h
  BY <1>1
<1>5. MapOK(U, M)
  BY <1>1, <1>2, <1>3, <1>4
<1> QED
  BY <1>5 DEF U

\* A transaction is ended and leaves the map; so may one that is none of a
\* CCB without being ended.
LEMMA RemovalKeepsMap ==
    ASSUME NEW T, NEW M, MapOK(T, M), NEW d \in DOMAIN M, NEW x \in Transactions,
           x.state \in Ended \/ (x.ccb = 0 /\ x.state = "open")
    PROVE  MapOK([T EXCEPT ![M[d]] = x], removeCcbTransaction(M, d))
<1> DEFINE U == [T EXCEPT ![M[d]] = x]
           N == removeCcbTransaction(M, d)
<1> USE DEF MapOK
<1>1. /\ U \in Seq(Transactions) /\ DOMAIN U = DOMAIN T /\ U[M[d]] = x
      /\ \A i \in DOMAIN T : i # M[d] => U[i] = T[i]
  BY Replaced
<1>2. /\ DOMAIN N = DOMAIN M \ {d}
      /\ \A e \in DOMAIN N : N[e] = M[e]
  BY DEF removeCcbTransaction
<1> HIDE DEF U, N
<1>3. \A e \in DOMAIN N : /\ N[e] \in DOMAIN U /\ N[e] # M[d]
                          /\ U[N[e]].state \notin Ended /\ U[N[e]].ccb \in {0, e}
  BY <1>1, <1>2
<1>4. \A h \in DOMAIN U : U[h].ccb # 0 /\ U[h].state \notin Ended =>
          U[h].ccb \in DOMAIN N /\ N[U[h].ccb] = h
  BY <1>1, <1>2
<1>5. \A h \in DOMAIN U : U[h].state = "prepared" =>
          \E c \in Ccbs : c \in DOMAIN N /\ N[c] = h
  BY <1>1, <1>2 DEF Ended
<1>6. MapOK(U, N)
  BY <1>1, <1>2, <1>3, <1>4, <1>5
<1> QED
  BY <1>6 DEF U, N

-----------------------------------------------------------------------------
(***************************************************************************)
(* A step in which only the transaction of c changes, or a new one of c or *)
(* of no CCB is opened.                                                    *)
(***************************************************************************)
TxStep(c) ==
    /\ MapInv'
    /\ \A h \in DOMAIN txs :
          /\ h \in DOMAIN txs'
          /\ txs'[h] # txs[h] => Mapped(c) /\ h = ccbTxMap[c]
          /\ txs'[h].ccb \in {txs[h].ccb, c}
    /\ \A h \in DOMAIN txs' : h \notin DOMAIN txs =>
          txs'[h].ccb = 0 \/ (txs'[h].ccb = c /\ txs'[h].state = "open")
    /\ \A d \in Ccbs : d # c =>
          /\ Mapped(d)' <=> Mapped(d)
          /\ Mapped(d) => ccbTxMap'[d] = ccbTxMap[d]

\* The transactions of a CCB are as they were.
TxKept(d) ==
    /\ Mapped(d)' <=> Mapped(d)
    /\ Mapped(d) => ccbTxMap'[d] = ccbTxMap[d] /\ TxOf(d)' = TxOf(d)
    /\ \A h \in DOMAIN txs' : txs'[h].ccb = d /\ txs'[h].state = "committed" =>
          h \in DOMAIN txs /\ txs'[h] = txs[h]

\* Nothing of a CCB changes but the list of its faults.
Untouched(d) ==
    /\ ccb'[d] = ccb[d] /\ cache'[d] = cache[d] /\ wanted'[d] = wanted[d]
    /\ d \in applierError' <=> d \in applierError
    /\ Queued(d)' = Queued(d)
    /\ faults \subseteq faults' /\ immFaults \subseteq immFaults'

\* A step on the transaction of one CCB keeps those of the others.
LEMMA OthersKept ==
    ASSUME MapInv, NEW c, TxStep(c), NEW d \in Ccbs, d # c
    PROVE  TxKept(d)
<1>0. d # 0
  BY ProxyAssumption
<1>1. Mapped(d) => ccbTxMap[d] \in DOMAIN txs /\ (Mapped(c) => ccbTxMap[c] # ccbTxMap[d])
  BY DEF MapInv, MapOK, Mapped
<1>2. Mapped(d) => TxOf(d)' = TxOf(d)
  BY <1>1 DEF TxStep, TxOf
<1>3. ASSUME NEW h \in DOMAIN txs', txs'[h].ccb = d, txs'[h].state = "committed"
      PROVE  h \in DOMAIN txs /\ txs'[h] = txs[h]
  <2>1. h \in DOMAIN txs
    BY <1>0, <1>3 DEF TxStep
  <2>2. CASE Mapped(c) /\ h = ccbTxMap[c]
    <3>1. txs[h].ccb \in {0, c}
      BY <2>2 DEF MapInv, MapOK, Mapped
    <3> QED
      BY <1>0, <1>3, <2>1, <3>1 DEF TxStep
  <2> QED
    BY <2>1, <2>2 DEF TxStep
<1> QED
  BY <1>2, <1>3 DEF TxKept, TxStep

\* A step that leaves the transactions and the map alone.
LEMMA NothingEnters ==
    ASSUME MapInv, UNCHANGED <<txs, ccbTxMap>>, NEW c
    PROVE  TxStep(c) /\ TxKept(c)
  BY DEF MapInv, MapOK, TxStep, TxKept, Mapped, TxOf

\* The invariant of a CCB that a step does not touch.
LEMMA UntouchedInv ==
    ASSUME NEW d \in Ccbs, CcbInv(d), Untouched(d), TxKept(d)
    PROVE  CcbInv(d)'
<1> USE DEF Untouched, TxKept
<1>1. /\ Late(d) => Late(d)'
      /\ Uninvolved(d) => Uninvolved(d)'
      /\ Clean(d)' => Clean(d)
      /\ <<"leak", 0>> \in faults => <<"leak", 0>> \in faults'
      /\ Waiting(d)' = Waiting(d)
      /\ Mapped(d)' => TxOf(d)' = TxOf(d)
  BY DEF Late, Uninvolved, Clean, Waiting
<1>2. WaitInv(d)'
  BY <1>1 DEF CcbInv, WaitInv
<1>3. PreparedInv(d)'
  BY <1>1 DEF CcbInv, PreparedInv
<1>4. LeftInv(d)'
  BY <1>1 DEF CcbInv, LeftInv
<1>5. Given(d)' = Given(d)
  BY <1>1 DEF Given
<1>6. Flow(d) => Flow(d)'
  BY <1>5 DEF Flow
<1>7. FlowInv(d)'
  <2>1. Done(d)' = Done(d)
    BY <1>1 DEF Done
  <2> QED
    BY <1>1, <1>6, <2>1 DEF CcbInv, FlowInv
<1>8. CommittedInv(d)'
  BY <1>1 DEF CcbInv, CommittedInv
<1> QED
  BY <1>2, <1>3, <1>4, <1>7, <1>8 DEF CcbInv

-----------------------------------------------------------------------------
(***************************************************************************)
(* What the operations do with the transactions.                           *)
(***************************************************************************)
\* Opening a transaction touches that of its own identifier only.
LEMMA OpenedStep ==
    ASSUME MapInv, NEW c \in Ccbs \cup {0}, NEW id \in Nat, c \in {0, id},
           Entered(c, id, txs', ccbTxMap')
    PROVE  TxStep(id)
<1>1. [NoTx EXCEPT !.ccb = c].ccb = c /\ [NoTx EXCEPT !.ccb = c].state = "open"
  BY TransactionType
<1>2. MapInv'
  BY DEF Entered, MapInv
<1> QED
  BY <1>1, <1>2 DEF Entered, TxStep, Mapped

\* A transaction that was opened if need be gets x as its new value.
LEMMA GivenStep ==
    ASSUME MapInv, NEW c \in Ccbs, NEW T, NEW M, Entered(c, c, T, M),
           c \in DOMAIN M, NEW x \in Transactions, x.ccb = T[M[c]].ccb,
           x.state = T[M[c]].state, ccbTxMap' = M, txs' = [T EXCEPT ![M[c]] = x]
    PROVE  /\ TxStep(c) /\ Mapped(c)' /\ TxOf(c)' = x
           /\ IF Mapped(c) THEN ccbTxMap'[c] = ccbTxMap[c] /\ T[M[c]] = TxOf(c)
                           ELSE T[M[c]] = [NoTx EXCEPT !.ccb = c]
<1>0. c \in Nat
  BY ProxyAssumption
<1>1. MapOK(T, M)
  BY DEF Entered
<1>2. x.state \notin Ended
  BY <1>1 DEF MapOK
<1>3. MapInv'
  BY <1>1, <1>2, UpdateKeepsMap DEF MapInv
<1>4. T \in Seq(Transactions) /\ M[c] \in DOMAIN T
  BY <1>1 DEF MapOK
<1>5. /\ DOMAIN txs' = DOMAIN T /\ txs'[M[c]] = x
      /\ \A i \in DOMAIN T : i # M[c] => txs'[i] = T[i]
  BY <1>4, Replaced
<1>6. [NoTx EXCEPT !.ccb = c].ccb = c /\ [NoTx EXCEPT !.ccb = c].state = "open"
  BY TransactionType
<1>7. IF Mapped(c) THEN M[c] = ccbTxMap[c] /\ T[M[c]] = TxOf(c)
                   ELSE M[c] \notin DOMAIN txs /\ T[M[c]] = [NoTx EXCEPT !.ccb = c]
  BY <1>4 DEF Entered, Mapped, TxOf, MapInv, MapOK
<1>8. ASSUME NEW h \in DOMAIN txs
      PROVE  /\ h \in DOMAIN txs' /\ (txs'[h] # txs[h] => Mapped(c) /\ h = ccbTxMap[c])
             /\ txs'[h].ccb = txs[h].ccb
  BY <1>5, <1>7 DEF Entered
<1>9. ASSUME NEW h \in DOMAIN txs', h \notin DOMAIN txs
      PROVE  txs'[h].ccb \in {0, c} /\ txs'[h].state = "open"
  BY <1>5, <1>6, <1>9 DEF Entered
<1>10. TxStep(c)
  BY <1>3, <1>8, <1>9 DEF TxStep, Entered, Mapped
<1> QED
  BY <1>5, <1>7, <1>10 DEF Mapped, TxOf

\* The transaction of a CCB is prepared.
LEMMA PreparedStep ==
    ASSUME MapInv, NEW c \in Ccbs, Mapped(c), NEW x \in Transactions,
           x.ccb = TxOf(c).ccb, x.state = "prepared",
           txs' = [txs EXCEPT ![ccbTxMap[c]] = x], ccbTxMap' = ccbTxMap
    PROVE  TxStep(c) /\ TxOf(c)' = x
<1>1. MapInv'
  BY UpdateKeepsMap DEF MapInv, Mapped, TxOf, Ended
<1>2. txs \in Seq(Transactions) /\ ccbTxMap[c] \in DOMAIN txs
  BY DEF MapInv, MapOK, Mapped
<1>3. /\ DOMAIN txs' = DOMAIN txs /\ txs'[ccbTxMap[c]] = x
      /\ \A i \in DOMAIN txs : i # ccbTxMap[c] => txs'[i] = txs[i]
  BY <1>2, Replaced
<1> QED
  BY <1>1, <1>3 DEF TxStep, Mapped, TxOf

\* The transaction of a CCB is ended.
LEMMA EndedStep ==
    ASSUME MapInv, NEW c \in Ccbs, Mapped(c), NEW x \in Transactions,
           x.ccb \in {TxOf(c).ccb, c}, x.state \in Ended,
           txs' = [txs EXCEPT ![ccbTxMap[c]] = x],
           ccbTxMap' = removeCcbTransaction(ccbTxMap, c)
    PROVE  TxStep(c) /\ ~Mapped(c)' /\ txs'[ccbTxMap[c]] = x
<1>1. MapInv'
  BY RemovalKeepsMap DEF MapInv, Mapped, TxOf
<1>2. txs \in Seq(Transactions) /\ ccbTxMap[c] \in DOMAIN txs
  BY DEF MapInv, MapOK, Mapped
<1>3. /\ DOMAIN txs' = DOMAIN txs /\ txs'[ccbTxMap[c]] = x
      /\ \A i \in DOMAIN txs : i # ccbTxMap[c] => txs'[i] = txs[i]
  BY <1>2, Replaced
<1>4. /\ DOMAIN ccbTxMap' = DOMAIN ccbTxMap \ {c}
      /\ \A e \in DOMAIN ccbTxMap' : ccbTxMap'[e] = ccbTxMap[e]
  BY DEF removeCcbTransaction
<1> QED
  BY <1>1, <1>3, <1>4 DEF TxStep, Mapped, TxOf

-----------------------------------------------------------------------------
(***************************************************************************)
(* What is sent, and what stays in the cache.                              *)
(***************************************************************************)
CacheOK(k) ==
    /\ k \in CacheEntries
    /\ IF k.inUse THEN k.key # None /\ k.moIf # None
                  ELSE k.key = None /\ k.values = <<>>

\* Everything was sent: x is the transaction, l the cache.
SentAll(t, k, x, l) ==
    /\ x \in Transactions /\ x.ccb = t.ccb /\ x.state = t.state
    /\ x.got = Gave(t, k) /\ CacheOK(l) /\ ~l.inUse /\ l.moIf = k.moIf

CacheSent(t, k, s) ==
    \/ s.ok = TRUE /\ SentAll(t, k, s.tx, s.cache)
    \/ s.ok = FALSE /\ s.tx = t /\ s.cache = k

\* The transaction remains one of its CCB, in its state.
Gives(t, s) ==
    /\ s.ok \in BOOLEAN /\ CacheOK(s.cache)
    /\ s.tx \in Transactions /\ s.tx.ccb = t.ccb /\ s.tx.state = t.state

\* The changes that the cached values become, one for each value.
LEMMA Delivered ==
    ASSUME NEW k, CacheOK(k)
    PROVE  /\ k.values \in Seq(Changes) /\ delivered(k) \in Seq(Changes)
           /\ Len(delivered(k)) = Len(k.values)
           /\ \A i \in 1 .. Len(k.values) :
                 delivered(k)[i] = <<k.values[i][1], k.moIf>>
           /\ k.values = <<>> => delivered(k) = <<>>
<1>1. k.values \in Seq(Changes) /\ k.moIf \in Components \cup {None}
  BY DEF CacheOK, CacheEntries
<1>2. Len(k.values) \in Nat /\ DOMAIN k.values = 1 .. Len(k.values)
  BY <1>1, LenProperties
<1>3. \A i \in 1 .. Len(k.values) : <<k.values[i][1], k.moIf>> \in Changes
  <2>1. CASE k.values = <<>>
    BY <2>1
  <2>2. CASE k.values # <<>>
    <3>1. k.moIf \in Components
      BY <1>1, <2>2 DEF CacheOK
    <3>2. \A i \in 1 .. Len(k.values) : k.values[i] \in Changes
      BY <1>1, ElementOfSeq
    <3> QED
      BY <3>1, <3>2 DEF Changes
  <2> QED
    BY <2>1, <2>2
<1>4. delivered(k) = [i \in 1 .. Len(k.values) |-> <<k.values[i][1], k.moIf>>]
  BY <1>2 DEF delivered
<1>5. delivered(k) \in Seq(Changes)
  <2> DEFINE e(i) == <<k.values[i][1], k.moIf>>
  <2>1. \A i \in 1 .. Len(k.values) : e(i) \in Changes
    BY <1>3
  <2> HIDE DEF e
  <2>2. [i \in 1 .. Len(k.values) |-> e(i)] \in Seq(Changes)
    BY <1>2, <2>1, IsASeq
  <2> QED
    BY <1>4, <2>2 DEF e
<1>6. Len(delivered(k)) = Len(k.values)
  <2>1. DOMAIN delivered(k) = 1 .. Len(k.values)
    BY <1>4
  <2>2. Len(delivered(k)) \in Nat /\ DOMAIN delivered(k) = 1 .. Len(delivered(k))
    BY <1>5, LenProperties
  <2> QED
    BY <1>2, <2>1, <2>2
<1>7. k.values = <<>> => delivered(k) = <<>>
  BY <1>5, <1>6, EmptySeq
<1>8. \A i \in 1 .. Len(k.values) : delivered(k)[i] = <<k.values[i][1], k.moIf>>
  BY <1>4
<1> QED
  BY <1>1, <1>5, <1>6, <1>7, <1>8

\* What was given is a sequence of changes.
LEMMA GaveType ==
    ASSUME NEW t \in Transactions, NEW k, CacheOK(k)
    PROVE  /\ Gave(t, k) \in Seq(Changes)
           /\ k.values = <<>> => Gave(t, k) = t.got
<1>1. t.got \in Seq(Changes)
  BY TransactionType
<1> QED
  BY <1>1, Delivered, ConcatProperties, ConcatEmptySeq DEF Gave

\* One value more in the cache is one change more.
LEMMA CachedMore ==
    ASSUME NEW t \in Transactions, NEW k, CacheOK(k), NEW l, CacheOK(l),
           NEW change \in Changes, l.values = Append(k.values, change),
           l.moIf = change[2], k.values # <<>> => k.moIf = l.moIf
    PROVE  Gave(t, l) = Append(Gave(t, k), change)
<1>1. t.got \in Seq(Changes)
  BY TransactionType
<1>2. /\ k.values \in Seq(Changes) /\ delivered(k) \in Seq(Changes)
      /\ Len(delivered(k)) = Len(k.values)
      /\ \A i \in 1 .. Len(k.values) :
            delivered(k)[i] = <<k.values[i][1], k.moIf>>
  BY Delivered
<1>3. /\ l.values \in Seq(Changes) /\ delivered(l) \in Seq(Changes)
      /\ Len(delivered(l)) = Len(l.values)
      /\ \A i \in 1 .. Len(l.values) :
            delivered(l)[i] = <<l.values[i][1], l.moIf>>
  BY Delivered
<1>4. /\ Len(k.values) \in Nat /\ Len(l.values) = Len(k.values) + 1
      /\ \A i \in 1 .. Len(k.values) : l.values[i] = k.values[i]
      /\ l.values[Len(k.values) + 1] = change
  BY <1>2, Appended
<1>5. change = <<change[1], change[2]>>
  BY DEF Changes
<1>6. ASSUME NEW i \in 1 .. Len(k.values)
      PROVE  delivered(l)[i] = delivered(k)[i]
  <2>1. k.values # <<>> /\ i \in 1 .. Len(l.values)
    BY <1>2, <1>4
  <2>2. delivered(l)[i] = <<l.values[i][1], l.moIf>>
    BY <1>3, <2>1
  <2>3. delivered(k)[i] = <<k.values[i][1], k.moIf>>
    BY <1>2
  <2> QED
    BY <1>4, <2>1, <2>2, <2>3
<1>7. delivered(l)[Len(k.values) + 1] = change
  <2>1. Len(k.values) + 1 \in 1 .. Len(l.values)
    BY <1>4
  <2>2. delivered(l)[Len(k.values) + 1] = <<change[1], l.moIf>>
    BY <1>3, <1>4, <2>1
  <2> QED
    BY <1>5, <2>2
<1>8. delivered(l) = Append(delivered(k), change)
  BY <1>2, <1>3, <1>4, <1>6, <1>7, OneMore
<1>9. t.got \o Append(delivered(k), change) = Append(t.got \o delivered(k), change)
  <2>1. \A g, d \in Seq(Changes) : g \o Append(d, change) = Append(g \o d, change)
    BY ConcatOneMore
  <2> QED
    BY <1>1, <1>2, <2>1
<1> QED
  BY <1>8, <1>9, Zenon DEF Gave

\* OIProxy_cache_sendMoData sends everything, or nothing happens.
LEMMA SendCacheDoes ==
    ASSUME NEW t \in Transactions, NEW k, CacheOK(k), NEW s \in sendCache(t, k)
    PROVE  CacheSent(t, k, s)
<1> USE DEF CacheSent
<1>1. \/ ~k.inUse /\ s = [ok |-> TRUE, tx |-> t, cache |-> k]
      \/ /\ k.inUse
         /\ s = [ok |-> TRUE, cache |-> cleanCcbId(k),
                 tx |-> [t EXCEPT !.got = @ \o delivered(k)]]
      \/ k.inUse /\ s = [ok |-> FALSE, tx |-> t, cache |-> k]
  BY Zenon DEF sendCache
<1>2. CASE ~k.inUse /\ s = [ok |-> TRUE, tx |-> t, cache |-> k]
  <2>1. s.ok = TRUE /\ s.tx = t /\ s.cache = k
    BY <1>2
  <2>2. k.values = <<>>
    BY <1>2 DEF CacheOK
  <2>3. t.got = Gave(t, k)
    BY <2>2, GaveType
  <2> QED
    BY <1>2, <2>1, <2>3 DEF SentAll
<1>3. CASE s = [ok |-> TRUE, cache |-> cleanCcbId(k),
                tx |-> [t EXCEPT !.got = @ \o delivered(k)]]
  <2>1. s.ok = TRUE /\ s.cache = cleanCcbId(k) /\ s.tx = [t EXCEPT !.got = Gave(t, k)]
    BY <1>3 DEF Gave
  <2>2. Gave(t, k) \in Seq(Changes)
    BY GaveType
  <2>3. /\ s.tx \in Transactions /\ s.tx.ccb = t.ccb /\ s.tx.state = t.state
        /\ s.tx.got = Gave(t, k)
    BY <2>1, <2>2 DEF Transactions
  <2>4. CacheOK(s.cache) /\ ~s.cache.inUse /\ s.cache.moIf = k.moIf
    BY <2>1, EmptySeq DEF CacheOK, CacheEntries, cleanCcbId
  <2> QED
    BY <2>1, <2>3, <2>4 DEF SentAll
<1>4. CASE s = [ok |-> FALSE, tx |-> t, cache |-> k]
  BY <1>4
<1> QED
  BY <1>1, <1>2, <1>3, <1>4

\* A change of something else, behind what was cached.
LEMMA SendChangeDoes ==
    ASSUME NEW t \in Transactions, NEW k, CacheOK(k), NEW change \in Changes,
           NEW s \in sendChange(t, k, change)
    PROVE  /\ Gives(t, s)
           /\ s.ok => Gave(s.tx, s.cache) = Append(Gave(t, k), change)
<1>1. PICK r \in sendCache(t, k) :
         \/ r.ok /\ s = [r EXCEPT !.tx.got = Append(@, change)]
         \/ s = [r EXCEPT !.ok = FALSE]
  BY Zenon DEF sendChange
<1>2. /\ DOMAIN r = {"ok", "tx", "cache"}
      /\ r = [ok |-> r.ok, tx |-> r.tx, cache |-> r.cache]
  BY DEF sendCache
<1>3. \/ r.ok = TRUE /\ SentAll(t, k, r.tx, r.cache)
      \/ r.ok = FALSE /\ r.tx = t /\ r.cache = k
  <2>1. CacheSent(t, k, r)
    BY SendCacheDoes
  <2> QED
    BY <2>1 DEF CacheSent
<1>4. r.tx \in Transactions /\ r.tx.ccb = t.ccb /\ r.tx.state = t.state /\ CacheOK(r.cache)
  BY <1>3 DEF SentAll
<1>5. CASE r.ok /\ s = [r EXCEPT !.tx.got = Append(@, change)]
  <2>1. SentAll(t, k, r.tx, r.cache) /\ r.ok = TRUE
    BY <1>3, <1>5
  <2>2. /\ s.ok = r.ok /\ s.cache = r.cache
        /\ s.tx = [r.tx EXCEPT !.got = Append(r.tx.got, change)]
    BY <1>2, <1>5
  <2>3. Gave(t, k) \in Seq(Changes)
    BY GaveType
  <2>4. Append(Gave(t, k), change) \in Seq(Changes)
    BY <2>3, Appended
  <2>5. /\ s.tx \in Transactions /\ s.tx.ccb = t.ccb /\ s.tx.state = t.state
        /\ s.tx.got = Append(Gave(t, k), change)
    BY <2>1, <2>2, <2>4 DEF SentAll, Transactions
  <2>6. s.cache.values = <<>>
    BY <2>1, <2>2 DEF SentAll, CacheOK
  <2>7. Gave(s.tx, s.cache) = Append(Gave(t, k), change)
    BY <1>4, <2>2, <2>5, <2>6, GaveType
  <2> QED
    BY <1>4, <2>1, <2>2, <2>5, <2>7 DEF Gives
<1>6. CASE s = [r EXCEPT !.ok = FALSE]
  <2>1. s.ok = FALSE /\ s.cache = r.cache /\ s.tx = r.tx
    BY <1>2, <1>6
  <2> QED
    BY <1>4, <2>1 DEF Gives
<1> QED
  BY <1>1, <1>5, <1>6

\* A change of a struct attribute joins the cached ones; those of another
\* attribute are sent before.
LEMMA SetStructDoes ==
    ASSUME NEW t \in Transactions, NEW k, CacheOK(k), NEW change \in Changes,
           NEW path \in Paths, NEW c, NEW s \in setStructAttribute(t, k, path, change)
    PROVE  /\ Gives(t, s)
           /\ s.ok /\ cacheFaults(c, k, path, change) = {} =>
                 Gave(s.tx, s.cache) = Append(Gave(t, k), change)
<1> DEFINE other == k.inUse /\ k.key # path
           sent == IF other THEN sendCache(t, k)
                   ELSE {[ok |-> TRUE, tx |-> t, cache |-> k]}
           add(r) == [r EXCEPT !.cache = addAttrValueContainer(@, path, change)]
<1>1. PICK r \in sent : s = IF r.ok THEN add(r) ELSE r
  BY Zenon DEF setStructAttribute
<1>2. /\ DOMAIN r = {"ok", "tx", "cache"}
      /\ r = [ok |-> r.ok, tx |-> r.tx, cache |-> r.cache]
  BY DEF sendCache
<1>3. \/ r.ok = TRUE /\ ~other /\ r.tx = t /\ r.cache = k
      \/ r.ok = TRUE /\ other /\ SentAll(t, k, r.tx, r.cache)
      \/ r.ok = FALSE /\ r.tx = t /\ r.cache = k
  <2>1. CASE other
    <3>1. r \in sendCache(t, k)
      BY <2>1
    <3>2. CacheSent(t, k, r)
      BY <3>1, SendCacheDoes
    <3> HIDE DEF sent
    <3> QED
      BY <2>1, <3>2 DEF CacheSent
  <2>2. CASE ~other
    BY <2>2
  <2> QED
    BY <2>1, <2>2
<1>4. CASE r.ok = FALSE
  <2>1. s = r /\ r.tx = t /\ r.cache = k
    BY <1>1, <1>3, <1>4
  <2> QED
    BY <1>4, <2>1 DEF Gives
<1>5. CASE r.ok = TRUE
  <2>1. s.ok = TRUE /\ s.tx = r.tx /\ s.cache = addAttrValueContainer(r.cache, path, change)
    BY <1>1, <1>2, <1>5
  <2>2. /\ r.tx \in Transactions /\ r.tx.ccb = t.ccb /\ r.tx.state = t.state
        /\ CacheOK(r.cache) /\ r.cache.moIf = k.moIf
    BY <1>3, <1>5 DEF SentAll
  <2>3. Gave(r.tx, r.cache) = Gave(t, k)
    <3>1. CASE other
      <4>1. SentAll(t, k, r.tx, r.cache)
        BY <1>3, <1>5, <3>1
      <4> QED
        BY <4>1, GaveType DEF SentAll, CacheOK
    <3>2. CASE ~other
      BY <1>3, <1>5, <3>2
    <3> QED
      BY <3>1, <3>2
  <2> HIDE DEF sent, add
  <2> DEFINE v == Append(r.cache.values, change)
  <2>4. r.cache.values \in Seq(Changes) /\ v \in Seq(Changes)
    BY <2>2, Appended DEF CacheOK, CacheEntries
  <2>5. change[2] \in Components /\ None \notin Components /\ path # None
    BY RegistryAssumption, ProxyAssumption DEF Changes, Paths, Objects
  <2>6. r.cache.moIf \in Components \cup {None}
    BY <2>2 DEF CacheOK, CacheEntries
  <2>7. /\ s.cache = [moIf |-> s.cache.moIf, inUse |-> TRUE, key |-> path,
                      values |-> s.cache.values]
        /\ s.cache.moIf = IF r.cache.moIf = None THEN change[2] ELSE r.cache.moIf
        /\ s.cache.values = IF change[1] = "clear" /\ r.cache.values # <<>>
                            THEN r.cache.values ELSE v
        /\ s.cache.inUse = TRUE /\ s.cache.key = path
    BY <2>1 DEF addAttrValueContainer
  <2> HIDE DEF v
  <2>8. s.cache.moIf \in Components /\ s.cache.values \in Seq(Changes)
    BY <2>4, <2>5, <2>6, <2>7
  <2>9. CacheOK(s.cache)
    <3>1. s.cache \in CacheEntries
      BY <2>7, <2>8 DEF CacheEntries
    <3> QED
      BY <2>5, <2>7, <2>8, <3>1 DEF CacheOK
  <2>10. ASSUME cacheFaults(c, k, path, change) = {}
         PROVE  Gave(s.tx, s.cache) = Append(Gave(t, k), change)
    <3>1. ~(change[1] = "clear" /\ k.key = path) /\ k.moIf \in {None, change[2]}
      BY <2>10 DEF cacheFaults
    <3>2. s.cache.moIf = change[2]
      BY <2>2, <2>7, <3>1
    <3>3. r.cache.values # <<>> => r.cache.inUse /\ r.cache.key = path
      <4>1. CASE other
        BY <1>3, <1>5, <4>1 DEF SentAll, CacheOK
      <4>2. CASE ~other
        BY <1>3, <1>5, <4>2 DEF CacheOK
      <4> QED
        BY <4>1, <4>2
    <3>4. r.cache.values # <<>> => r.cache = k
      BY <1>3, <1>5, <3>3 DEF SentAll
    <3>5. s.cache.values = Append(r.cache.values, change)
      BY <2>7, <3>1, <3>3, <3>4 DEF v
    <3>6. r.cache.values # <<>> => r.cache.moIf = s.cache.moIf
      BY <2>2, <2>7, <3>3 DEF CacheOK
    <3>7. Gave(r.tx, s.cache) = Append(Gave(r.tx, r.cache), change)
      BY <2>2, <2>9, <3>2, <3>5, <3>6, CachedMore
    <3> QED
      BY <2>1, <2>3, <3>7
  <2> QED
    BY <2>1, <2>2, <2>9, <2>10 DEF Gives
<1> QED
  BY <1>3, <1>4, <1>5

-----------------------------------------------------------------------------
(***************************************************************************)
(* The queue of the applier and the changes that are wanted.               *)
(***************************************************************************)
QueueType == applierQueue \in Seq(Callbacks) /\ wanted \in [Ccbs -> Seq(Changes)]

\* A callback has its fields.
LEMMA CallbackType ==
    \A e \in Callbacks :
        /\ e.ccb \in Ccbs /\ e.nr \in Nat /\ e.owner \in Components \cup {None}
        /\ e.path # None => e.path \in Paths
        /\ e.owner # None => e.path # None
<1>1. None \notin Paths
  BY ProxyAssumption DEF Paths, Objects
<1> QED
  BY <1>1 DEF Callbacks

\* The elements of the queue are callbacks.
LEMMA QueuedType ==
    ASSUME QueueType, NEW c, NEW e \in Queued(c)
    PROVE  e \in Callbacks /\ e.ccb = c
  BY ElementOfSeq, LenProperties DEF QueueType, Queued, Elements

\* What was wanted remains, in its place.
Longer ==
    \A c \in Ccbs : /\ Len(wanted[c]) <= Len(wanted'[c])
                    /\ \A n \in 1 .. Len(wanted[c]) : wanted'[c][n] = wanted[c][n]

\* Nothing more is wanted,
LEMMA WantedKept ==
    ASSUME wanted \in [Ccbs -> Seq(Changes)], wanted' = wanted
    PROVE  Longer /\ wanted' \in [Ccbs -> Seq(Changes)]
  BY LenProperties DEF Longer

\* or one change more of one CCB.
LEMMA WantedMore ==
    ASSUME wanted \in [Ccbs -> Seq(Changes)], NEW c \in Ccbs, NEW change \in Changes,
           wanted' = [wanted EXCEPT ![c] = Append(@, change)]
    PROVE  /\ Longer /\ wanted' \in [Ccbs -> Seq(Changes)]
           /\ wanted'[c] = Append(wanted[c], change)
           /\ \A d \in Ccbs : d # c => wanted'[d] = wanted[d]
<1>1. wanted'[c] = Append(wanted[c], change) /\ \A d \in Ccbs : d # c => wanted'[d] = wanted[d]
  OBVIOUS
<1>2. \A d \in Ccbs : wanted[d] \in Seq(Changes)
  OBVIOUS
<1>3. wanted'[c] \in Seq(Changes)
  BY <1>1, <1>2, Appended
<1>4. wanted' \in [Ccbs -> Seq(Changes)]
  BY <1>1, <1>3
<1>5. Longer
  <2> SUFFICES ASSUME NEW d \in Ccbs
               PROVE  /\ Len(wanted[d]) <= Len(wanted'[d])
                      /\ \A n \in 1 .. Len(wanted[d]) : wanted'[d][n] = wanted[d][n]
    BY DEF Longer
  <2>1. Len(wanted[d]) \in Nat
    BY <1>2, LenProperties
  <2>2. CASE d = c
    BY <1>1, <1>2, <2>1, <2>2, Appended
  <2>3. CASE d # c
    BY <1>1, <2>1, <2>3
  <2> QED
    BY <2>2, <2>3
<1> QED
  BY <1>1, <1>4, <1>5

\* The queue gets one more callback.
LEMMA QueueGrows ==
    ASSUME applierQueue \in Seq(Callbacks), NEW e \in Callbacks,
           applierQueue' = Append(applierQueue, e)
    PROVE  /\ applierQueue' \in Seq(Callbacks)
           /\ \A d : d # e.ccb => Queued(d)' = Queued(d)
           /\ Queued(e.ccb)' = Queued(e.ccb) \cup {e}
<1>1. /\ applierQueue' \in Seq(Callbacks)
      /\ Len(applierQueue) \in Nat /\ DOMAIN applierQueue = 1 .. Len(applierQueue)
      /\ DOMAIN applierQueue' = 1 .. Len(applierQueue) + 1
      /\ \A i \in DOMAIN applierQueue : applierQueue'[i] = applierQueue[i]
      /\ applierQueue'[Len(applierQueue) + 1] = e
  BY Appended
<1>2. Elements(applierQueue') = Elements(applierQueue) \cup {e}
  <2>1. ASSUME NEW x \in Elements(applierQueue') PROVE x \in Elements(applierQueue) \cup {e}
    <3>1. PICK i \in DOMAIN applierQueue' : x = applierQueue'[i]
      BY <2>1 DEF Elements
    <3>2. i \in DOMAIN applierQueue \/ i = Len(applierQueue) + 1
      BY <1>1, <3>1
    <3> QED
      BY <1>1, <3>1, <3>2 DEF Elements
  <2>2. ASSUME NEW x \in Elements(applierQueue) \cup {e} PROVE x \in Elements(applierQueue')
    <3>1. CASE x = e
      <4>1. Len(applierQueue) + 1 \in DOMAIN applierQueue'
        BY <1>1
      <4> QED
        BY <1>1, <3>1, <4>1 DEF Elements
    <3>2. CASE x \in Elements(applierQueue)
      <4>1. PICK i \in DOMAIN applierQueue : x = applierQueue[i]
        BY <3>2 DEF Elements
      <4>2. i \in DOMAIN applierQueue'
        BY <1>1
      <4> QED
        BY <1>1, <4>1, <4>2 DEF Elements
    <3> QED
      BY <2>2, <3>1, <3>2
  <2> QED
    BY <2>1, <2>2
<1> QED
  BY <1>1, <1>2 DEF Queued

\* The first callback leaves the queue.
LEMMA QueueShrinks ==
    ASSUME applierQueue \in Seq(Callbacks), applierQueue # <<>>,
           applierQueue' = Tail(applierQueue), NEW c, c = Head(applierQueue).ccb
    PROVE  /\ applierQueue' \in Seq(Callbacks) /\ Head(applierQueue) \in Queued(c)
           /\ \A d : d # c => Queued(d)' = Queued(d)
           /\ Queued(c)' \subseteq Queued(c)
           /\ \A e \in Queued(c) : e = Head(applierQueue) \/ e \in Queued(c)'
           /\ DOMAIN applierQueue = 1 .. Len(applierQueue)
           /\ Len(applierQueue) \in Nat \ {0} /\ Head(applierQueue) = applierQueue[1]
           /\ DOMAIN applierQueue' = 1 .. Len(applierQueue) - 1
           /\ \A i \in DOMAIN applierQueue' :
                 i + 1 \in DOMAIN applierQueue /\ applierQueue'[i] = applierQueue[i + 1]
<1>1. /\ Head(applierQueue) \in Callbacks /\ applierQueue' \in Seq(Callbacks)
      /\ Len(applierQueue') = Len(applierQueue) - 1
      /\ \A i \in 1 .. Len(applierQueue') : applierQueue'[i] = applierQueue[i + 1]
  BY HeadTailProperties
<1>2. /\ DOMAIN applierQueue = 1 .. Len(applierQueue) /\ Len(applierQueue) \in Nat \ {0}
      /\ DOMAIN applierQueue' = 1 .. Len(applierQueue) - 1
  BY <1>1, LenProperties, EmptySeq
<1>3. Head(applierQueue) = applierQueue[1]
  OBVIOUS
<1>4. 1 \in DOMAIN applierQueue
  BY <1>2
<1>5. \A i \in DOMAIN applierQueue' :
         i + 1 \in DOMAIN applierQueue /\ applierQueue'[i] = applierQueue[i + 1]
  BY <1>1, <1>2
<1>6. Elements(applierQueue') \subseteq Elements(applierQueue)
  <2> SUFFICES ASSUME NEW x \in Elements(applierQueue') PROVE x \in Elements(applierQueue)
    OBVIOUS
  <2>1. PICK i \in DOMAIN applierQueue' : x = applierQueue'[i]
    BY DEF Elements
  <2> QED
    BY <1>5, <2>1 DEF Elements
<1>7. ASSUME NEW x \in Elements(applierQueue), x # Head(applierQueue)
      PROVE  x \in Elements(applierQueue')
  <2>1. PICK i \in DOMAIN applierQueue : x = applierQueue[i]
    BY <1>7 DEF Elements
  <2>2. i - 1 \in DOMAIN applierQueue' /\ i - 1 + 1 = i
    BY <1>2, <1>3, <1>7, <2>1
  <2>3. applierQueue'[i - 1] = x
    BY <1>5, <2>1, <2>2
  <2> QED
    BY <2>2, <2>3 DEF Elements
<1>8. Head(applierQueue) \in Elements(applierQueue)
  BY <1>3, <1>4 DEF Elements
<1> QED
  BY <1>1, <1>2, <1>3, <1>5, <1>6, <1>7, <1>8 DEF Queued

\* A change keeps its place.
LEMMA PlacedKept ==
    ASSUME QueueType, QueueType', Longer
    PROVE  \A e \in Callbacks : Placed(e, wanted) => Placed(e, wanted')
<1> SUFFICES ASSUME NEW e \in Callbacks, Placed(e, wanted), e.owner # None
             PROVE  /\ e.nr \in 1 .. Len(wanted'[e.ccb])
                    /\ wanted'[e.ccb][e.nr] = <<"struct", e.owner>>
  BY DEF Placed
<1>1. e.ccb \in Ccbs
  BY CallbackType
<1>2. e.nr \in 1 .. Len(wanted[e.ccb]) /\ wanted[e.ccb][e.nr] = <<"struct", e.owner>>
  BY DEF Placed
<1>3. Len(wanted[e.ccb]) \in Nat /\ Len(wanted'[e.ccb]) \in Nat
  BY <1>1, LenProperties DEF QueueType
<1>4. /\ Len(wanted[e.ccb]) <= Len(wanted'[e.ccb])
      /\ wanted'[e.ccb][e.nr] = wanted[e.ccb][e.nr]
  BY <1>1, <1>2 DEF Longer
<1> QED
  BY <1>2, <1>3, <1>4

\* The order is kept when the queue remains,
LEMMA QueueInvKept ==
    ASSUME QueueType, QueueType', QueueInv, Longer, applierQueue' = applierQueue
    PROVE  QueueInv'
<1>1. \A i \in DOMAIN applierQueue : applierQueue[i] \in Callbacks
  BY LenProperties, ElementOfSeq DEF QueueType
<1> QED
  BY <1>1, PlacedKept DEF QueueInv

\* when it gets a callback behind the others,
LEMMA QueueInvGrows ==
    ASSUME QueueType, QueueType', QueueInv, Longer, NEW e \in Callbacks,
           applierQueue' = Append(applierQueue, e),
           e.owner # None => e.nr = Len(wanted[e.ccb]) + 1, Placed(e, wanted')
    PROVE  QueueInv'
<1>0. /\ DOMAIN applierQueue = 1 .. Len(applierQueue) /\ Len(applierQueue) \in Nat
      /\ \A i \in DOMAIN applierQueue : applierQueue[i] \in Callbacks
  BY LenProperties, ElementOfSeq DEF QueueType
<1>1. \A d \in Ccbs : Len(wanted[d]) \in Nat /\ Len(wanted'[d]) \in Nat
  BY LenProperties DEF QueueType
<1>2. /\ DOMAIN applierQueue' = 1 .. Len(applierQueue) + 1
      /\ \A i \in DOMAIN applierQueue : applierQueue'[i] = applierQueue[i]
      /\ applierQueue'[Len(applierQueue) + 1] = e
  BY Appended DEF QueueType
<1>3. \A i \in DOMAIN applierQueue' :
         \/ i \in DOMAIN applierQueue /\ applierQueue'[i] = applierQueue[i]
         \/ i = Len(applierQueue) + 1 /\ applierQueue'[i] = e
  BY <1>0, <1>2
<1>4. \A i \in DOMAIN applierQueue' : Placed(applierQueue'[i], wanted')
  BY <1>0, <1>3, PlacedKept DEF QueueInv
<1>5. ASSUME NEW i \in DOMAIN applierQueue', NEW j \in DOMAIN applierQueue', i < j,
             applierQueue'[i].ccb = applierQueue'[j].ccb,
             applierQueue'[i].owner # None, applierQueue'[j].owner # None
      PROVE  applierQueue'[i].nr < applierQueue'[j].nr
  <2>1. i \in DOMAIN applierQueue /\ applierQueue'[i] = applierQueue[i]
    BY <1>0, <1>2, <1>5
  <2>2. CASE j \in DOMAIN applierQueue
    BY <1>2, <1>5, <2>1, <2>2 DEF QueueInv
  <2>3. CASE applierQueue'[j] = e
    <3>1. applierQueue[i].nr \in 1 .. Len(wanted[e.ccb])
      BY <1>5, <2>1, <2>3 DEF QueueInv, Placed
    <3>2. Len(wanted[e.ccb]) \in Nat
      BY <1>1, CallbackType
    <3> QED
      BY <1>5, <2>1, <2>3, <3>1, <3>2
  <2> QED
    BY <1>3, <2>2, <2>3
<1> QED
  BY <1>4, <1>5 DEF QueueInv

\* and when the first one leaves it.
LEMMA QueueInvShrinks ==
    ASSUME QueueType, QueueInv, wanted' = wanted, applierQueue # <<>>,
           applierQueue' = Tail(applierQueue), NEW c, c = Head(applierQueue).ccb
    PROVE  /\ QueueInv'
           /\ \A e \in Queued(c)' :
                 e.owner # None /\ Head(applierQueue).owner # None =>
                    e.nr > Head(applierQueue).nr
<1>1. /\ DOMAIN applierQueue = 1 .. Len(applierQueue)
      /\ Len(applierQueue) \in Nat \ {0} /\ Head(applierQueue) = applierQueue[1]
      /\ DOMAIN applierQueue' = 1 .. Len(applierQueue) - 1
      /\ \A i \in DOMAIN applierQueue' :
            i + 1 \in DOMAIN applierQueue /\ applierQueue'[i] = applierQueue[i + 1]
  BY QueueShrinks DEF QueueType
<1>2. \A i, j \in DOMAIN applierQueue' : i < j => i + 1 < j + 1
  BY <1>1
<1>3. QueueInv'
  <2>1. \A i \in DOMAIN applierQueue' : Placed(applierQueue'[i], wanted')
    BY <1>1 DEF QueueInv
  <2>2. ASSUME NEW i \in DOMAIN applierQueue', NEW j \in DOMAIN applierQueue', i < j,
               applierQueue'[i].ccb = applierQueue'[j].ccb,
               applierQueue'[i].owner # None, applierQueue'[j].owner # None
        PROVE  applierQueue'[i].nr < applierQueue'[j].nr
    <3>1. /\ i + 1 \in DOMAIN applierQueue /\ j + 1 \in DOMAIN applierQueue
          /\ i + 1 < j + 1 /\ applierQueue'[i] = applierQueue[i + 1]
          /\ applierQueue'[j] = applierQueue[j + 1]
      BY <1>1, <1>2, <2>2
    <3> QED
      BY <2>2, <3>1 DEF QueueInv
  <2> QED
    BY <2>1, <2>2 DEF QueueInv
<1>4. ASSUME NEW e \in Queued(c)', e.owner # None, Head(applierQueue).owner # None
      PROVE  e.nr > Head(applierQueue).nr
  <2>1. PICK i \in DOMAIN applierQueue' : e = applierQueue'[i]
    BY <1>4 DEF Queued, Elements
  <2>2. e.ccb = c
    BY <1>4 DEF Queued
  <2>3. /\ 1 \in DOMAIN applierQueue /\ i + 1 \in DOMAIN applierQueue /\ 1 < i + 1
        /\ e = applierQueue[i + 1]
    BY <1>1, <2>1
  <2>4. applierQueue[1].nr < applierQueue[i + 1].nr
    BY <1>1, <1>4, <2>2, <2>3 DEF QueueInv
  <2>5. e \in Callbacks /\ Head(applierQueue) \in Callbacks
    BY <1>1, <2>3, ElementOfSeq DEF QueueType
  <2> QED
    BY <1>1, <2>3, <2>4, <2>5, CallbackType
<1> QED
  BY <1>3, <1>4

-----------------------------------------------------------------------------
(***************************************************************************)
(* The invariant, with the types that do not concern the registry.         *)
(***************************************************************************)
Phases == {"none", "open", "vetoed", "prepared", "over"}

CcbType == ccb \in [Ccbs -> [phase : Phases, main : BOOLEAN, applier : BOOLEAN]]
CacheType == cache \in [Ccbs -> CacheEntries] /\ \A c \in Ccbs : CacheOK(cache[c])
RestType == /\ applierError \subseteq Ccbs /\ ops \in 0 .. MaxOps
            /\ faults \subseteq FaultKinds \X (Ccbs \cup {0})

CcbsInv ==
    /\ CcbType /\ QueueType /\ CacheType /\ RestType /\ MapInv /\ QueueInv
    /\ \A c \in Ccbs : CcbInv(c)

\* The type invariant follows from the inductive one.
LEMMA InvTypeOK == RegistryTypeOK /\ CcbsInv => TypeOK
<1> SUFFICES ASSUME RegistryTypeOK, CcbsInv PROVE TypeOK
  OBVIOUS
<1> USE DEF CcbsInv
<1>1. /\ txs \in Seq(Transactions) /\ DOMAIN ccbTxMap \subseteq Nat
      /\ \A c \in DOMAIN ccbTxMap : ccbTxMap[c] \in DOMAIN txs
  BY DEF MapInv, MapOK
<1>2. /\ cache \in [Ccbs -> CacheEntries]
      /\ \A c \in Ccbs : IF cache[c].inUse
                         THEN cache[c].key # None /\ cache[c].moIf # None
                         ELSE cache[c].key = None /\ cache[c].values = <<>>
  BY DEF CacheType, CacheOK
<1> QED
  BY <1>1, <1>2 DEF TypeOK, CcbType, QueueType, RestType, Phases

\* A step that touches one CCB only.
LEMMA OneTouched ==
    ASSUME CcbsInv, NEW c, TxStep(c), \A d \in Ccbs : d # c => Untouched(d),
           c \in Ccbs => CcbInv(c)'
    PROVE  MapInv' /\ \A d \in Ccbs : CcbInv(d)'
<1>1. MapInv'
  BY DEF TxStep
<1>2. ASSUME NEW d \in Ccbs, d # c PROVE CcbInv(d)'
  BY <1>2, OthersKept, UntouchedInv DEF CcbsInv
<1> QED
  BY <1>1, <1>2

\* What PreparedIsFinal says of a step.
FinalStep ==
    \A h \in DOMAIN txs :
        txs[h].state # "open" =>
           \/ /\ txs'[h].got = txs[h].got
              /\ txs[h].state \in Ended => txs'[h] = txs[h]
           \/ \E c \in Ccbs : /\ c \in DOMAIN ccbTxMap /\ ccbTxMap[c] = h
                             /\ <<"late", c>> \in faults'

\* PreparedIsFinal holds in a step that gives a transaction nothing unless it
\* is open or a callback came late.
LEMMA StepIsFinal ==
    ASSUME CcbsInv, NEW c, TxStep(c),
           Mapped(c) => \/ TxOf(c).state = "open"
                        \/ txs'[ccbTxMap[c]].got = TxOf(c).got
                        \/ c \in Ccbs /\ Late(c)'
    PROVE  FinalStep
<1> SUFFICES ASSUME NEW h \in DOMAIN txs, txs[h].state # "open", txs'[h] # txs[h]
             PROVE  \/ /\ txs'[h].got = txs[h].got
                       /\ txs[h].state \in Ended => txs'[h] = txs[h]
                    \/ \E d \in Ccbs : /\ d \in DOMAIN ccbTxMap /\ ccbTxMap[d] = h
                                      /\ <<"late", d>> \in faults'
  BY DEF FinalStep
<1>1. Mapped(c) /\ h = ccbTxMap[c]
  BY DEF TxStep
<1>2. txs[h].state \notin Ended /\ TxOf(c) = txs[h]
  BY <1>1 DEF CcbsInv, MapInv, MapOK, Mapped, TxOf
<1> QED
  BY <1>1, <1>2 DEF Mapped, Late

-----------------------------------------------------------------------------
(***************************************************************************)
(* A callback that works on the transaction of c and its cache, and ends   *)
(* neither.                                                                *)
(***************************************************************************)
Worked(c) ==
    /\ TxStep(c) /\ CacheType'
    /\ \A d \in Ccbs : d # c => cache'[d] = cache[d]
    /\ Mapped(c) => /\ Mapped(c)' /\ ccbTxMap'[c] = ccbTxMap[c]
                    /\ TxOf(c)'.ccb = TxOf(c).ccb /\ TxOf(c)'.state = TxOf(c).state
    /\ ~Mapped(c) /\ Mapped(c)' => TxOf(c)'.ccb = c /\ TxOf(c)'.state = "open"
    /\ cache'[c] = cache[c] \/ Mapped(c)'

\* The transaction t was opened if need be.
Found(c, t) == t = IF Mapped(c) THEN TxOf(c) ELSE [NoTx EXCEPT !.ccb = c]

\* A callback that is refused before it does anything,
LEMMA NothingDone ==
    ASSUME CcbsInv, NEW c \in Ccbs, UNCHANGED <<txs, ccbTxMap, cache>>
    PROVE  Worked(c)
<1>1. TxStep(c)
  BY NothingEnters DEF CcbsInv
<1>2. CacheType'
  BY DEF CcbsInv, CacheType
<1> QED
  BY <1>1, <1>2 DEF Worked, Mapped, TxOf

\* one whose transaction cannot be opened in full,
LEMMA OpenFailed ==
    ASSUME CcbsInv, NEW c \in Ccbs, NEW t \in openTransaction(c, c),
           txs' = t.txs, ccbTxMap' = t.map, cache' = cache
    PROVE  Worked(c)
<1>0. c \in Nat /\ c # 0
  BY ProxyAssumption
<1>1. Entered(c, c, t.txs, t.map)
  BY <1>0, OpenEnters DEF CcbsInv
<1>2. Entered(c, c, txs', ccbTxMap')
  BY <1>1
<1>3. TxStep(c)
  BY <1>0, <1>2, OpenedStep DEF CcbsInv
<1>4. CacheType'
  BY DEF CcbsInv, CacheType
<1>5. [NoTx EXCEPT !.ccb = c].ccb = c /\ [NoTx EXCEPT !.ccb = c].state = "open"
  BY TransactionType
<1>6. Mapped(c) => /\ Mapped(c)' /\ ccbTxMap'[c] = ccbTxMap[c]
                   /\ TxOf(c)' = TxOf(c)
  BY <1>2 DEF Entered, Mapped, TxOf, CcbsInv, MapInv, MapOK
<1>7. ~Mapped(c) /\ Mapped(c)' => TxOf(c)' = [NoTx EXCEPT !.ccb = c]
  BY <1>2 DEF Entered, Mapped, TxOf, MapOK
<1> QED
  BY <1>3, <1>4, <1>5, <1>6, <1>7 DEF Worked

\* one whose transaction is opened or found,
LEMMA OpenFinds ==
    ASSUME CcbsInv, NEW c \in Ccbs, NEW t \in openTransaction(c, c), t.ok
    PROVE  /\ Entered(c, c, t.txs, t.map) /\ c \in DOMAIN t.map /\ t.map[c] = t.h
           /\ t.txs[t.h] \in Transactions /\ Found(c, t.txs[t.h])
<1>0. c \in Nat /\ c # 0
  BY ProxyAssumption
<1>1. Entered(c, c, t.txs, t.map) /\ c \in DOMAIN t.map /\ t.map[c] = t.h
  BY <1>0, OpenEnters DEF CcbsInv
<1>2. t.h \in DOMAIN t.txs /\ t.txs \in Seq(Transactions)
  BY <1>1 DEF Entered, MapOK
<1>3. t.txs[t.h] \in Transactions
  BY <1>2, ElementOfSeq, LenProperties
<1>4. CASE Mapped(c)
  BY <1>1, <1>4 DEF Entered, Mapped, TxOf, Found, CcbsInv, MapInv, MapOK
<1>5. CASE ~Mapped(c)
  BY <1>1, <1>2, <1>5 DEF Entered, Mapped, Found
<1> QED
  BY <1>1, <1>3, <1>4, <1>5

\* and one that gives the transaction a change.
LEMMA GiveWorks ==
    ASSUME CcbsInv, NEW c \in Ccbs, NEW t \in openTransaction(c, c), t.ok,
           NEW s, Gives(t.txs[t.h], s), ccbTxMap' = t.map,
           txs' = [t.txs EXCEPT ![t.h] = s.tx],
           cache' = [cache EXCEPT ![c] = s.cache]
    PROVE  Worked(c) /\ Mapped(c)' /\ TxOf(c)' = s.tx /\ cache'[c] = s.cache
<1>1. /\ Entered(c, c, t.txs, t.map) /\ c \in DOMAIN t.map /\ t.map[c] = t.h
      /\ Found(c, t.txs[t.h])
  BY OpenFinds
<1> DEFINE x == s.tx
           T == t.txs
           M == t.map
<1>2. /\ x \in Transactions /\ x.ccb = T[M[c]].ccb /\ x.state = T[M[c]].state
      /\ ccbTxMap' = M /\ txs' = [T EXCEPT ![M[c]] = x]
  BY <1>1 DEF Gives
<1>3. MapInv /\ Entered(c, c, T, M) /\ c \in DOMAIN M
  BY <1>1 DEF CcbsInv
<1> HIDE DEF x, T, M
<1>4. /\ TxStep(c) /\ Mapped(c)' /\ TxOf(c)' = x
      /\ IF Mapped(c) THEN ccbTxMap'[c] = ccbTxMap[c] /\ T[M[c]] = TxOf(c)
                      ELSE T[M[c]] = [NoTx EXCEPT !.ccb = c]
  BY <1>2, <1>3, GivenStep
<1>5. CacheOK(s.cache) /\ s.cache \in CacheEntries
  BY DEF Gives, CacheOK
<1>6. /\ cache' \in [Ccbs -> CacheEntries] /\ cache'[c] = s.cache
      /\ \A d \in Ccbs : d # c => cache'[d] = cache[d]
  BY <1>5 DEF CcbsInv, CacheType
<1>7. CacheType'
  BY <1>5, <1>6 DEF CcbsInv, CacheType
<1>8. [NoTx EXCEPT !.ccb = c].ccb = c /\ [NoTx EXCEPT !.ccb = c].state = "open"
  BY TransactionType
<1>9. Worked(c)
  BY <1>2, <1>4, <1>6, <1>7, <1>8 DEF Worked
<1> QED
  BY <1>4, <1>6, <1>9 DEF x

\* One change more was given.
LEMMA GivenMore ==
    ASSUME CcbsInv, NEW c \in Ccbs, ~Late(c), NEW t, Found(c, t), Mapped(c)',
           NEW change, Gave(TxOf(c)', cache'[c]) = Append(Gave(t, cache[c]), change)
    PROVE  Given(c)' = Append(Given(c), change)
<1>1. Given(c)' = Gave(TxOf(c)', cache'[c])
  BY DEF Given, Gave, delivered
<1>2. Gave(t, cache[c]) = Given(c)
  <2>1. CASE Mapped(c)
    BY <2>1 DEF Given, Found
  <2>2. CASE ~Mapped(c)
    <3>1. cache[c].values = <<>> /\ CacheOK(cache[c])
      BY <2>2 DEF CcbsInv, CcbInv, LeftInv, CacheType, CacheOK
    <3>2. [NoTx EXCEPT !.ccb = c] \in Transactions /\ [NoTx EXCEPT !.ccb = c].got = <<>>
      BY TransactionType
    <3>3. t \in Transactions /\ t.got = <<>>
      BY <2>2, <3>2 DEF Found
    <3>4. \A k : CacheOK(k) /\ k.values = <<>> => Gave(t, k) = t.got
      BY <3>3, GaveType
    <3> QED
      BY <2>2, <3>1, <3>3, <3>4 DEF Given
  <2> QED
    BY <2>1, <2>2
<1> QED
  BY <1>1, <1>2

\* Nothing of a CCB is committed by that.
LEMMA WorkCommitsNothing ==
    ASSUME CcbsInv, NEW c \in Ccbs, Worked(c), NEW h \in DOMAIN txs',
           txs'[h].ccb = c, txs'[h].state = "committed"
    PROVE  h \in DOMAIN txs /\ txs'[h] = txs[h]
<1>1. h \in DOMAIN txs
  BY ProxyAssumption DEF Worked, TxStep
<1>2. ASSUME txs'[h] # txs[h] PROVE FALSE
  <2>1. Mapped(c) /\ h = ccbTxMap[c]
    BY <1>1, <1>2 DEF Worked, TxStep
  <2>2. TxOf(c)' = txs'[h] /\ TxOf(c) = txs[h]
    BY <2>1 DEF Worked, TxOf
  <2>3. txs[h].state = "committed"
    BY <2>1, <2>2 DEF Worked
  <2> QED
    BY <2>1, <2>3 DEF CcbsInv, MapInv, MapOK, Mapped, Ended
<1> QED
  BY <1>1, <1>2

-----------------------------------------------------------------------------
(***************************************************************************)
(* The flow of the changes: G is given, W is wanted, Q waits.              *)
(***************************************************************************)
\* What a CCB has given is a sequence of changes.
LEMMA GivenType == \A c \in Ccbs : CcbsInv => Given(c) \in Seq(Changes)
<1> SUFFICES ASSUME NEW c \in Ccbs, CcbsInv PROVE Given(c) \in Seq(Changes)
  OBVIOUS
<1>1. CASE ~Mapped(c)
  BY <1>1 DEF Given
<1>2. CASE Mapped(c)
  <2>1. TxOf(c) \in Transactions
    BY <1>2, ElementOfSeq, LenProperties DEF TxOf, Mapped, CcbsInv, MapInv, MapOK
  <2>2. CacheOK(cache[c])
    BY DEF CcbsInv, CacheType
  <2>3. \A t \in Transactions : \A k : CacheOK(k) => Gave(t, k) \in Seq(Changes)
    BY GaveType
  <2> QED
    BY <1>2, <2>1, <2>2, <2>3 DEF Given
<1> QED
  BY <1>1, <1>2

\* Nothing waits: all that is wanted was given,
LEMMA FlowAll ==
    ASSUME NEW G \in Seq(Changes), NEW W \in Seq(Changes), NEW Q,
           FlowOK(G, W, Q), \A e \in Q : e.owner = None
    PROVE  G = W
<1>1. Len(G) \in Nat /\ Len(W) \in Nat
  BY LenProperties
<1>2. Len(G) = Len(W)
  BY <1>1 DEF FlowOK
<1> QED
  BY <1>2, SeqEqual DEF FlowOK

\* and a change that is given at once comes in its turn.
LEMMA FlowBoth ==
    ASSUME NEW G \in Seq(Changes), NEW Q, NEW x \in Changes, \A e \in Q : e.owner = None
    PROVE  FlowOK(Append(G, x), Append(G, x), Q)
<1>1. Len(Append(G, x)) \in Nat
  BY Appended, LenProperties
<1> QED
  BY <1>1 DEF FlowOK

\* A change of a struct attribute waits behind the others.
LEMMA FlowWaits ==
    ASSUME NEW G \in Seq(Changes), NEW W \in Seq(Changes), NEW Q, NEW x \in Changes,
           FlowOK(G, W, Q), NEW f, f.owner # None, f.nr = Len(W) + 1
    PROVE  FlowOK(G, Append(W, x), Q \cup {f})
<1>1. /\ Len(G) \in Nat /\ Len(W) \in Nat /\ Len(Append(W, x)) = Len(W) + 1
      /\ \A n \in 1 .. Len(W) : Append(W, x)[n] = W[n]
  BY Appended, LenProperties
<1> DEFINE V == Append(W, x)
<1> HIDE DEF V
<1>2. Len(V) = Len(W) + 1 /\ \A n \in 1 .. Len(W) : V[n] = W[n]
  BY <1>1 DEF V
<1>3. /\ Len(G) <= Len(W) /\ \A n \in 1 .. Len(G) : W[n] = G[n]
      /\ \A e \in Q : e.owner # None => e.nr > Len(G)
      /\ \A n \in Len(G) + 1 .. Len(W) : \E e \in Q : e.owner # None /\ e.nr = n
  BY DEF FlowOK
<1>4. Len(G) <= Len(V) /\ \A n \in 1 .. Len(G) : V[n] = G[n]
  BY <1>1, <1>2, <1>3
<1>5. \A e \in Q \cup {f} : e.owner # None => e.nr > Len(G)
  BY <1>1, <1>3
<1>6. ASSUME NEW n \in Len(G) + 1 .. Len(V)
      PROVE  \E e \in Q \cup {f} : e.owner # None /\ e.nr = n
  <2>1. n \in Len(G) + 1 .. Len(W) \/ n = Len(W) + 1
    BY <1>1, <1>2
  <2> QED
    BY <1>3, <2>1
<1> QED
  BY <1>4, <1>5, <1>6 DEF FlowOK, V

\* The first one that waits is the next one that is wanted.
LEMMA FlowFirst ==
    ASSUME NEW G \in Seq(Changes), NEW W \in Seq(Changes), NEW Q, NEW x \in Changes,
           FlowOK(G, W, Q), NEW f \in Q, f.owner # None, f.nr \in 1 .. Len(W),
           W[f.nr] = x, NEW R \in SUBSET Q, \A e \in Q : e = f \/ e \in R,
           \A e \in R : e.owner # None => e.nr \in Nat /\ e.nr > f.nr
    PROVE  FlowOK(Append(G, x), W, R)
<1>1. /\ Len(G) \in Nat /\ Len(W) \in Nat /\ Len(Append(G, x)) = Len(G) + 1
      /\ \A n \in 1 .. Len(G) : Append(G, x)[n] = G[n]
      /\ Append(G, x)[Len(G) + 1] = x
  BY Appended, LenProperties
<1> DEFINE H == Append(G, x)
<1> HIDE DEF H
<1>2. /\ Len(H) = Len(G) + 1 /\ \A n \in 1 .. Len(G) : H[n] = G[n]
      /\ H[Len(G) + 1] = x
  BY <1>1 DEF H
<1>3. /\ Len(G) <= Len(W) /\ \A n \in 1 .. Len(G) : W[n] = G[n]
      /\ f.nr > Len(G)
      /\ \A n \in Len(G) + 1 .. Len(W) : \E e \in Q : e.owner # None /\ e.nr = n
  BY DEF FlowOK
<1>4. f.nr = Len(G) + 1
  <2>1. Len(G) + 1 \in Len(G) + 1 .. Len(W)
    BY <1>1, <1>3
  <2>2. PICK e \in Q : e.owner # None /\ e.nr = Len(G) + 1
    BY <1>3, <2>1
  <2>3. CASE e \in R
    BY <1>1, <1>3, <2>2, <2>3
  <2> QED
    BY <2>2, <2>3
<1>5. ASSUME NEW n \in 1 .. Len(H) PROVE W[n] = H[n]
  <2>1. n \in 1 .. Len(G) \/ n = Len(G) + 1
    BY <1>1, <1>2
  <2> QED
    BY <1>2, <1>3, <1>4, <2>1
<1>6. ASSUME NEW n \in Len(H) + 1 .. Len(W)
      PROVE  \E e \in R : e.owner # None /\ e.nr = n
  <2>1. n \in Len(G) + 1 .. Len(W) /\ n # f.nr
    BY <1>1, <1>2, <1>4
  <2> QED
    BY <1>3, <2>1
<1>7. Len(H) <= Len(W)
  BY <1>1, <1>2, <1>4
<1>8. \A e \in R : e.owner # None => e.nr > Len(H)
  BY <1>2, <1>4
<1> QED
  BY <1>5, <1>6, <1>7, <1>8 DEF FlowOK, H

-----------------------------------------------------------------------------
(***************************************************************************)
(* The callbacks of the main implementer.                                  *)
(***************************************************************************)
\* What waits, while a callback of the main implementer is dispatched, is a
\* fault.
LEMMA LateWaits ==
    ASSUME QueueType, NEW c, lateFaults(c) \subseteq faults', ~Late(c)'
    PROVE  Waiting(c) = {} /\ \A e \in Queued(c) : e.owner = None
<1>1. Waiting(c) = {}
  <2> SUFFICES ASSUME NEW e \in Waiting(c) PROVE FALSE
    OBVIOUS
  <2>1. PICK i \in DOMAIN applierQueue : e = applierQueue[i]
    BY DEF Waiting, Queued, Elements
  <2>2. applierQueue[i].ccb = c /\ applierQueue[i].path # None
    BY <2>1 DEF Waiting, Queued
  <2>3. <<"late", c>> \in lateFaults(c)
    BY <2>2 DEF lateFaults
  <2> QED
    BY <2>3 DEF Late
<1> QED
  BY <1>1, QueuedType, CallbackType DEF Waiting

\* Faults only come.
LEMMA FaultsGrow ==
    ASSUME faults \subseteq faults', NEW c
    PROVE  /\ Late(c) => Late(c)'
           /\ Uninvolved(c) => Uninvolved(c)'
           /\ Clean(c)' => Clean(c) /\ ~Late(c)' /\ ~Late(c)
  BY DEF Late, Uninvolved, Clean, FaultKinds

MainDone(c, change) ==
    /\ Worked(c)
    /\ ccb'[c].phase \in {"open", "vetoed"} /\ ccb'[c].main
    /\ ccb'[c].applier = ccb[c].applier
    /\ \A d \in Ccbs : d # c => ccb'[d] = ccb[d] /\ wanted'[d] = wanted[d]
    /\ faults \subseteq faults' /\ lateFaults(c) \subseteq faults'
    /\ UNCHANGED <<applierQueue, applierError, immFaults>>
    /\ ccb'[c].phase = "open" /\ Clean(c)' =>
          /\ c \notin applierError /\ change \in Changes
          /\ wanted'[c] = Append(wanted[c], change)
          /\ Given(c)' = Append(Given(c), change)

\* A callback of the main implementer keeps the invariants of all CCBs.
LEMMA MainInv ==
    ASSUME CcbsInv, NEW c \in Ccbs, ccb[c].phase \in {"none", "open"},
           NEW change, MainDone(c, change)
    PROVE  MapInv' /\ FinalStep /\ \A d \in Ccbs : CcbInv(d)'
<1> USE DEF MainDone
<1>0. /\ Late(c) => Late(c)'
      /\ Clean(c)' => Clean(c) /\ ~Late(c)' /\ ~Late(c)
  BY FaultsGrow
<1>1. Queued(c)' = Queued(c)
  BY DEF Queued
<1>2. CcbInv(c) /\ QueueType
  BY DEF CcbsInv
<1>3. WaitInv(c)'
  BY <1>1, <1>2 DEF CcbInv, WaitInv
<1>4. PreparedInv(c)'
  BY <1>2 DEF CcbInv, PreparedInv, Worked
<1>5. LeftInv(c)'
  BY <1>0, <1>2 DEF CcbInv, LeftInv, Worked
<1>6. FlowInv(c)'
  <2> SUFFICES ASSUME Clean(c)', ccb'[c].phase = "open"
               PROVE  Flow(c)'
    BY DEF FlowInv
  <2>1. FlowOK(Given(c), wanted[c], Queued(c))
    BY <1>0, <1>2 DEF CcbInv, FlowInv, Flow
  <2>2. \A e \in Queued(c) : e.owner = None
    BY <1>0, <1>2, LateWaits
  <2>3. Given(c) \in Seq(Changes) /\ wanted[c] \in Seq(Changes)
    BY GivenType DEF CcbsInv, QueueType
  <2>4. Given(c) = wanted[c]
    BY <2>1, <2>2, <2>3, FlowAll
  <2>5. /\ change \in Changes /\ Given(c)' = Append(Given(c), change)
        /\ wanted'[c] = Append(Given(c), change)
    BY <2>4
  <2>6. \A G \in Seq(Changes) : \A Q : (\A e \in Q : e.owner = None) =>
           FlowOK(Append(G, change), Append(G, change), Q)
    BY <2>5, FlowBoth
  <2>7. FlowOK(Given(c)', wanted'[c], Queued(c))
    BY <2>2, <2>3, <2>5, <2>6
  <2> QED
    BY <1>1, <2>7 DEF Flow
<1>7. CommittedInv(c)'
  <2> SUFFICES ASSUME NEW h \in DOMAIN txs', txs'[h].ccb = c, txs'[h].state = "committed"
               PROVE  FALSE
    BY DEF CommittedInv
  <2>1. h \in DOMAIN txs /\ txs'[h] = txs[h]
    BY WorkCommitsNothing
  <2> QED
    BY <1>2, <2>1 DEF CcbInv, CommittedInv
<1>8. CcbInv(c)'
  BY <1>3, <1>4, <1>5, <1>6, <1>7 DEF CcbInv
<1>9. ASSUME NEW d \in Ccbs, d # c PROVE Untouched(d)
  BY <1>9 DEF Untouched, Worked, Queued
<1>10. Mapped(c) => TxOf(c).state = "open"
  <2>1. Mapped(c) => TxOf(c) \in Transactions /\ TxOf(c).state \notin Ended
    BY ElementOfSeq, LenProperties DEF TxOf, Mapped, CcbsInv, MapInv, MapOK
  <2>2. Mapped(c) => TxOf(c).state \in States /\ TxOf(c).state # "prepared"
    BY <1>2, <2>1, TransactionType DEF CcbInv, PreparedInv
  <2> QED
    BY <2>1, <2>2 DEF States, Ended
<1>11. FinalStep
  BY <1>10, StepIsFinal DEF Worked
<1> QED
  BY <1>8, <1>9, <1>11, OneTouched DEF Worked

\* Who serves an object, and a path.
LEMMA ServingType ==
    ASSUME RegistryTypeOK
    PROVE  /\ \A kind, o : o \in Objects => serving(kind, o) \in Components \cup {None}
           /\ \A path \in Paths : servingPath(path) \in Components \cup {None}
<1>1. \A o \in Objects : o \in Regs /\ ClassOf[o] \in Regs
  BY RegistryAssumption DEF Objects
<1>2. \A r \in Regs : registered[r] \in Components \cup {None}
  BY DEF RegistryTypeOK
<1>3. \A kind, o : o \in Objects => serving(kind, o) \in Components \cup {None}
  BY <1>1, <1>2 DEF serving, servingObject
<1>4. ASSUME NEW path \in Paths PROVE servingPath(path) \in Components \cup {None}
  <2>1. /\ path \in Regs \X CtClasses
        /\ <<ClassOf[path[1]], path[2]>> \in Regs \X CtClasses
    BY <1>1 DEF Paths, Objects
  <2>2. \A p \in Regs \X CtClasses : ctOwner[p] \in Components \cup {None}
    BY DEF RegistryTypeOK
  <2> QED
    BY <2>1, <2>2 DEF servingPath
<1> QED
  BY <1>3, <1>4

\* The phase of a CCB after a callback of the main implementer.
LEMMA MainPhase ==
    ASSUME CcbType, NEW c \in Ccbs, NEW phase \in Phases, mainPhase(c, phase)
    PROVE  /\ CcbType' /\ ccb'[c].phase = phase /\ ccb'[c].main
           /\ ccb'[c].applier = ccb[c].applier
           /\ \A d \in Ccbs : d # c => ccb'[d] = ccb[d]
  BY DEF CcbType, mainPhase

\* The faults are faults.
LEMMA FaultType ==
    ASSUME NEW c \in Ccbs, NEW k, NEW path, NEW change
    PROVE  /\ lateFaults(c) \subseteq FaultKinds \X (Ccbs \cup {0})
           /\ cacheFaults(c, k, path, change) \subseteq FaultKinds \X (Ccbs \cup {0})
           /\ \A f \in FaultKinds : <<f, c>> \in FaultKinds \X (Ccbs \cup {0})
           /\ cacheFaults(c, k, path, change) # {} =>
                 \E f \in {"clear", "moIf"} : <<f, c>> \in cacheFaults(c, k, path, change)
  BY DEF lateFaults, cacheFaults, FaultKinds

\* What the main implementer is told of.
Kinds == {"create", "delete", "modify", "clear"}

\* create, delete, modify and the clearing of a struct attribute.
LEMMA MainStep ==
    ASSUME RegistryTypeOK, CcbsInv, NEW c \in Ccbs, NEW kind \in Kinds,
           NEW o \in Objects, NEW path, kind = "clear" => path \in Paths,
           mainCallback(c, kind, o, path)
    PROVE  CcbsInv' /\ FinalStep
<1> DEFINE owner == serving(kind, o)
           change == <<IF kind = "clear" THEN kind ELSE "object", owner>>
           do(t, k) == IF kind = "clear" THEN setStructAttribute(t, k, path, change)
                                         ELSE sendChange(t, k, change)
           new == IF kind = "clear" THEN cacheFaults(c, cache[c], path, change) ELSE {}
<1>1. owner \in Components \cup {None} /\ (owner # None => change \in Changes)
  BY ServingType DEF Changes
<1>2. /\ ccb[c].phase \in {"none", "open"} /\ ops < MaxOps /\ ops' = ops + 1
      /\ wanted' = IF owner = None THEN wanted
                   ELSE [wanted EXCEPT ![c] = Append(@, change)]
      /\ UNCHANGED <<registryVars, applierQueue, applierError>>
  BY DEF mainCallback
<1>3. \/ /\ mainPhase(c, "vetoed") /\ faults' = faults \cup lateFaults(c)
         /\ UNCHANGED <<txs, ccbTxMap, cache>>
      \/ /\ mainPhase(c, "open")
         /\ \E fault \in missed(kind, owner) :
               faults' = faults \cup lateFaults(c) \cup {<<fault, c>>}
         /\ UNCHANGED <<txs, ccbTxMap, cache>>
      \/ /\ ~getCcbApplierError(c) /\ owner # None
         /\ \E t \in openTransaction(c, c) :
              /\ ccbTxMap' = t.map
              /\ \/ /\ ~t.ok
                    /\ txs' = t.txs /\ mainPhase(c, "vetoed")
                    /\ faults' = faults \cup lateFaults(c)
                    /\ UNCHANGED cache
                 \/ /\ t.ok
                    /\ \E s \in do(t.txs[t.h], cache[c]) :
                         /\ txs' = [t.txs EXCEPT ![t.h] = s.tx]
                         /\ cache' = [cache EXCEPT ![c] = s.cache]
                         /\ mainPhase(c, IF s.ok THEN "open" ELSE "vetoed")
                    /\ faults' = faults \cup lateFaults(c) \cup new
  BY Zenon DEF mainCallback
<1> HIDE DEF owner, change, do, new
<1>4. new \subseteq FaultKinds \X (Ccbs \cup {0}) /\ (new # {} => \E f \in {"clear", "moIf"} : <<f, c>> \in new)
  BY FaultType DEF new
<1>5. /\ faults \subseteq faults' /\ lateFaults(c) \subseteq faults'
      /\ faults' \subseteq FaultKinds \X (Ccbs \cup {0})
  <2>1. /\ faults \subseteq FaultKinds \X (Ccbs \cup {0})
        /\ lateFaults(c) \subseteq FaultKinds \X (Ccbs \cup {0})
    BY FaultType DEF CcbsInv, RestType
  <2>2. \A fault \in missed(kind, owner) : <<fault, c>> \in FaultKinds \X (Ccbs \cup {0})
    BY DEF missed, FaultKinds
  <2> QED
    BY <1>3, <1>4, <2>1, <2>2
<1>6. RestType'
  <2>1. ops' \in 0 .. MaxOps
    BY <1>2, ProxyAssumption DEF CcbsInv, RestType
  <2> QED
    BY <1>2, <1>5, <2>1 DEF CcbsInv, RestType
<1>7. /\ Longer /\ wanted' \in [Ccbs -> Seq(Changes)]
      /\ owner # None => wanted'[c] = Append(wanted[c], change)
      /\ \A d \in Ccbs : d # c => wanted'[d] = wanted[d]
  <2>0. wanted \in [Ccbs -> Seq(Changes)]
    BY DEF CcbsInv, QueueType
  <2>1. CASE owner = None
    BY <1>2, <2>0, <2>1, WantedKept
  <2>2. CASE owner # None
    BY <1>1, <1>2, <2>0, <2>2, WantedMore
  <2> QED
    BY <2>1, <2>2
<1>8. QueueType' /\ QueueInv'
  <2>1. QueueType'
    BY <1>2, <1>7 DEF CcbsInv, QueueType
  <2> QED
    BY <1>2, <1>7, <2>1, QueueInvKept DEF CcbsInv
<1>9. PICK phase \in {"open", "vetoed"} : mainPhase(c, phase)
  BY <1>3
<1>10. /\ CcbType' /\ ccb'[c].phase = phase /\ ccb'[c].main
       /\ ccb'[c].applier = ccb[c].applier
       /\ \A d \in Ccbs : d # c => ccb'[d] = ccb[d]
  BY <1>9, MainPhase DEF CcbsInv, Phases
<1>11. /\ Worked(c)
       /\ phase = "open" /\ Clean(c)' =>
             c \notin applierError /\ owner # None /\ Given(c)' = Append(Given(c), change)
  <2>1. CASE mainPhase(c, "vetoed") /\ UNCHANGED <<txs, ccbTxMap, cache>>
    <3>1. phase = "vetoed"
      BY <1>10, <2>1, MainPhase DEF CcbsInv, Phases
    <3> QED
      BY <2>1, <3>1, NothingDone
  <2>2. CASE /\ UNCHANGED <<txs, ccbTxMap, cache>>
             /\ \E fault \in missed(kind, owner) :
                   faults' = faults \cup lateFaults(c) \cup {<<fault, c>>}
    <3>1. ~Clean(c)'
      BY <2>2 DEF Clean, FaultKinds, missed
    <3> QED
      BY <2>2, <3>1, NothingDone
  <2>3. ASSUME NEW t \in openTransaction(c, c), ccbTxMap' = t.map,
               txs' = t.txs, mainPhase(c, "vetoed"), UNCHANGED cache
        PROVE  <1>11!1 /\ phase # "open"
    <3>1. phase = "vetoed"
      BY <1>10, <2>3, MainPhase DEF CcbsInv, Phases
    <3> QED
      BY <2>3, <3>1, OpenFailed
  <2>4. ASSUME ~getCcbApplierError(c), owner # None,
               NEW t \in openTransaction(c, c), ccbTxMap' = t.map, t.ok,
               NEW s \in do(t.txs[t.h], cache[c]),
               txs' = [t.txs EXCEPT ![t.h] = s.tx],
               cache' = [cache EXCEPT ![c] = s.cache],
               mainPhase(c, IF s.ok THEN "open" ELSE "vetoed"),
               faults' = faults \cup lateFaults(c) \cup new
        PROVE  /\ Worked(c)
               /\ phase = "open" /\ Clean(c)' =>
                     c \notin applierError /\ Given(c)' = Append(Given(c), change)
    <3>1. t.txs[t.h] \in Transactions /\ Found(c, t.txs[t.h])
      BY <2>4, OpenFinds
    <3>2. CacheOK(cache[c]) /\ change \in Changes
      BY <1>1, <2>4 DEF CcbsInv, CacheType
    <3>3. /\ Gives(t.txs[t.h], s)
          /\ s.ok /\ new = {} =>
                Gave(s.tx, s.cache) = Append(Gave(t.txs[t.h], cache[c]), change)
      <4> SUFFICES ASSUME NEW x, x = t.txs[t.h], NEW k, k = cache[c]
                   PROVE  /\ Gives(x, s)
                          /\ s.ok /\ new = {} => Gave(s.tx, s.cache) = Append(Gave(x, k), change)
        OBVIOUS
      <4>1. CASE kind = "clear"
        <5>1. s \in setStructAttribute(x, k, path, change) /\ path \in Paths
          BY <2>4, <4>1 DEF do
        <5>2. new = cacheFaults(c, k, path, change)
          BY <4>1 DEF new
        <5> QED
          BY <3>1, <3>2, <5>1, <5>2, SetStructDoes
      <4>2. CASE kind # "clear"
        <5>1. s \in sendChange(x, k, change)
          BY <2>4, <4>2 DEF do
        <5> QED
          BY <3>1, <3>2, <5>1, SendChangeDoes
      <4> QED
        BY <4>1, <4>2
    <3>4. Worked(c) /\ Mapped(c)' /\ TxOf(c)' = s.tx /\ cache'[c] = s.cache
      BY <2>4, <3>3, GiveWorks
    <3>5. ASSUME phase = "open", Clean(c)'
          PROVE  c \notin applierError /\ Given(c)' = Append(Given(c), change)
      <4>1. s.ok
        <5>1. s.ok \in BOOLEAN
          BY <3>3 DEF Gives
        <5>2. CASE ~s.ok
          <6>1. mainPhase(c, "vetoed")
            BY <2>4, <5>2
          <6> QED
            BY <1>10, <3>5, <6>1, MainPhase DEF CcbsInv, Phases
        <5> QED
          BY <5>1, <5>2
      <4>2. new = {}
        BY <1>4, <2>4, <3>5 DEF Clean, FaultKinds
      <4>3. ~Late(c)
        BY <1>5, <3>5, FaultsGrow
      <4>4. Gave(TxOf(c)', cache'[c]) = Append(Gave(t.txs[t.h], cache[c]), change)
        BY <3>3, <3>4, <4>1, <4>2
      <4>5. Given(c)' = Append(Given(c), change)
        <5> SUFFICES ASSUME NEW x, x = t.txs[t.h], NEW ch, ch = change
                     PROVE  Given(c)' = Append(Given(c), ch)
          OBVIOUS
        <5> QED
          BY <3>1, <3>4, <4>3, <4>4, GivenMore
      <4> QED
        BY <2>4, <4>5 DEF getCcbApplierError
    <3> QED
      BY <3>4, <3>5
  <2> QED
    BY <1>3, <2>1, <2>2, <2>3, <2>4
<1>12. MainDone(c, change)
  BY <1>1, <1>2, <1>5, <1>7, <1>9, <1>10, <1>11 DEF MainDone, registryVars
<1>13. MapInv' /\ FinalStep /\ \A d \in Ccbs : CcbInv(d)'
  <2> SUFFICES ASSUME NEW ch, ch = change
               PROVE  MapInv' /\ FinalStep /\ \A d \in Ccbs : CcbInv(d)'
    OBVIOUS
  <2> QED
    BY <1>2, <1>12, MainInv
<1> QED
  BY <1>6, <1>8, <1>10, <1>11, <1>13 DEF CcbsInv, Worked

\* completed: what is cached is sent and the transaction is prepared.
LEMMA CompletedStep ==
    ASSUME CcbsInv, NEW c \in Ccbs, handleCcbCompleted(c)
    PROVE  CcbsInv' /\ FinalStep
<1>1. /\ ccb[c].phase = "open" /\ handleCcbCompletedDone(c)
      /\ faults' = faults \cup lateFaults(c)
      /\ UNCHANGED <<registryVars, applierQueue, applierError, wanted, ops>>
  BY DEF handleCcbCompleted
<1>2. /\ faults \subseteq faults' /\ lateFaults(c) \subseteq faults' /\ RestType'
  BY <1>1, FaultType DEF CcbsInv, RestType
<1>3. QueueType' /\ QueueInv'
  BY <1>1 DEF CcbsInv, QueueType, QueueInv
<1>4. /\ Late(c) => Late(c)'
      /\ Clean(c)' => Clean(c) /\ ~Late(c)' /\ ~Late(c)
  BY <1>2, FaultsGrow
<1>5. /\ Queued(c)' = Queued(c) /\ Waiting(c)' = Waiting(c)
      /\ ~Late(c)' => Waiting(c) = {} /\ \A e \in Queued(c) : e.owner = None
  BY <1>1, <1>2, LateWaits DEF Queued, Waiting, CcbsInv
<1>6. PICK phase \in {"vetoed", "prepared"} : mainPhase(c, phase)
  BY <1>1 DEF handleCcbCompletedDone
<1>7. /\ CcbType' /\ ccb'[c].phase = phase /\ ccb'[c].main
      /\ ccb'[c].applier = ccb[c].applier
      /\ \A d \in Ccbs : d # c => ccb'[d] = ccb[d]
  BY <1>6, MainPhase DEF CcbsInv, Phases
<1>8. \A ph \in Phases : mainPhase(c, ph) => phase = ph
  BY <1>7, MainPhase DEF CcbsInv
<1>9. /\ CcbInv(c) /\ CacheOK(cache[c])
      /\ Mapped(c) => TxOf(c) \in Transactions /\ TxOf(c).state \notin {"prepared", "committed", "aborted"}
  <2>1. Mapped(c) => TxOf(c) \in Transactions
    BY ElementOfSeq, LenProperties DEF TxOf, Mapped, CcbsInv, MapInv, MapOK
  <2>2. Mapped(c) => TxOf(c).state \notin Ended
    BY DEF TxOf, Mapped, CcbsInv, MapInv, MapOK
  <2> QED
    BY <1>1, <2>1, <2>2 DEF CcbsInv, CcbInv, PreparedInv, Ended, CacheType
\* what becomes of the transaction and of the cache
<1> DEFINE
      Same == UNCHANGED <<txs, ccbTxMap, cache>>
      Sent == /\ Mapped(c) /\ Mapped(c)' /\ phase = "prepared" /\ ~cache'[c].inUse
              /\ TxOf(c)'.state = "prepared" /\ TxOf(c)'.ccb = TxOf(c).ccb
              /\ TxOf(c)'.got = Gave(TxOf(c), cache[c]) /\ c \notin applierError
              /\ ccbTxMap' = ccbTxMap
      Gone == /\ Mapped(c) /\ ~Mapped(c)' /\ phase = "vetoed" /\ ~cache'[c].inUse
              /\ txs'[ccbTxMap[c]].state = "aborted"
<1>10. /\ TxStep(c) /\ CacheType' /\ \A d \in Ccbs : d # c => cache'[d] = cache[d]
       /\ \/ Same /\ (phase = "vetoed" \/ (~Mapped(c) /\ c \notin applierError))
          \/ Sent
          \/ Gone
  <2>1. CASE Same /\ (phase = "vetoed" \/ (~Mapped(c) /\ c \notin applierError))
    BY <2>1, NothingDone DEF CcbsInv, Worked
  <2>2. ASSUME c \notin applierError, Mapped(c),
               NEW s \in sendCache(txs[ccbTxMap[c]], cache[c]), s.ok,
               \/ /\ txs' = [txs EXCEPT ![ccbTxMap[c]] = [s.tx EXCEPT !.state = "prepared"]]
                  /\ cache' = [cache EXCEPT ![c] = s.cache]
                  /\ mainPhase(c, "prepared") /\ UNCHANGED ccbTxMap
               \/ /\ txs' = [txs EXCEPT ![ccbTxMap[c]] = [s.tx EXCEPT !.state = "aborted"]]
                  /\ cache' = [cache EXCEPT ![c] = cleanCcbId(s.cache)]
                  /\ ccbTxMap' = removeCcbTransaction(ccbTxMap, c)
                  /\ mainPhase(c, "vetoed")
        PROVE  /\ TxStep(c) /\ CacheType' /\ \A d \in Ccbs : d # c => cache'[d] = cache[d]
               /\ Sent \/ Gone
    <3>0. \A t \in Transactions : \A k : CacheOK(k) =>
             \A r \in sendCache(t, k) : CacheSent(t, k, r)
      BY SendCacheDoes
    <3>1. SentAll(TxOf(c), cache[c], s.tx, s.cache)
      BY <1>9, <2>2, <3>0 DEF CacheSent, TxOf
    <3>2. /\ s.tx \in Transactions /\ s.tx.ccb = TxOf(c).ccb
          /\ s.tx.got = Gave(TxOf(c), cache[c]) /\ CacheOK(s.cache) /\ ~s.cache.inUse
      BY <3>1 DEF SentAll
    <3>3. CASE /\ txs' = [txs EXCEPT ![ccbTxMap[c]] = [s.tx EXCEPT !.state = "prepared"]]
               /\ cache' = [cache EXCEPT ![c] = s.cache]
               /\ mainPhase(c, "prepared") /\ UNCHANGED ccbTxMap
      <4> DEFINE x == [s.tx EXCEPT !.state = "prepared"]
      <4>1. /\ x \in Transactions /\ x.ccb = TxOf(c).ccb /\ x.state = "prepared"
            /\ x.got = Gave(TxOf(c), cache[c])
        BY <3>2 DEF Transactions, States
      <4>2. txs' = [txs EXCEPT ![ccbTxMap[c]] = x] /\ ccbTxMap' = ccbTxMap
        BY <3>3
      <4> HIDE DEF x
      <4>3. TxStep(c) /\ TxOf(c)' = x
        BY <2>2, <4>1, <4>2, PreparedStep DEF CcbsInv
      <4>4. /\ CacheType' /\ cache'[c] = s.cache
            /\ \A d \in Ccbs : d # c => cache'[d] = cache[d]
        BY <3>2, <3>3 DEF CcbsInv, CacheType, CacheOK
      <4>5. phase = "prepared"
        BY <1>8, <3>3 DEF Phases
      <4>6. Mapped(c)'
        BY <2>2, <4>2 DEF Mapped
      <4> QED
        BY <2>2, <3>2, <4>1, <4>2, <4>3, <4>4, <4>5, <4>6
    <3>4. CASE /\ txs' = [txs EXCEPT ![ccbTxMap[c]] = [s.tx EXCEPT !.state = "aborted"]]
               /\ cache' = [cache EXCEPT ![c] = cleanCcbId(s.cache)]
               /\ ccbTxMap' = removeCcbTransaction(ccbTxMap, c)
               /\ mainPhase(c, "vetoed")
      <4> DEFINE x == [s.tx EXCEPT !.state = "aborted"]
                 k == cleanCcbId(s.cache)
      <4>1. x \in Transactions /\ x.ccb = TxOf(c).ccb /\ x.state = "aborted"
        BY <3>2 DEF Transactions, States
      <4>2. txs' = [txs EXCEPT ![ccbTxMap[c]] = x] /\ cache' = [cache EXCEPT ![c] = k]
        BY <3>4
      <4>3. CacheOK(k) /\ ~k.inUse
        BY <3>2, EmptySeq DEF CacheOK, CacheEntries, cleanCcbId
      <4> HIDE DEF x, k
      <4>4. TxStep(c) /\ ~Mapped(c)' /\ txs'[ccbTxMap[c]] = x
        BY <2>2, <3>4, <4>1, <4>2, EndedStep DEF CcbsInv, Ended
      <4>5. /\ CacheType' /\ cache'[c] = k
            /\ \A d \in Ccbs : d # c => cache'[d] = cache[d]
        BY <4>2, <4>3 DEF CcbsInv, CacheType, CacheOK
      <4>6. phase = "vetoed"
        BY <1>8, <3>4 DEF Phases
      <4> QED
        BY <2>2, <4>1, <4>3, <4>4, <4>5, <4>6
    <3> QED
      BY <2>2, <3>3, <3>4
  <2>3. \/ Same /\ mainPhase(c, "vetoed")
        \/ Same /\ ~Mapped(c) /\ c \notin applierError
        \/ /\ c \notin applierError /\ Mapped(c)
           /\ \E s \in sendCache(txs[ccbTxMap[c]], cache[c]) :
                 s.ok /\ \/ /\ txs' = [txs EXCEPT ![ccbTxMap[c]] =
                                          [s.tx EXCEPT !.state = "prepared"]]
                            /\ cache' = [cache EXCEPT ![c] = s.cache]
                            /\ mainPhase(c, "prepared") /\ UNCHANGED ccbTxMap
                         \/ /\ txs' = [txs EXCEPT ![ccbTxMap[c]] =
                                          [s.tx EXCEPT !.state = "aborted"]]
                            /\ cache' = [cache EXCEPT ![c] = cleanCcbId(s.cache)]
                            /\ ccbTxMap' = removeCcbTransaction(ccbTxMap, c)
                            /\ mainPhase(c, "vetoed")
    BY <1>1, Zenon DEF handleCcbCompletedDone, getCcbApplierError, Mapped
  <2> QED
    BY <1>8, <2>1, <2>2, <2>3 DEF Phases
<1>11. WaitInv(c)'
  BY <1>1, <1>5, <1>7, <1>9 DEF CcbInv, WaitInv
<1>12. PreparedInv(c)'
  BY <1>7, <1>9, <1>10 DEF PreparedInv, Mapped, TxOf
<1>13. LeftInv(c)'
  <2>1. CASE Same
    <3>1. cache'[c] = cache[c] /\ Mapped(c)' = Mapped(c)
      BY <2>1 DEF Mapped
    <3>2. phase = "vetoed" \/ ~Mapped(c) \/ ~cache[c].inUse
      BY <1>10, <2>1 DEF Mapped
    <3> QED
      BY <1>4, <1>7, <1>9, <3>1, <3>2 DEF CcbInv, LeftInv
  <2>2. CASE Sent \/ Gone
    BY <1>7, <2>2 DEF LeftInv
  <2> QED
    BY <1>10, <2>1, <2>2
<1>14. FlowInv(c)'
  <2> SUFFICES ASSUME Clean(c)', ccb'[c].phase = "prepared"
               PROVE  Done(c)' = wanted'[c]
    BY <1>7 DEF FlowInv
  <2>1. \/ Sent
        \/ Same /\ ~Mapped(c) /\ c \notin applierError
    BY <1>7, <1>10 DEF Mapped
  <2>2. FlowOK(Given(c), wanted[c], Queued(c))
    BY <1>1, <1>4, <1>9, <2>1 DEF CcbInv, FlowInv, Flow
  <2>3. \A e \in Queued(c) : e.owner = None
    BY <1>4, <1>5
  <2>4. Given(c) \in Seq(Changes) /\ wanted[c] \in Seq(Changes)
    BY GivenType DEF CcbsInv, QueueType
  <2>5. Given(c) = wanted[c]
    BY <2>2, <2>3, <2>4, FlowAll
  <2>6. Done(c)' = Given(c)
    BY <2>1 DEF Done, Given, Mapped
  <2> QED
    BY <1>1, <2>5, <2>6
<1>15. CommittedInv(c)'
  <2> SUFFICES ASSUME NEW h \in DOMAIN txs', txs'[h].ccb = c, txs'[h].state = "committed"
               PROVE  FALSE
    BY DEF CommittedInv
  <2>1. h \in DOMAIN txs
    BY <1>10, ProxyAssumption DEF TxStep
  <2>2. txs'[h] = txs[h]
    <3> SUFFICES ASSUME txs'[h] # txs[h] PROVE FALSE
      OBVIOUS
    <3>1. Mapped(c) /\ h = ccbTxMap[c]
      BY <1>10, <2>1 DEF TxStep
    <3>2. Sent => TxOf(c)' = txs'[h]
      BY <3>1 DEF TxOf
    <3> QED
      BY <1>10, <3>1, <3>2
  <2> QED
    BY <1>1, <1>9, <2>1, <2>2 DEF CcbInv, CommittedInv
<1>16. CcbInv(c)'
  BY <1>11, <1>12, <1>13, <1>14, <1>15 DEF CcbInv
<1>17. ASSUME NEW d \in Ccbs, d # c PROVE Untouched(d)
  BY <1>1, <1>2, <1>7, <1>10, <1>17 DEF Untouched, Queued, registryVars
<1>18. MapInv' /\ \A d \in Ccbs : CcbInv(d)'
  BY <1>10, <1>16, <1>17, OneTouched
<1>19. Mapped(c) => TxOf(c).state = "open"
  BY <1>9, TransactionType DEF States
<1>20. FinalStep
  BY <1>10, <1>19, StepIsFinal
<1> QED
  BY <1>2, <1>3, <1>7, <1>10, <1>18, <1>20 DEF CcbsInv

-----------------------------------------------------------------------------
(***************************************************************************)
(* The end of a CCB.                                                       *)
(***************************************************************************)
\* The step that ends a CCB, by apply or by abort, with the transaction ended
\* or left behind.
LEMMA OverStep ==
    ASSUME CcbsInv, NEW c \in Ccbs, ccbOver(c), TxStep(c), CacheType',
           \A d \in Ccbs : d # c => cache'[d] = cache[d],
           UNCHANGED <<registryVars, applierError, wanted, ops>>,
           faults \subseteq faults', faults' \subseteq FaultKinds \X (Ccbs \cup {0}),
           Waiting(c) # {} => IF ccb[c].main THEN Late(c)' ELSE Uninvolved(c)',
           \/ ~Mapped(c)' /\ (~Late(c)' => ~cache'[c].inUse)
           \/ /\ Uninvolved(c)' /\ UNCHANGED <<txs, ccbTxMap, cache>>
              /\ ccb[c].phase = "open",
           \A h \in DOMAIN txs' : txs'[h].ccb = c /\ txs'[h].state = "committed" =>
              (Clean(c)' => txs'[h].got = wanted[c]),
           Mapped(c) => txs'[ccbTxMap[c]].got = TxOf(c).got
    PROVE  CcbsInv' /\ FinalStep
<1> DEFINE e == [ccb |-> c, path |-> None, owner |-> None, nr |-> 0]
<1>1. e \in Callbacks /\ e.ccb = c /\ e.path = None /\ e.owner = None
  BY DEF Callbacks
<1>2. /\ CcbType' /\ ccb'[c].phase = "over" /\ ccb'[c].main = ccb[c].main
      /\ ccb'[c].applier = ccb[c].applier
      /\ \A d \in Ccbs : d # c => ccb'[d] = ccb[d]
  BY DEF ccbOver, CcbsInv, CcbType, Phases
<1>3. applierQueue' = IF ~ccb[c].applier THEN applierQueue ELSE Append(applierQueue, e)
  BY DEF ccbOver
<1> HIDE DEF e
<1>4. /\ QueueType' /\ QueueInv' /\ Waiting(c)' = Waiting(c)
      /\ \A d \in Ccbs : d # c => Queued(d)' = Queued(d)
      /\ ccb[c].applier => Queued(c)' # {}
      /\ Queued(c)' # {} => ccb[c].applier
  <2>0. CcbInv(c) /\ Longer /\ wanted' \in [Ccbs -> Seq(Changes)]
    BY WantedKept DEF CcbsInv, QueueType
  <2>1. CASE ~ccb[c].applier
    <3>1. applierQueue' = applierQueue
      BY <1>3, <2>1
    <3> QED
      BY <2>0, <2>1, <3>1 DEF CcbsInv, QueueType, QueueInv, Waiting, Queued, CcbInv, WaitInv
  <2>2. CASE ccb[c].applier
    <3>1. applierQueue' = Append(applierQueue, e)
      BY <1>3, <2>2
    <3>2. /\ applierQueue' \in Seq(Callbacks)
          /\ \A d : d # c => Queued(d)' = Queued(d)
          /\ Queued(c)' = Queued(c) \cup {e}
      BY <1>1, <3>1, QueueGrows DEF CcbsInv, QueueType
    <3>3. QueueType'
      BY <2>0, <3>2 DEF QueueType
    <3>4. QueueInv'
      BY <1>1, <2>0, <3>1, <3>3, QueueInvGrows DEF CcbsInv, Placed
    <3>5. Waiting(c)' = Waiting(c)
      BY <1>1, <3>2 DEF Waiting
    <3> QED
      BY <2>2, <3>2, <3>3, <3>4, <3>5
  <2> QED
    BY <2>1, <2>2
<1>5. CcbInv(c)
  BY DEF CcbsInv
<1>6. WaitInv(c)'
  BY <1>2, <1>4, <1>5 DEF CcbInv, WaitInv
<1>7. PreparedInv(c)'
  BY <1>2, <1>5 DEF CcbInv, PreparedInv, Mapped, TxOf
<1>8. LeftInv(c)'
  <2>1. c \in applierError' => Queued(c)' # {}
    BY <1>4, <1>5 DEF CcbInv, WaitInv
  <2>2. Late(c) => Late(c)'
    BY FaultsGrow
  <2> QED
    BY <1>2, <1>5, <2>1, <2>2 DEF CcbInv, LeftInv, Mapped
<1>9. FlowInv(c)'
  BY <1>2 DEF FlowInv
<1>10. CommittedInv(c)'
  BY <1>2 DEF CommittedInv
<1>11. CcbInv(c)'
  BY <1>6, <1>7, <1>8, <1>9, <1>10 DEF CcbInv
<1>12. ASSUME NEW d \in Ccbs, d # c PROVE Untouched(d)
  BY <1>2, <1>4, <1>12 DEF Untouched, registryVars
<1>13. MapInv' /\ \A d \in Ccbs : CcbInv(d)'
  BY <1>11, <1>12, OneTouched
<1>14. FinalStep
  BY StepIsFinal
<1> QED
  BY <1>2, <1>4, <1>13, <1>14 DEF CcbsInv, RestType

\* apply: the transaction is committed.
LEMMA ApplyStep ==
    ASSUME CcbsInv, NEW c \in Ccbs, handleCcbApply(c)
    PROVE  CcbsInv' /\ FinalStep
<1>1. /\ ccb[c].phase = "prepared" /\ ccbOver(c)
      /\ faults' = faults \cup lateFaults(c)
      /\ UNCHANGED <<registryVars, cache, applierError, wanted, ops>>
  BY DEF handleCcbApply
<1>2. /\ faults \subseteq faults' /\ lateFaults(c) \subseteq faults'
      /\ faults' \subseteq FaultKinds \X (Ccbs \cup {0})
  BY <1>1, FaultType DEF CcbsInv, RestType
<1>3. /\ Late(c) => Late(c)'
      /\ Clean(c)' => Clean(c) /\ ~Late(c)' /\ ~Late(c)
  BY <1>2, FaultsGrow
<1>4. CcbInv(c) /\ CacheType' /\ \A d \in Ccbs : cache'[d] = cache[d]
  BY <1>1 DEF CcbsInv, CacheType
<1>5. Waiting(c) # {} => IF ccb[c].main THEN Late(c)' ELSE Uninvolved(c)'
  BY <1>1, <1>2, <1>4, LateWaits DEF CcbsInv, CcbInv, WaitInv
<1>6. ~Late(c)' => ~cache'[c].inUse
  BY <1>1, <1>3, <1>4 DEF CcbInv, LeftInv
<1>7. CASE ~Mapped(c)
  <2>1. UNCHANGED <<txs, ccbTxMap>>
    BY <1>7 DEF handleCcbApply, Mapped
  <2>2. TxStep(c) /\ ~Mapped(c)'
    BY <1>7, <2>1, NothingEnters DEF CcbsInv, Mapped
  <2>3. \A h \in DOMAIN txs' : txs'[h].ccb = c /\ txs'[h].state = "committed" =>
           (Clean(c)' => txs'[h].got = wanted[c])
    BY <1>3, <1>4, <2>1 DEF CcbInv, CommittedInv
  <2> QED
    BY <1>1, <1>2, <1>4, <1>5, <1>6, <1>7, <2>2, <2>3, OverStep
<1>8. CASE Mapped(c)
  <2>1. PICK state \in Ended :
           txs' = [txs EXCEPT ![ccbTxMap[c]].state = state, ![ccbTxMap[c]].ccb = c]
    BY <1>8 DEF handleCcbApply, Mapped, Ended
  <2>2. ccbTxMap' = removeCcbTransaction(ccbTxMap, c)
    BY <1>8 DEF handleCcbApply, Mapped
  <2> DEFINE x == [TxOf(c) EXCEPT !.state = state, !.ccb = c]
  <2>3. TxOf(c) \in Transactions
    BY <1>8, ElementOfSeq, LenProperties DEF TxOf, Mapped, CcbsInv, MapInv, MapOK
  <2>4. /\ x \in Transactions /\ x.ccb = c /\ x.state \in Ended
        /\ x.got = TxOf(c).got
    BY <2>3 DEF Transactions, States, Ended
  <2>5. txs' = [txs EXCEPT ![ccbTxMap[c]] = x]
    <3>1. txs \in Seq(Transactions) /\ ccbTxMap[c] \in DOMAIN txs
      BY <1>8 DEF CcbsInv, MapInv, MapOK, Mapped
    <3> QED
      BY <2>1, <3>1 DEF TxOf
  <2> HIDE DEF x
  <2>6. TxStep(c) /\ ~Mapped(c)' /\ txs'[ccbTxMap[c]] = x
    BY <1>8, <2>2, <2>4, <2>5, EndedStep DEF CcbsInv
  <2>7. ASSUME NEW h \in DOMAIN txs', txs'[h].ccb = c, txs'[h].state = "committed", Clean(c)'
        PROVE  txs'[h].got = wanted[c]
    <3>1. h \in DOMAIN txs
      BY <2>6, <2>7, ProxyAssumption DEF TxStep
    <3>2. CASE txs'[h] = txs[h]
      BY <1>3, <1>4, <2>7, <3>1, <3>2 DEF CcbInv, CommittedInv
    <3>3. CASE txs'[h] # txs[h]
      <4>1. txs'[h] = x
        BY <2>6, <3>1, <3>3 DEF TxStep
      <4>2. TxOf(c).got = wanted[c]
        BY <1>1, <1>3, <1>4, <1>8, <2>7 DEF CcbInv, FlowInv, Done
      <4> QED
        BY <2>4, <4>1, <4>2
    <3> QED
      BY <3>2, <3>3
  <2> QED
    BY <1>1, <1>2, <1>4, <1>5, <1>6, <2>4, <2>6, <2>7, OverStep
<1> QED
  BY <1>7, <1>8

\* abort: the transaction is aborted.
LEMMA AbortStep ==
    ASSUME CcbsInv, NEW c \in Ccbs, handleCcbAbort(c)
    PROVE  CcbsInv' /\ FinalStep
<1>1. /\ ccb[c].main /\ ccbOver(c)
      /\ faults' = faults \cup lateFaults(c)
      /\ UNCHANGED <<registryVars, applierError, wanted, ops>>
  BY DEF handleCcbAbort
<1>2. /\ faults \subseteq faults' /\ lateFaults(c) \subseteq faults'
      /\ faults' \subseteq FaultKinds \X (Ccbs \cup {0})
  BY <1>1, FaultType DEF CcbsInv, RestType
<1>3. /\ Late(c) => Late(c)'
      /\ Clean(c)' => Clean(c) /\ ~Late(c)' /\ ~Late(c)
  BY <1>2, FaultsGrow
<1>4. CcbInv(c) /\ CacheOK(cache[c])
  BY DEF CcbsInv, CacheType
<1>5. Waiting(c) # {} => IF ccb[c].main THEN Late(c)' ELSE Uninvolved(c)'
  BY <1>1, <1>2, LateWaits DEF CcbsInv
<1>6. CASE ~Mapped(c)
  <2>1. UNCHANGED <<txs, ccbTxMap, cache>>
    BY <1>6 DEF handleCcbAbort, Mapped
  <2>2. TxStep(c) /\ ~Mapped(c)' /\ CacheType' /\ \A d \in Ccbs : cache'[d] = cache[d]
    BY <1>6, <2>1, NothingEnters DEF CcbsInv, CacheType, Mapped
  <2>3. ~Late(c)' => ~cache'[c].inUse
    BY <1>3, <1>4, <1>6, <2>1 DEF CcbInv, LeftInv
  <2>4. \A h \in DOMAIN txs' : txs'[h].ccb = c /\ txs'[h].state = "committed" =>
           (Clean(c)' => txs'[h].got = wanted[c])
    BY <1>3, <1>4, <2>1 DEF CcbInv, CommittedInv
  <2> QED
    BY <1>1, <1>2, <1>5, <1>6, <2>2, <2>3, <2>4, OverStep
<1>7. CASE Mapped(c)
  <2>1. /\ cache' = [cache EXCEPT ![c] = cleanCcbId(@)]
        /\ ccbTxMap' = removeCcbTransaction(ccbTxMap, c)
        /\ txs' = [txs EXCEPT ![ccbTxMap[c]].state = "aborted"]
    BY <1>7 DEF handleCcbAbort, abortCache, Mapped
  <2> DEFINE x == [TxOf(c) EXCEPT !.state = "aborted"]
             k == cleanCcbId(cache[c])
  <2>2. TxOf(c) \in Transactions
    BY <1>7, ElementOfSeq, LenProperties DEF TxOf, Mapped, CcbsInv, MapInv, MapOK
  <2>3. /\ x \in Transactions /\ x.ccb = TxOf(c).ccb /\ x.state = "aborted"
        /\ x.got = TxOf(c).got
    BY <2>2 DEF Transactions, States
  <2>4. txs' = [txs EXCEPT ![ccbTxMap[c]] = x] /\ cache' = [cache EXCEPT ![c] = k]
    BY <2>1 DEF TxOf
  <2>5. CacheOK(k) /\ ~k.inUse
    BY <1>4, EmptySeq DEF CacheOK, CacheEntries, cleanCcbId
  <2> HIDE DEF x, k
  <2>6. TxStep(c) /\ ~Mapped(c)' /\ txs'[ccbTxMap[c]] = x
    BY <1>7, <2>1, <2>3, <2>4, EndedStep DEF CcbsInv, Ended
  <2>7. /\ CacheType' /\ cache'[c] = k
        /\ \A d \in Ccbs : d # c => cache'[d] = cache[d]
    BY <2>4, <2>5 DEF CcbsInv, CacheType, CacheOK
  <2>8. ASSUME NEW h \in DOMAIN txs', txs'[h].ccb = c, txs'[h].state = "committed", Clean(c)'
        PROVE  txs'[h].got = wanted[c]
    <3>1. h \in DOMAIN txs /\ txs'[h] = txs[h]
      BY <2>3, <2>6, <2>8, ProxyAssumption DEF TxStep
    <3> QED
      BY <1>3, <1>4, <2>8, <3>1 DEF CcbInv, CommittedInv
  <2> QED
    BY <1>1, <1>2, <1>5, <2>3, <2>5, <2>6, <2>7, <2>8, OverStep
<1> QED
  BY <1>6, <1>7

\* A CCB ends that the main implementer had no part in.
LEMMA UninvolvedStep ==
    ASSUME CcbsInv, NEW c \in Ccbs, EndUninvolved(c)
    PROVE  CcbsInv' /\ FinalStep
<1>1. /\ ccb[c].phase = "open" /\ ~ccb[c].main /\ ccbOver(c)
      /\ faults' = faults \cup {<<"uninvolved", c>>}
      /\ UNCHANGED <<registryVars, applierError, wanted, ops>>
      /\ UNCHANGED <<txs, ccbTxMap, cache>>
  BY DEF EndUninvolved
<1>2. /\ faults \subseteq faults' /\ Uninvolved(c)'
      /\ faults' \subseteq FaultKinds \X (Ccbs \cup {0})
  BY <1>1 DEF CcbsInv, RestType, FaultKinds, Uninvolved
<1>3. Clean(c)' => Clean(c)
  BY <1>2, FaultsGrow
<1>4. TxStep(c) /\ CacheType' /\ \A d \in Ccbs : cache'[d] = cache[d]
  BY <1>1, NothingEnters DEF CcbsInv, CacheType
<1>5. \A h \in DOMAIN txs' : txs'[h].ccb = c /\ txs'[h].state = "committed" =>
         (Clean(c)' => txs'[h].got = wanted[c])
  BY <1>1, <1>3 DEF CcbsInv, CcbInv, CommittedInv
<1>6. txs'[ccbTxMap[c]].got = TxOf(c).got
  BY <1>1 DEF TxOf
<1> QED
  BY <1>1, <1>2, <1>4, <1>5, <1>6, OverStep

-----------------------------------------------------------------------------
(***************************************************************************)
(* The changes of struct attributes and the callbacks of the applier.      *)
(***************************************************************************)
\* IMM queues the change of a struct attribute for the applier.
LEMMA ChangeStructStep ==
    ASSUME RegistryTypeOK, CcbsInv, NEW c \in Ccbs, NEW path \in Paths,
           ChangeStruct(c, path)
    PROVE  CcbsInv' /\ FinalStep
<1> DEFINE owner == servingPath(path)
           e == [ccb |-> c, path |-> path, owner |-> owner,
                 nr |-> IF owner = None THEN 0 ELSE Len(wanted[c]) + 1]
<1>1. /\ ccb[c].phase \in {"none", "open"} /\ ops < MaxOps /\ ops' = ops + 1
      /\ ccb' = [ccb EXCEPT ![c].phase = "open", ![c].applier = TRUE]
      /\ applierQueue' = Append(applierQueue, e)
      /\ wanted' = IF owner = None THEN wanted
                   ELSE [wanted EXCEPT ![c] = Append(@, <<"struct", owner>>)]
      /\ UNCHANGED <<registryVars, txs, ccbTxMap, cache, applierError, faults>>
  BY DEF ChangeStruct
<1>2. owner \in Components \cup {None}
  BY ServingType
<1>3. owner # None => <<"struct", owner>> \in Changes
  BY <1>2 DEF Changes
<1>4. wanted[c] \in Seq(Changes) /\ Len(wanted[c]) \in Nat /\ CcbInv(c)
  BY LenProperties DEF CcbsInv, QueueType
<1>5. /\ e \in Callbacks /\ e.ccb = c /\ e.owner = owner
      /\ owner # None => e.nr = Len(wanted[c]) + 1
  BY <1>2, <1>4 DEF Callbacks
<1> HIDE DEF owner, e
<1>6. /\ Longer /\ wanted' \in [Ccbs -> Seq(Changes)]
      /\ IF owner = None THEN wanted' = wanted
         ELSE wanted'[c] = Append(wanted[c], <<"struct", owner>>)
      /\ \A d \in Ccbs : d # c => wanted'[d] = wanted[d]
  <2>0. wanted \in [Ccbs -> Seq(Changes)]
    BY DEF CcbsInv, QueueType
  <2>1. CASE owner = None
    BY <1>1, <2>0, <2>1, WantedKept
  <2>2. CASE owner # None
    <3> SUFFICES ASSUME NEW x, x = <<"struct", owner>>
                 PROVE  /\ Longer /\ wanted' \in [Ccbs -> Seq(Changes)]
                        /\ wanted'[c] = Append(wanted[c], x)
                        /\ \A d \in Ccbs : d # c => wanted'[d] = wanted[d]
      BY <2>2
    <3>1. x \in Changes /\ wanted' = [wanted EXCEPT ![c] = Append(@, x)]
      BY <1>1, <1>3, <2>2
    <3> QED
      BY <2>0, <3>1, WantedMore
  <2> QED
    BY <2>1, <2>2
<1>7. /\ applierQueue' \in Seq(Callbacks)
      /\ \A d : d # c => Queued(d)' = Queued(d)
      /\ Queued(c)' = Queued(c) \cup {e}
  <2> SUFFICES ASSUME NEW f, f = e
               PROVE  /\ applierQueue' \in Seq(Callbacks)
                      /\ \A d : d # c => Queued(d)' = Queued(d)
                      /\ Queued(c)' = Queued(c) \cup {f}
    OBVIOUS
  <2>1. f \in Callbacks /\ applierQueue' = Append(applierQueue, f) /\ f.ccb = c
    BY <1>1, <1>5
  <2> QED
    BY <2>1, QueueGrows DEF CcbsInv, QueueType
<1>8. QueueType'
  BY <1>6, <1>7 DEF QueueType
<1>9. QueueInv'
  <2> SUFFICES ASSUME NEW f, f = e PROVE QueueInv'
    OBVIOUS
  <2>1. /\ f \in Callbacks /\ applierQueue' = Append(applierQueue, f)
        /\ f.owner # None => f.nr = Len(wanted[f.ccb]) + 1
    BY <1>1, <1>5
  <2>2. owner # None => /\ Len(wanted'[c]) = Len(wanted[c]) + 1
                        /\ wanted'[c][Len(wanted[c]) + 1] = <<"struct", owner>>
    BY <1>3, <1>4, <1>6, Appended
  <2>3. Placed(f, wanted')
    BY <1>4, <1>5, <2>2 DEF Placed
  <2> QED
    BY <1>6, <1>8, <2>1, <2>3, QueueInvGrows DEF CcbsInv
<1>10. /\ CcbType' /\ ccb'[c].phase = "open" /\ ccb'[c].applier
       /\ ccb'[c].main = ccb[c].main
       /\ \A d \in Ccbs : d # c => ccb'[d] = ccb[d]
  BY <1>1 DEF CcbsInv, CcbType, Phases
<1>11. TxStep(c) /\ TxKept(c) /\ CacheType' /\ cache' = cache
  BY <1>1, NothingEnters DEF CcbsInv, CacheType
<1>12. RestType'
  <2>1. ops' \in 0 .. MaxOps
    BY <1>1, ProxyAssumption DEF CcbsInv, RestType
  <2> QED
    BY <1>1, <2>1 DEF CcbsInv, RestType
<1>13. WaitInv(c)'
  <2>1. e.path # None
    BY ProxyAssumption DEF e, Paths, Objects
  <2>2. \A x \in Queued(c)' : x.path # None
    BY <1>1, <1>4, <1>7, <2>1 DEF CcbInv, WaitInv
  <2> QED
    BY <1>10, <2>2 DEF WaitInv
<1>14. PreparedInv(c)'
  BY <1>1, <1>4, <1>11 DEF PreparedInv, CcbInv, TxKept
<1>15. LeftInv(c)'
  BY <1>1, <1>4, <1>10 DEF LeftInv, CcbInv, Late, Mapped
<1>16. FlowInv(c)'
  <2> SUFFICES ASSUME Clean(c)', c \notin applierError'
               PROVE  Flow(c)'
    BY <1>10 DEF FlowInv
  <2>1. Given(c)' = Given(c)
    BY <1>1 DEF Given, Mapped, TxOf, Gave, delivered
  <2>2. FlowOK(Given(c), wanted[c], Queued(c))
    BY <1>1, <1>4 DEF CcbInv, FlowInv, Flow, Clean, Mapped, TxOf
  <2>3. CASE owner = None
    <3>1. FlowOK(Given(c), wanted[c], Queued(c) \cup {e})
      BY <1>5, <2>2, <2>3 DEF FlowOK
    <3> QED
      BY <1>6, <1>7, <2>1, <2>3, <3>1 DEF Flow
  <2>4. CASE owner # None
    <3>1. Given(c) \in Seq(Changes)
      BY GivenType
    <3>2. ASSUME NEW G, G = Given(c), NEW W, W = wanted[c], NEW f, f = e,
                 NEW Q, Q = Queued(c), NEW x, x = <<"struct", owner>>
          PROVE  FlowOK(G, Append(W, x), Q \cup {f})
      <4>1. /\ G \in Seq(Changes) /\ W \in Seq(Changes) /\ x \in Changes
            /\ FlowOK(G, W, Q) /\ f.owner # None /\ f.nr = Len(W) + 1
        BY <1>3, <1>4, <1>5, <2>2, <2>4, <3>1, <3>2
      <4> QED
        BY <4>1, FlowWaits
    <3>3. FlowOK(Given(c), Append(wanted[c], <<"struct", owner>>), Queued(c) \cup {e})
      BY <3>2, Zenon
    <3>4. wanted'[c] = Append(wanted[c], <<"struct", owner>>)
      BY <1>6, <2>4
    <3>5. FlowOK(Given(c)', wanted'[c], Queued(c)')
      BY <1>7, <2>1, <3>3, <3>4
    <3> QED
      BY <3>5 DEF Flow
  <2> QED
    BY <2>3, <2>4
<1>17. CommittedInv(c)'
  BY <1>1, <1>4 DEF CcbInv, CommittedInv
<1>18. CcbInv(c)'
  BY <1>13, <1>14, <1>15, <1>16, <1>17 DEF CcbInv
<1>19. ASSUME NEW d \in Ccbs, d # c PROVE Untouched(d)
  BY <1>1, <1>6, <1>7, <1>10, <1>19 DEF Untouched, registryVars
<1>20. MapInv' /\ \A d \in Ccbs : CcbInv(d)'
  BY <1>11, <1>18, <1>19, OneTouched
<1>21. FinalStep
  BY <1>1 DEF FinalStep
<1> QED
  BY <1>8, <1>9, <1>10, <1>11, <1>12, <1>20, <1>21 DEF CcbsInv

\* A change of a struct attribute is given to the cache.
LEMMA StructGiven ==
    ASSUME CcbsInv, NEW c \in Ccbs, NEW path \in Paths, NEW change \in Changes,
           NEW t \in openTransaction(c, c), ccbTxMap' = t.map, t.ok,
           NEW s \in setStructAttribute(t.txs[t.h], cache[c], path, change),
           txs' = [t.txs EXCEPT ![t.h] = s.tx],
           cache' = [cache EXCEPT ![c] = s.cache]
    PROVE  /\ Worked(c)
           /\ s.ok /\ cacheFaults(c, cache[c], path, change) = {} /\ ~Late(c) =>
                 Given(c)' = Append(Given(c), change)
<1>1. t.txs[t.h] \in Transactions /\ Found(c, t.txs[t.h]) /\ CacheOK(cache[c])
  BY OpenFinds DEF CcbsInv, CacheType
<1>2. /\ Gives(t.txs[t.h], s)
      /\ s.ok /\ cacheFaults(c, cache[c], path, change) = {} =>
            Gave(s.tx, s.cache) = Append(Gave(t.txs[t.h], cache[c]), change)
  <2> SUFFICES ASSUME NEW x, x = t.txs[t.h], NEW k, k = cache[c]
               PROVE  /\ Gives(x, s)
                      /\ s.ok /\ cacheFaults(c, k, path, change) = {} =>
                            Gave(s.tx, s.cache) = Append(Gave(x, k), change)
    OBVIOUS
  <2>1. s \in setStructAttribute(x, k, path, change)
    OBVIOUS
  <2> QED
    BY <1>1, <2>1, SetStructDoes
<1>3. Worked(c) /\ Mapped(c)' /\ TxOf(c)' = s.tx /\ cache'[c] = s.cache
  BY <1>2, GiveWorks
<1>4. ASSUME s.ok, cacheFaults(c, cache[c], path, change) = {}, ~Late(c)
      PROVE  Given(c)' = Append(Given(c), change)
  <2>1. Gave(TxOf(c)', cache'[c]) = Append(Gave(t.txs[t.h], cache[c]), change)
    BY <1>2, <1>3, <1>4
  <2> SUFFICES ASSUME NEW x, x = t.txs[t.h]
               PROVE  Given(c)' = Append(Given(c), change)
    OBVIOUS
  <2> QED
    BY <1>1, <1>3, <1>4, <2>1, GivenMore
<1> QED
  BY <1>3, <1>4

\* The applier takes a change of a struct attribute from its queue.
LEMMA ApplierChangeStep ==
    ASSUME RegistryTypeOK, CcbsInv, handleComplexTypeCcbChange
    PROVE  CcbsInv' /\ FinalStep
<1> SUFFICES ASSUME NEW c, c = Head(applierQueue).ccb, NEW f, f = Head(applierQueue),
                    NEW path, path = f.path, NEW owner, owner = servingPath(path)
             PROVE  CcbsInv' /\ FinalStep
  OBVIOUS
<1> DEFINE change == <<"struct", owner>>
           moved == IF owner = f.owner THEN {} ELSE {<<"unregistered", c>>}
           new == cacheFaults(c, cache[c], path, change)
<1>1. /\ applierQueue # <<>> /\ path # None /\ applierQueue' = Tail(applierQueue)
      /\ UNCHANGED <<registryVars, ccb, wanted, ops>>
  BY DEF handleComplexTypeCcbChange
<1>2. \/ /\ \/ owner = None /\ faults' = faults \cup moved
            \/ faults' = faults \cup {<<"skipped", c>>}
         /\ UNCHANGED <<txs, ccbTxMap, cache, applierError>>
      \/ /\ owner # None
         /\ \E t \in openTransaction(c, c) :
              /\ ccbTxMap' = t.map
              /\ \/ /\ ~t.ok
                    /\ txs' = t.txs /\ setCcbApplierError(c)
                    /\ UNCHANGED cache
                 \/ /\ t.ok
                    /\ \E s \in setStructAttribute(t.txs[t.h], cache[c], path, change) :
                         /\ txs' = [t.txs EXCEPT ![t.h] = s.tx]
                         /\ cache' = [cache EXCEPT ![c] = s.cache]
                         /\ IF s.ok THEN UNCHANGED applierError
                            ELSE setCcbApplierError(c)
         /\ faults' = faults \cup moved \cup new
  BY Zenon DEF handleComplexTypeCcbChange
<1>3. /\ applierQueue' \in Seq(Callbacks) /\ f \in Queued(c)
      /\ \A d : d # c => Queued(d)' = Queued(d)
      /\ Queued(c)' \subseteq Queued(c)
      /\ \A e \in Queued(c) : e = f \/ e \in Queued(c)'
  BY <1>1, QueueShrinks DEF CcbsInv, QueueType
<1>4. /\ QueueInv'
      /\ \A e \in Queued(c)' : e.owner # None /\ f.owner # None => e.nr > f.nr
  BY <1>1, QueueInvShrinks DEF CcbsInv
<1>5. f \in Callbacks /\ c \in Ccbs /\ path \in Paths /\ f \in Waiting(c)
  <2>1. f \in Callbacks /\ f.ccb = c
    BY <1>3, QueuedType DEF CcbsInv
  <2> QED
    BY <1>1, <1>3, <2>1, CallbackType DEF Waiting
<1>6. owner \in Components \cup {None} /\ (owner # None => change \in Changes)
  BY <1>5, ServingType DEF Changes
<1>7. CcbInv(c) /\ CacheOK(cache[c]) /\ QueueType'
  BY <1>1, <1>3, <1>5 DEF CcbsInv, CacheType, QueueType
<1>8. Placed(f, wanted)
  <2>1. PICK i \in DOMAIN applierQueue : f = applierQueue[i]
    BY <1>3 DEF Queued, Elements
  <2> QED
    BY <2>1 DEF CcbsInv, QueueInv
<1> HIDE DEF change, new
<1>9. /\ new \subseteq FaultKinds \X (Ccbs \cup {0})
      /\ new # {} => \E g \in {"clear", "moIf"} : <<g, c>> \in new
  BY <1>5, FaultType DEF new
<1>10. /\ faults \subseteq faults'
       /\ moved \subseteq faults' \/ <<"skipped", c>> \in faults'
       /\ faults' \subseteq FaultKinds \X (Ccbs \cup {0})
  BY <1>2, <1>5, <1>9 DEF CcbsInv, RestType, FaultKinds
<1>11. /\ Late(c) => Late(c)'
       /\ Uninvolved(c) => Uninvolved(c)'
       /\ Clean(c)' => Clean(c) /\ ~Late(c)' /\ ~Late(c)
  BY <1>10, FaultsGrow
<1>12. Clean(c)' => owner = f.owner
  BY <1>10 DEF Clean, FaultKinds
\* at the end of the CCB that is a fault
<1>13. /\ ccb[c].phase \in {"prepared", "over"} => Late(c) \/ Uninvolved(c)
       /\ ccb[c].phase = "prepared" => Late(c)
       /\ ccb[c].phase # "none" /\ ccb[c].applier
  BY <1>3, <1>5, <1>7 DEF CcbInv, WaitInv
<1>14. /\ Worked(c) /\ applierError \subseteq applierError' /\ applierError' \subseteq applierError \cup {c}
       /\ owner # None /\ Clean(c)' /\ c \notin applierError' =>
             Given(c)' = Append(Given(c), change)
       /\ owner = None => Given(c)' = Given(c)
  <2>1. CASE /\ owner = None \/ <<"skipped", c>> \in faults'
             /\ UNCHANGED <<txs, ccbTxMap, cache, applierError>>
    <3>1. Worked(c)
      BY <1>5, <2>1, NothingDone
    <3>2. Given(c)' = Given(c)
      BY <2>1 DEF Given, Mapped, TxOf, Gave, delivered
    <3>3. owner = None \/ ~Clean(c)'
      BY <2>1 DEF Clean, FaultKinds
    <3> QED
      BY <2>1, <3>1, <3>2, <3>3
  <2>2. ASSUME owner # None, NEW t \in openTransaction(c, c), ccbTxMap' = t.map,
               txs' = t.txs, setCcbApplierError(c), UNCHANGED cache
        PROVE  Worked(c) /\ applierError' = applierError \cup {c}
    BY <1>5, <2>2, OpenFailed DEF setCcbApplierError
  <2>3. ASSUME owner # None, NEW t \in openTransaction(c, c), ccbTxMap' = t.map, t.ok,
               NEW s \in setStructAttribute(t.txs[t.h], cache[c], path, change),
               txs' = [t.txs EXCEPT ![t.h] = s.tx],
               cache' = [cache EXCEPT ![c] = s.cache],
               IF s.ok THEN UNCHANGED applierError ELSE setCcbApplierError(c),
               faults' = faults \cup moved \cup new
        PROVE  /\ Worked(c) /\ applierError \subseteq applierError'
               /\ applierError' \subseteq applierError \cup {c}
               /\ Clean(c)' /\ c \notin applierError' =>
                     Given(c)' = Append(Given(c), change)
    <3>1. /\ Worked(c)
          /\ s.ok /\ new = {} /\ ~Late(c) => Given(c)' = Append(Given(c), change)
      <4>1. \A ch \in Changes : ch = change =>
               /\ Worked(c)
               /\ s.ok /\ cacheFaults(c, cache[c], path, ch) = {} /\ ~Late(c) =>
                     Given(c)' = Append(Given(c), ch)
        BY <1>5, <2>3, StructGiven
      <4> QED
        BY <1>6, <2>3, <4>1 DEF new
    <3>4. applierError \subseteq applierError' /\ applierError' \subseteq applierError \cup {c}
      BY <2>3 DEF setCcbApplierError
    <3>5. ASSUME Clean(c)', c \notin applierError'
          PROVE  Given(c)' = Append(Given(c), change)
      <4>1. s.ok
        BY <2>3, <3>5 DEF setCcbApplierError
      <4>2. new = {}
        BY <1>9, <2>3, <3>5 DEF Clean, FaultKinds
      <4>3. ~Late(c)
        BY <1>11, <3>5
      <4> QED
        BY <3>1, <4>1, <4>2, <4>3
    <3> QED
      BY <3>1, <3>4, <3>5
  <2> QED
    BY <1>2, <2>1, <2>2, <2>3
<1>15. RestType'
  BY <1>1, <1>5, <1>10, <1>14 DEF CcbsInv, RestType
<1>16. WaitInv(c)'
  <2>1. \A e \in Queued(c)' : e.path = None => ccb'[c].phase = "over"
    BY <1>1, <1>3, <1>7 DEF CcbInv, WaitInv
  <2>2. ccb'[c].phase \in {"prepared", "over"} =>
           IF ccb'[c].main THEN Late(c)' ELSE Uninvolved(c)'
    BY <1>1, <1>5, <1>7, <1>11 DEF CcbInv, WaitInv
  <2>3. /\ ccb'[c].phase = "prepared" => ccb'[c].main
        /\ ccb'[c].phase # "none" /\ ccb'[c].applier
    BY <1>1, <1>7, <1>13 DEF CcbInv, WaitInv
  <2> QED
    BY <2>1, <2>2, <2>3 DEF WaitInv
<1>17. PreparedInv(c)'
  BY <1>1, <1>7, <1>14 DEF CcbInv, PreparedInv, Worked
<1>18. LeftInv(c)'
  BY <1>1, <1>7, <1>11, <1>13, <1>14 DEF CcbInv, LeftInv, Worked
<1>19. FlowInv(c)'
  <2> SUFFICES ASSUME Clean(c)', ccb'[c].phase = "open", c \notin applierError'
               PROVE  Flow(c)'
    BY <1>1, <1>11, <1>13 DEF FlowInv
  <2>1. FlowOK(Given(c), wanted[c], Queued(c)) /\ c \notin applierError
    BY <1>1, <1>7, <1>11, <1>14 DEF CcbInv, FlowInv, Flow
  <2>2. wanted'[c] = wanted[c] /\ wanted[c] \in Seq(Changes) /\ Given(c) \in Seq(Changes)
    BY <1>1, <1>5, GivenType DEF CcbsInv, QueueType
  <2>3. CASE owner = None
    <3>1. f.owner = None
      BY <1>12, <2>3
    <3>2. FlowOK(Given(c), wanted[c], Queued(c)')
      BY <1>3, <2>1, <3>1 DEF FlowOK
    <3>3. FlowOK(Given(c)', wanted'[c], Queued(c)')
      BY <1>14, <2>2, <2>3, <3>2
    <3> QED
      BY <3>3 DEF Flow
  <2>4. CASE owner # None
    <3>1. /\ f.owner # None /\ f.nr \in 1 .. Len(wanted[c])
          /\ wanted[c][f.nr] = change /\ f.ccb = c
      BY <1>8, <1>12, <2>4 DEF Placed, change
    <3>2. \A e \in Queued(c)' : e.owner # None => e.nr \in Nat /\ e.nr > f.nr
      BY <1>3, <1>4, <3>1, QueuedType, CallbackType DEF CcbsInv
    <3>3. ASSUME NEW G, G = Given(c), NEW W, W = wanted[c], NEW Q, Q = Queued(c),
                 NEW R, R = Queued(c)', NEW x, x = change
          PROVE  FlowOK(Append(G, x), W, R)
      <4>1. /\ G \in Seq(Changes) /\ W \in Seq(Changes) /\ x \in Changes
            /\ FlowOK(G, W, Q) /\ f \in Q /\ f.owner # None
            /\ f.nr \in 1 .. Len(W) /\ W[f.nr] = x /\ R \in SUBSET Q
        BY <1>3, <1>6, <2>1, <2>2, <2>4, <3>1, <3>3
      <4>2. /\ \A e \in Q : e = f \/ e \in R
            /\ \A e \in R : e.owner # None => e.nr \in Nat /\ e.nr > f.nr
        BY <1>3, <3>2, <3>3
      <4> QED
        BY <4>1, <4>2, FlowFirst
    <3>4. FlowOK(Append(Given(c), change), wanted[c], Queued(c)')
      BY <3>3, Zenon
    <3>5. FlowOK(Given(c)', wanted'[c], Queued(c)')
      BY <1>14, <2>2, <2>4, <3>4
    <3> QED
      BY <3>5 DEF Flow
  <2> QED
    BY <2>3, <2>4
<1>20. CommittedInv(c)'
  <2> SUFFICES ASSUME NEW h \in DOMAIN txs', txs'[h].ccb = c, txs'[h].state = "committed"
               PROVE  ccb'[c].phase = "over" /\ (Clean(c)' => txs'[h].got = wanted'[c])
    BY DEF CommittedInv
  <2>1. h \in DOMAIN txs /\ txs'[h] = txs[h]
    BY <1>5, <1>14, WorkCommitsNothing
  <2> QED
    BY <1>1, <1>7, <1>11, <2>1 DEF CcbInv, CommittedInv
<1>21. CcbInv(c)'
  BY <1>16, <1>17, <1>18, <1>19, <1>20 DEF CcbInv
<1>22. ASSUME NEW d \in Ccbs, d # c PROVE Untouched(d)
  BY <1>1, <1>3, <1>10, <1>14, <1>22 DEF Untouched, Worked, registryVars
<1>23. MapInv' /\ \A d \in Ccbs : CcbInv(d)'
  BY <1>14, <1>21, <1>22, OneTouched DEF Worked
<1>24. CcbType'
  BY <1>1 DEF CcbsInv, CcbType
<1>25. Mapped(c) => TxOf(c).state = "open" \/ Late(c)'
  <2>1. Mapped(c) => TxOf(c) \in Transactions /\ TxOf(c).state \notin Ended
    BY ElementOfSeq, LenProperties DEF TxOf, Mapped, CcbsInv, MapInv, MapOK
  <2>2. Mapped(c) => TxOf(c).state \in {"open", "prepared"}
    BY <2>1, TransactionType DEF States, Ended
  <2>3. Mapped(c) /\ TxOf(c).state = "prepared" => Late(c)
    BY <1>5, <1>7 DEF CcbInv, PreparedInv, WaitInv
  <2> QED
    BY <1>11, <2>2, <2>3
<1>26. FinalStep
  BY <1>5, <1>14, <1>25, StepIsFinal DEF Worked
<1> QED
  BY <1>4, <1>7, <1>14, <1>15, <1>23, <1>24, <1>26 DEF CcbsInv, Worked

\* The applier takes the end of a CCB from its queue.
LEMMA ApplierEndStep ==
    ASSUME CcbsInv, handleComplexTypeCcbEnd
    PROVE  CcbsInv' /\ FinalStep
<1> SUFFICES ASSUME NEW c, c = Head(applierQueue).ccb, NEW f, f = Head(applierQueue)
             PROVE  CcbsInv' /\ FinalStep
  OBVIOUS
<1>1. /\ applierQueue # <<>> /\ f.path = None /\ applierQueue' = Tail(applierQueue)
      /\ applierError' = applierError \ {c}
      /\ UNCHANGED <<registryVars, ccb, txs, ccbTxMap, cache, wanted, ops, faults>>
  BY DEF handleComplexTypeCcbEnd, removeCcbApplierError
<1>2. /\ applierQueue' \in Seq(Callbacks) /\ f \in Queued(c)
      /\ \A d : d # c => Queued(d)' = Queued(d)
      /\ Queued(c)' \subseteq Queued(c)
      /\ \A e \in Queued(c) : e = f \/ e \in Queued(c)'
  BY <1>1, QueueShrinks DEF CcbsInv, QueueType
<1>3. QueueInv'
  BY <1>1, QueueInvShrinks DEF CcbsInv
<1>4. f \in Callbacks /\ c \in Ccbs /\ f.owner = None
  <2>1. f \in Callbacks /\ f.ccb = c
    BY <1>2, QueuedType DEF CcbsInv
  <2> QED
    BY <1>1, <2>1, CallbackType
<1>5. CcbInv(c)
  BY <1>4 DEF CcbsInv
<1>6. TxStep(c) /\ TxKept(c)
  BY <1>1, NothingEnters DEF CcbsInv
<1>7. WaitInv(c)'
  <2>1. Waiting(c)' \subseteq Waiting(c)
    BY <1>2 DEF Waiting
  <2> QED
    BY <1>1, <1>2, <1>5, <2>1 DEF CcbInv, WaitInv, Late, Uninvolved
<1>8. PreparedInv(c)'
  BY <1>1, <1>5 DEF CcbInv, PreparedInv, Mapped, TxOf
<1>9. LeftInv(c)'
  BY <1>1, <1>5 DEF CcbInv, LeftInv, Mapped, TxOf, Late, Uninvolved, registryVars
<1>10. FlowInv(c)'
  <2>1. ccb'[c].phase = "over"
    BY <1>1, <1>2, <1>5 DEF CcbInv, WaitInv
  <2> QED
    BY <2>1 DEF FlowInv
<1>11. CommittedInv(c)'
  BY <1>1, <1>5 DEF CcbInv, CommittedInv, Clean
<1>12. CcbInv(c)'
  BY <1>7, <1>8, <1>9, <1>10, <1>11 DEF CcbInv
<1>13. ASSUME NEW d \in Ccbs, d # c PROVE Untouched(d)
  BY <1>1, <1>2, <1>13 DEF Untouched, registryVars
<1>14. MapInv' /\ \A d \in Ccbs : CcbInv(d)'
  BY <1>6, <1>12, <1>13, OneTouched
<1>15. FinalStep
  BY <1>1 DEF FinalStep
<1> QED
  BY <1>1, <1>2, <1>3, <1>14, <1>15
     DEF CcbsInv, CcbType, QueueType, CacheType, RestType

-----------------------------------------------------------------------------
(***************************************************************************)
(* Administrative operations, reads and bad handles.                       *)
(***************************************************************************)
\* An administrative operation that is left open may hold the identifier of a
\* CCB; it has given nothing.
LEMMA LeakedInv ==
    ASSUME NEW d \in Ccbs, CcbInv(d), CacheOK(cache[d]), Untouched(d),
           ~Mapped(d), Mapped(d)', TxOf(d)' \in Transactions, TxOf(d)'.got = <<>>,
           TxOf(d)'.ccb = 0, TxOf(d)'.state = "open", <<"leak", 0>> \in faults',
           \A h \in DOMAIN txs' : txs'[h].ccb = d => h \in DOMAIN txs /\ txs'[h] = txs[h]
    PROVE  CcbInv(d)'
<1> USE DEF Untouched
<1>1. /\ Late(d) => Late(d)'
      /\ Uninvolved(d) => Uninvolved(d)'
      /\ Clean(d)' => Clean(d) /\ ~Late(d)
      /\ Waiting(d)' = Waiting(d)
  BY DEF Late, Uninvolved, Clean, FaultKinds, Waiting
<1>2. WaitInv(d)'
  BY <1>1 DEF CcbInv, WaitInv
<1>3. PreparedInv(d)'
  BY DEF PreparedInv
<1>4. LeftInv(d)'
  BY <1>1 DEF CcbInv, LeftInv
<1>5. FlowInv(d)'
  <2> SUFFICES ASSUME Clean(d)'
               PROVE  Given(d)' = Given(d) /\ Done(d)' = Done(d)
    BY <1>1 DEF CcbInv, FlowInv, Flow
  <2>1. cache[d].values = <<>>
    BY <1>1 DEF CcbInv, LeftInv, CacheOK
  <2>2. \A t \in Transactions : \A k : CacheOK(k) /\ k.values = <<>> => Gave(t, k) = t.got
    BY GaveType
  <2>3. Gave(TxOf(d)', cache[d]) = <<>>
    BY <2>1, <2>2
  <2>4. Given(d)' = Gave(TxOf(d)', cache[d])
    BY DEF Given, Gave, delivered
  <2> QED
    BY <2>3, <2>4 DEF Given, Done
<1>6. CommittedInv(d)'
  BY <1>1 DEF CcbInv, CommittedInv
<1> QED
  BY <1>2, <1>3, <1>4, <1>5, <1>6 DEF CcbInv

\* An administrative operation has a transaction of its own.
LEMMA AdminStep ==
    ASSUME CcbsInv, NEW o, handleAdminOperation(o)
    PROVE  CcbsInv' /\ FinalStep
<1>1. /\ ops < MaxOps /\ ops' = ops + 1
      /\ UNCHANGED <<registryVars, ccb, applierQueue, cache, applierError, wanted>>
  BY DEF handleAdminOperation
<1>2. PICK id \in {FirstAdmin} \cup {d + 1 : d \in DOMAIN ccbTxMap} :
         /\ freeCcbId(id)
         /\ \E t \in openTransaction(0, id) :
              \/ /\ ~t.ok
                 /\ txs' = t.txs /\ ccbTxMap' = t.map
                 /\ faults' = IF t.map = ccbTxMap THEN faults
                              ELSE faults \cup {<<"leak", 0>>}
              \/ /\ t.ok
                 /\ ccbTxMap' = removeCcbTransaction(t.map, id)
                 /\ \E state \in Ended \cup {"open"} :
                      /\ txs' = [t.txs EXCEPT ![t.h].state = state]
                      /\ faults' = IF state \in Ended THEN faults
                                   ELSE faults \cup {<<"leak", 0>>}
  BY DEF handleAdminOperation
<1>3. id \in Nat /\ id \notin DOMAIN ccbTxMap
  <2>1. DOMAIN ccbTxMap \subseteq Nat
    BY DEF CcbsInv, MapInv, MapOK
  <2> QED
    BY <1>2, <2>1, ProxyAssumption DEF freeCcbId
<1>4. PICK t \in openTransaction(0, id) :
         \/ /\ ~t.ok
            /\ txs' = t.txs /\ ccbTxMap' = t.map
            /\ faults' = IF t.map = ccbTxMap THEN faults
                         ELSE faults \cup {<<"leak", 0>>}
         \/ /\ t.ok
            /\ ccbTxMap' = removeCcbTransaction(t.map, id)
            /\ \E state \in Ended \cup {"open"} :
                 /\ txs' = [t.txs EXCEPT ![t.h].state = state]
                 /\ faults' = IF state \in Ended THEN faults
                              ELSE faults \cup {<<"leak", 0>>}
  BY <1>2
<1>5. /\ faults \subseteq faults' /\ RestType'
  <2>1. ops' \in 0 .. MaxOps
    BY <1>1, ProxyAssumption DEF CcbsInv, RestType
  <2>2. faults' = faults \/ faults' = faults \cup {<<"leak", 0>>}
    BY <1>4, Zenon
  <2>3. <<"leak", 0>> \in FaultKinds \X (Ccbs \cup {0})
    BY DEF FaultKinds
  <2>4. applierError' = applierError
    BY <1>1
  <2>5. faults \subseteq faults' /\ faults' \subseteq FaultKinds \X (Ccbs \cup {0})
    BY <2>2, <2>3 DEF CcbsInv, RestType
  <2> QED
    BY <2>1, <2>4, <2>5 DEF CcbsInv, RestType
<1>6. \A d \in Ccbs : Untouched(d)
  BY <1>1, <1>5 DEF Untouched, Queued, registryVars
<1>7. /\ Entered(0, id, t.txs, t.map)
      /\ t.ok => id \in DOMAIN t.map /\ t.map[id] = t.h
  BY <1>3, OpenEnters DEF CcbsInv
<1>8. /\ [NoTx EXCEPT !.ccb = 0] \in Transactions
      /\ [NoTx EXCEPT !.ccb = 0].ccb = 0 /\ [NoTx EXCEPT !.ccb = 0].state = "open"
      /\ [NoTx EXCEPT !.ccb = 0].got = <<>>
  BY TransactionType
<1>9. TxStep(id) /\ (id \in Ccbs => CcbInv(id)')
  <2>1. CASE /\ txs' = t.txs /\ ccbTxMap' = t.map
             /\ faults' = IF t.map = ccbTxMap THEN faults
                          ELSE faults \cup {<<"leak", 0>>}
    <3>1. Entered(0, id, txs', ccbTxMap')
      BY <1>7, <2>1
    <3>2. TxStep(id)
      BY <1>3, <3>1, OpenedStep DEF CcbsInv
    <3>3. ASSUME id \in Ccbs PROVE CcbInv(id)'
      <4>0. id # 0 /\ CcbInv(id) /\ Untouched(id)
        BY <1>6, <3>3, ProxyAssumption DEF CcbsInv
      <4>1. \A h \in DOMAIN txs' : txs'[h].ccb = id => h \in DOMAIN txs /\ txs'[h] = txs[h]
        BY <1>8, <3>1, <4>0 DEF Entered
      <4>2. CASE Mapped(id)'
        <5>1. ccbTxMap' # ccbTxMap
          BY <1>3, <4>2 DEF Mapped
        <5>2. <<"leak", 0>> \in faults'
          BY <2>1, <5>1
        <5>3. ccbTxMap'[id] \in DOMAIN txs' /\ ccbTxMap'[id] \notin DOMAIN txs
          BY <1>3, <3>1, <4>2 DEF Entered, MapOK, Mapped
        <5>4. /\ TxOf(id)' \in Transactions /\ TxOf(id)'.got = <<>>
              /\ TxOf(id)'.ccb = 0 /\ TxOf(id)'.state = "open"
          BY <1>8, <3>1, <5>3 DEF Entered, TxOf
        <5>5. CacheOK(cache[id])
          BY <3>3 DEF CcbsInv, CacheType
        <5> QED
          BY <1>3, <3>3, <4>0, <4>1, <4>2, <5>2, <5>4, <5>5, LeakedInv DEF Mapped
      <4>3. CASE ~Mapped(id)'
        <5>1. TxKept(id)
          BY <1>3, <4>1, <4>3 DEF TxKept, Mapped
        <5> QED
          BY <3>3, <4>0, <5>1, UntouchedInv
      <4> QED
        BY <4>2, <4>3
    <3> QED
      BY <3>2, <3>3
  <2>2. ASSUME t.ok, ccbTxMap' = removeCcbTransaction(t.map, id),
               NEW state \in Ended \cup {"open"},
               txs' = [t.txs EXCEPT ![t.h].state = state]
        PROVE  TxStep(id) /\ (id \in Ccbs => CcbInv(id)')
    <3> DEFINE T == t.txs
               M == t.map
               x == [T[M[id]] EXCEPT !.state = state]
    <3>1. /\ Entered(0, id, T, M) /\ MapOK(T, M) /\ id \in DOMAIN M
          /\ txs' = [T EXCEPT ![M[id]] = x] /\ ccbTxMap' = removeCcbTransaction(M, id)
      BY <1>7, <2>2 DEF Entered
    <3> HIDE DEF T, M
    <3>2. M[id] \notin DOMAIN txs /\ M[id] \in DOMAIN T /\ T \in Seq(Transactions)
      BY <1>3, <3>1 DEF Entered, MapOK
    <3>3. T[M[id]] = [NoTx EXCEPT !.ccb = 0] /\ T[M[id]] \in Transactions
      BY <3>1, <3>2, ElementOfSeq, LenProperties DEF Entered
    <3>4. /\ x \in Transactions /\ x.ccb = 0 /\ T[M[id]].ccb = 0
          /\ x.state \in Ended \/ x.state = "open"
      BY <1>8, <3>3 DEF Transactions, States, Ended
    <3> HIDE DEF x
    <3>5. MapInv'
      BY <3>1, <3>4, RemovalKeepsMap DEF MapInv
    <3>6. /\ DOMAIN txs' = DOMAIN T /\ txs'[M[id]] = x
          /\ \A i \in DOMAIN T : i # M[id] => txs'[i] = T[i]
      BY <3>1, <3>2, <3>4, Replaced
    <3>7. /\ DOMAIN ccbTxMap' = DOMAIN M \ {id}
          /\ \A e \in DOMAIN ccbTxMap' : ccbTxMap'[e] = M[e]
      BY <3>1 DEF removeCcbTransaction
    <3>8. \A h \in DOMAIN txs : h \in DOMAIN txs' /\ txs'[h] = txs[h]
      BY <3>1, <3>2, <3>6 DEF Entered
    <3>9. \A h \in DOMAIN txs' : h \notin DOMAIN txs => txs'[h].ccb = 0
      BY <1>8, <3>1, <3>4, <3>6 DEF Entered
    <3>10. \A d \in Ccbs : /\ Mapped(d)' <=> Mapped(d)
                           /\ Mapped(d) => ccbTxMap'[d] = ccbTxMap[d]
      BY <1>3, <3>1, <3>7 DEF Entered, Mapped
    <3>11. TxStep(id)
      BY <3>5, <3>8, <3>9, <3>10 DEF TxStep
    <3>12. ASSUME id \in Ccbs PROVE CcbInv(id)'
      <4>1. TxKept(id)
        BY <1>3, <3>8, <3>9, <3>10, <3>12, ProxyAssumption DEF TxKept, Mapped
      <4> QED
        BY <1>6, <3>12, <4>1, UntouchedInv DEF CcbsInv
    <3> QED
      BY <3>11, <3>12
  <2> QED
    BY <1>4, <2>1, <2>2
<1>10. MapInv' /\ \A d \in Ccbs : CcbInv(d)'
  BY <1>6, <1>9, OneTouched
<1>11. FinalStep
  BY <1>3, <1>9, StepIsFinal DEF Mapped
<1> QED
  BY <1>1, <1>5, <1>10, <1>11
     DEF CcbsInv, CcbType, QueueType, CacheType, QueueInv

\* A runtime attribute is read in a transaction of its own.
LEMMA ReadStep ==
    ASSUME CcbsInv, NEW o, handleRtAttrUpdate(o)
    PROVE  CcbsInv' /\ FinalStep
<1>1. /\ ops < MaxOps /\ ops' = ops + 1
      /\ UNCHANGED <<registryVars, ccb, applierQueue, ccbTxMap, cache, applierError, wanted>>
      /\ \/ UNCHANGED <<txs, faults>>
         \/ txs' = Append(txs, NoTx) /\ faults' = faults \cup {<<"leak", 0>>}
  BY DEF handleRtAttrUpdate
<1>2. /\ faults \subseteq faults' /\ RestType'
  <2>1. ops' \in 0 .. MaxOps
    BY <1>1, ProxyAssumption DEF CcbsInv, RestType
  <2> QED
    BY <1>1, <2>1 DEF CcbsInv, RestType, FaultKinds
<1>3. \A d \in Ccbs : Untouched(d)
  BY <1>1, <1>2 DEF Untouched, Queued, registryVars
<1>4. TxStep(0)
  <2>1. CASE UNCHANGED <<txs, faults>>
    BY <1>1, <2>1, NothingEnters DEF CcbsInv
  <2>2. CASE txs' = Append(txs, NoTx)
    <3>1. NoTx = [NoTx EXCEPT !.ccb = 0]
      BY DEF NoTx
    <3>2. NoTx \in Transactions /\ NoTx.ccb = 0 /\ NoTx.state = "open"
      BY <3>1, TransactionType
    <3>3. txs \in Seq(Transactions)
      BY DEF CcbsInv, MapInv, MapOK
    <3>4. /\ txs' \in Seq(Transactions)
          /\ Len(txs) \in Nat /\ DOMAIN txs = 1 .. Len(txs)
          /\ DOMAIN txs' = 1 .. Len(txs) + 1 /\ txs'[Len(txs) + 1] = NoTx
          /\ \A i \in DOMAIN txs : txs'[i] = txs[i]
      BY <2>2, <3>2, <3>3, Appended
    <3>5. \A i \in DOMAIN txs' : i \in DOMAIN txs \/ txs'[i] = NoTx
      BY <3>4
    <3>6. \A i \in DOMAIN txs : i \in DOMAIN txs'
      BY <3>4
    <3>7. MapOK(txs', ccbTxMap)
      BY <3>2, <3>4, <3>5, <3>6 DEF CcbsInv, MapInv, MapOK
    <3>8. MapInv'
      BY <1>1, <3>7 DEF MapInv
    <3> QED
      BY <1>1, <3>2, <3>4, <3>5, <3>6, <3>8 DEF TxStep, Mapped
  <2> QED
    BY <1>1, <2>1, <2>2
<1>5. MapInv' /\ \A d \in Ccbs : CcbInv(d)'
  BY <1>3, <1>4, OneTouched, ProxyAssumption
<1>6. FinalStep
  <2>1. CASE UNCHANGED <<txs, faults>>
    BY <2>1 DEF FinalStep
  <2>2. CASE txs' = Append(txs, NoTx)
    <3>1. txs \in Seq(Transactions) /\ NoTx \in Transactions
      BY TransactionType, EmptySeq DEF CcbsInv, MapInv, MapOK, NoTx, Transactions, States
    <3>2. \A i \in DOMAIN txs : txs'[i] = txs[i]
      BY <2>2, <3>1, Appended
    <3> QED
      BY <3>2 DEF FinalStep
  <2> QED
    BY <1>1, <2>1, <2>2
<1> QED
  BY <1>1, <1>2, <1>5, <1>6
     DEF CcbsInv, CcbType, QueueType, CacheType, QueueInv

\* The handle to IMM breaks: the open CCBs are over, their callbacks are lost.
LEMMA BadHandleStep ==
    ASSUME CcbsInv, BadHandle
    PROVE  CcbsInv' /\ FinalStep
<1>1. /\ ccb' = [c \in Ccbs |-> IF ccb[c].phase = "none" THEN ccb[c]
                                ELSE [ccb[c] EXCEPT !.phase = "over"]]
      /\ applierQueue' = <<>> /\ "handle" \in immFaults'
      /\ UNCHANGED <<txs, ccbTxMap, cache, applierError, wanted, ops, faults>>
  BY DEF BadHandle, reinitializeHandles
<1>2. CcbType'
  BY <1>1 DEF CcbsInv, CcbType, Phases
<1>3. QueueType' /\ QueueInv' /\ \A c : Queued(c)' = {}
  <2>1. DOMAIN applierQueue' = {}
    BY <1>1
  <2> QED
    BY <1>1, <2>1, EmptySeq DEF CcbsInv, QueueType, QueueInv, Queued, Elements
<1>4. MapInv' /\ CacheType' /\ RestType' /\ FinalStep
  BY <1>1 DEF CcbsInv, MapInv, CacheType, RestType, FinalStep
<1>5. ASSUME NEW c \in Ccbs PROVE CcbInv(c)'
  <2>1. /\ ccb'[c].applier = ccb[c].applier /\ ccb'[c].main = ccb[c].main
        /\ IF ccb[c].phase = "none" THEN ccb'[c].phase = "none" ELSE ccb'[c].phase = "over"
    BY <1>1 DEF CcbsInv, CcbType
  <2>2. CcbInv(c) /\ Waiting(c)' = {} /\ Queued(c)' = {}
    BY <1>3 DEF CcbsInv, Waiting
  <2>3. WaitInv(c)'
    BY <1>1, <2>1, <2>2 DEF CcbInv, WaitInv
  <2>4. PreparedInv(c)'
    BY <1>1, <2>1, <2>2 DEF CcbInv, PreparedInv, Mapped, TxOf
  <2>5. LeftInv(c)'
    BY <1>1, <2>1, <2>2 DEF CcbInv, LeftInv, Mapped, Late
  <2>6. FlowInv(c)'
    <3> SUFFICES ASSUME Clean(c)', ccb'[c].phase = "none", c \notin applierError'
                 PROVE  Flow(c)'
      BY <2>1 DEF FlowInv
    <3>1. ccb[c].phase = "none" /\ Queued(c) = {}
      BY <2>1, <2>2 DEF CcbInv, WaitInv
    <3>2. FlowOK(Given(c), wanted[c], Queued(c))
      BY <1>1, <2>2, <3>1 DEF CcbInv, FlowInv, Flow, Clean, Mapped, TxOf
    <3>3. Given(c)' = Given(c)
      BY <1>1 DEF Given, Mapped, TxOf, Gave, delivered
    <3>4. FlowOK(Given(c)', wanted'[c], Queued(c)')
      BY <1>1, <2>2, <3>1, <3>2, <3>3
    <3> QED
      BY <3>4 DEF Flow
  <2>7. CommittedInv(c)'
    BY <1>1, <2>1, <2>2 DEF CcbInv, CommittedInv, Clean
  <2> QED
    BY <2>3, <2>4, <2>5, <2>6, <2>7 DEF CcbInv
<1> QED
  BY <1>2, <1>3, <1>4, <1>5 DEF CcbsInv

\* The registrar, and nobody at all.
LEMMA RegistrarStep ==
    ASSUME CcbsInv, RegistrarNext \/ UNCHANGED registryVars, UNCHANGED proxyVars
    PROVE  CcbsInv' /\ FinalStep
<1>1. UNCHANGED <<ccb, applierQueue, txs, ccbTxMap, cache, applierError, wanted, ops, faults>>
  BY DEF proxyVars
<1>2. immFaults \subseteq immFaults'
  BY DEF RegistrarNext, register, unregister, registerComplexTypeAttrClass,
         unregisterComplexTypeAttrClass, registerEnds, registerFails,
         unregisterEnds, registryVars
<1>3. ASSUME NEW d \in Ccbs PROVE CcbInv(d)'
  <2>1. Untouched(d)
    BY <1>1, <1>2 DEF Untouched, Queued
  <2>2. TxKept(d)
    BY <1>1, NothingEnters DEF CcbsInv
  <2> QED
    BY <2>1, <2>2, UntouchedInv DEF CcbsInv
<1> QED
  BY <1>1, <1>3 DEF CcbsInv, CcbType, QueueType, CacheType, RestType, MapInv,
                    QueueInv, FinalStep

-----------------------------------------------------------------------------
\* The invariants hold at first,
LEMMA CcbsInit == Init => CcbsInv
<1> SUFFICES ASSUME Init PROVE CcbsInv
  OBVIOUS
<1>1. /\ ccb = [c \in Ccbs |-> NotStarted]
      /\ applierQueue = <<>> /\ txs = <<>> /\ ccbTxMap = <<>>
      /\ cache = [c \in Ccbs |-> Unused] /\ applierError = {}
      /\ wanted = [c \in Ccbs |-> <<>>] /\ ops = 0 /\ faults = {}
  BY DEF Init
<1>2. DOMAIN txs = {} /\ DOMAIN ccbTxMap = {} /\ DOMAIN applierQueue = {}
  BY <1>1
<1>3. CcbType
  BY <1>1 DEF CcbType, NotStarted, Phases
<1>4. QueueType /\ QueueInv /\ \A c : Queued(c) = {}
  BY <1>1, <1>2, EmptySeq DEF QueueType, QueueInv, Queued, Elements
<1>5. MapInv
  BY <1>1, <1>2, EmptySeq DEF MapInv, MapOK
<1>6. CacheType
  BY <1>1, EmptySeq DEF CacheType, CacheOK, CacheEntries, Unused
<1>7. RestType
  BY <1>1, ProxyAssumption DEF RestType
<1>8. ASSUME NEW c \in Ccbs PROVE CcbInv(c)
  <2>1. /\ ccb[c].phase = "none" /\ ~ccb[c].applier /\ ~cache[c].inUse
        /\ ~Mapped(c) /\ Queued(c) = {} /\ wanted[c] = <<>>
    BY <1>1, <1>2, <1>4 DEF NotStarted, Unused, Mapped
  <2>2. WaitInv(c)
    BY <1>1, <2>1 DEF WaitInv, Waiting
  <2>3. PreparedInv(c) /\ LeftInv(c) /\ CommittedInv(c)
    BY <1>2, <2>1 DEF PreparedInv, LeftInv, CommittedInv
  <2>4. FlowInv(c)
    <3>1. Given(c) = <<>> /\ Len(<<>>) = 0
      BY <2>1, EmptySeq DEF Given
    <3>2. FlowOK(Given(c), wanted[c], Queued(c))
      BY <2>1, <3>1 DEF FlowOK
    <3> QED
      BY <2>1, <3>2 DEF FlowInv, Flow
  <2> QED
    BY <2>2, <2>3, <2>4 DEF CcbInv
<1> QED
  BY <1>3, <1>4, <1>5, <1>6, <1>7, <1>8 DEF CcbsInv

\* and every step keeps them.
LEMMA CcbsStep == RegistryTypeOK /\ CcbsInv /\ [Next]_vars => CcbsInv' /\ FinalStep
<1> SUFFICES ASSUME RegistryTypeOK, CcbsInv, [Next]_vars
             PROVE  CcbsInv' /\ FinalStep
  OBVIOUS
<1>1. CASE RegistrarNext /\ UNCHANGED proxyVars
  BY <1>1, RegistrarStep
<1>2. CASE Dispatch
  <2>1. ASSUME NEW c \in Ccbs, NEW o \in Objects, handleCcbCreateObject(c, o)
        PROVE  CcbsInv' /\ FinalStep
    BY <2>1, MainStep DEF handleCcbCreateObject, Kinds
  <2>2. ASSUME NEW c \in Ccbs, NEW o \in Objects, handleCcbDeleteObject(c, o)
        PROVE  CcbsInv' /\ FinalStep
    BY <2>2, MainStep DEF handleCcbDeleteObject, Kinds
  <2>3. ASSUME NEW c \in Ccbs, NEW o \in Objects, handleCcbModification(c, o)
        PROVE  CcbsInv' /\ FinalStep
    <3>1. CASE mainCallback(c, "modify", o, None)
      BY <2>3, <3>1, MainStep DEF Kinds
    <3>2. ASSUME NEW ct \in Struct[o], mainCallback(c, "clear", o, <<o, ct>>)
          PROVE  CcbsInv' /\ FinalStep
      <4>1. <<o, ct>> \in Paths
        BY <3>2, RegistryAssumption DEF Paths, Objects
      <4> SUFFICES ASSUME NEW path, path = <<o, ct>> PROVE CcbsInv' /\ FinalStep
        OBVIOUS
      <4> QED
        BY <3>2, <4>1, MainStep DEF Kinds
    <3> QED
      BY <2>3, <3>1, <3>2 DEF handleCcbModification
  <2>4. ASSUME NEW c \in Ccbs, handleCcbCompleted(c) PROVE CcbsInv' /\ FinalStep
    BY <2>4, CompletedStep
  <2>5. ASSUME NEW c \in Ccbs, handleCcbApply(c) PROVE CcbsInv' /\ FinalStep
    BY <2>5, ApplyStep
  <2>6. ASSUME NEW c \in Ccbs, handleCcbAbort(c) PROVE CcbsInv' /\ FinalStep
    BY <2>6, AbortStep
  <2>7. ASSUME NEW c \in Ccbs, EndUninvolved(c) PROVE CcbsInv' /\ FinalStep
    BY <2>7, UninvolvedStep
  <2>8. ASSUME NEW c \in Ccbs, NEW path \in Paths, ChangeStruct(c, path)
        PROVE  CcbsInv' /\ FinalStep
    BY <2>8, ChangeStructStep
  <2>9. CASE handleComplexTypeCcbChange
    BY <2>9, ApplierChangeStep
  <2>10. CASE handleComplexTypeCcbEnd
    BY <2>10, ApplierEndStep
  <2>11. ASSUME NEW o \in Objects, handleAdminOperation(o) PROVE CcbsInv' /\ FinalStep
    BY <2>11, AdminStep
  <2>12. ASSUME NEW o \in Objects, handleRtAttrUpdate(o) PROVE CcbsInv' /\ FinalStep
    BY <2>12, ReadStep
  <2> QED
    BY <1>2, <2>1, <2>2, <2>3, <2>4, <2>5, <2>6, <2>7, <2>8, <2>9, <2>10, <2>11,
       <2>12 DEF Dispatch
<1>3. CASE BadHandle
  BY <1>3, BadHandleStep
<1>4. CASE UNCHANGED vars
  BY <1>4, RegistrarStep DEF vars
<1> QED
  BY <1>1, <1>2, <1>3, <1>4 DEF Next

\* The invariants hold.
LEMMA CcbsCorrect == Spec => []CcbsInv /\ []RegistryInv
<1>1. RegistryInv => RegistryTypeOK
  BY DEF RegistryInv
<1> QED
  BY <1>1, CcbsInit, CcbsStep, ProxyRegistry, PTL DEF Spec

-----------------------------------------------------------------------------
(***************************************************************************)
(* The state of the proxy keeps its type: the transactions in the map      *)
(* exist, and cached values have an attribute and an interface.            *)
(***************************************************************************)
THEOREM ProxyTypeCorrect == Spec => []TypeOK
<1>1. RegistryInv => RegistryTypeOK
  BY DEF RegistryInv
<1> QED
  BY <1>1, CcbsCorrect, InvTypeOK, PTL

(***************************************************************************)
(* A committed transaction of a CCB has given exactly the changes of the   *)
(* CCB, in their order, unless one of the recorded faults happened.        *)
(***************************************************************************)
THEOREM CommittedWhole == Spec => []CommittedIsWhole
<1>1. CcbsInv => CommittedIsWhole
  <2> SUFFICES ASSUME CcbsInv, NEW h \in DOMAIN txs, txs[h].ccb # 0,
                      txs[h].state = "committed",
                      \A f \in FaultKinds \ {"leak", "uninvolved"} :
                         <<f, txs[h].ccb>> \notin faults
               PROVE  txs[h].got = wanted[txs[h].ccb]
    BY DEF CommittedIsWhole
  <2>1. txs[h] \in Transactions
    BY ElementOfSeq, LenProperties DEF CcbsInv, MapInv, MapOK
  <2>2. txs[h].ccb \in Ccbs
    BY <2>1, TransactionType
  <2>3. CommittedInv(txs[h].ccb) /\ Clean(txs[h].ccb)
    BY <2>2 DEF CcbsInv, CcbInv, Clean
  <2> QED
    BY <2>3 DEF CommittedInv
<1> QED
  BY <1>1, CcbsCorrect, PTL

(***************************************************************************)
(* A CCB that is over and that the applier has heard the end of leaves no  *)
(* transaction, no cached values and no error behind, with the exceptions  *)
(* that CcbLeavesNothing names.                                            *)
(***************************************************************************)
THEOREM NothingLeft == Spec => []CcbLeavesNothing
<1>1. CcbsInv => CcbLeavesNothing
  <2> SUFFICES ASSUME CcbsInv, NEW c \in Ccbs, ccb[c].phase = "over",
                      \A i \in DOMAIN applierQueue : applierQueue[i].ccb # c,
                      "handle" \notin immFaults, ~Late(c), ~Uninvolved(c)
               PROVE  /\ c \notin DOMAIN ccbTxMap \/ <<"leak", 0>> \in faults
                      /\ ~cache[c].inUse /\ c \notin applierError
                      /\ \A h \in DOMAIN txs : txs[h].ccb = c => txs[h].state \in Ended
    BY DEF CcbLeavesNothing, Late, Uninvolved
  <2>1. Queued(c) = {}
    BY DEF Queued, Elements
  <2>2. /\ Mapped(c) => TxOf(c).ccb = 0 /\ <<"leak", 0>> \in faults
        /\ ~cache[c].inUse /\ c \notin applierError
    BY <2>1 DEF CcbsInv, CcbInv, LeftInv
  <2>3. ASSUME NEW h \in DOMAIN txs, txs[h].ccb = c, txs[h].state \notin Ended
        PROVE  FALSE
    <3>1. c # 0
      BY ProxyAssumption
    <3>2. Mapped(c) /\ ccbTxMap[c] = h
      BY <2>3, <3>1 DEF CcbsInv, MapInv, MapOK, Mapped
    <3> QED
      BY <2>2, <2>3, <3>1, <3>2 DEF TxOf
  <2> QED
    BY <2>2, <2>3 DEF Mapped
<1> QED
  BY <1>1, CcbsCorrect, PTL

(***************************************************************************)
(* A transaction that is prepared or ended gets nothing more, and an ended *)
(* one stays as it is, unless a callback of the applier came too late.     *)
(***************************************************************************)
THEOREM PreparedStaysFinal == Spec => PreparedIsFinal
<1>1. RegistryInv => RegistryTypeOK
  BY DEF RegistryInv
<1>2. FinalStep =>
        \A h \in DOMAIN txs :
          txs[h].state # "open" =>
             \/ /\ txs'[h].got = txs[h].got
                /\ txs[h].state \in Ended => txs'[h] = txs[h]
             \/ \E c \in Ccbs : /\ c \in DOMAIN ccbTxMap /\ ccbTxMap[c] = h
                               /\ <<"late", c>> \in faults'
  BY DEF FinalStep
<1> QED
  BY <1>1, <1>2, CcbsCorrect, CcbsStep, PTL DEF Spec, PreparedIsFinal
=============================================================================
