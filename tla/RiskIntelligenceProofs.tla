----------------------- MODULE RiskIntelligenceProofs -----------------------
(***************************************************************************)
(* Proofs about RiskIntelligence, for any suppliers, indicators, models,   *)
(* tasks and requests.                                                     *)
(***************************************************************************)
EXTENDS RiskIntelligence, FiniteSetTheorems, SequenceTheorems, WellFoundedInduction, TLAPS

-----------------------------------------------------------------------------
(* Numbers. *)

LEMMA LeastNumber ==
    ASSUME NEW T \in SUBSET Nat, T # {}
    PROVE  \E n \in T : \A m \in T : n <= m
  <1>1. \E n \in T : \A m \in T : <<m, n>> \notin OpToRel(<, Nat)
    BY WFMin, NatLessThanWellFounded
  <1>2. ASSUME NEW m \in Nat, NEW n \in Nat, m < n PROVE <<m, n>> \in OpToRel(<, Nat)
    <2>1. <<m, n>> \in Nat \X Nat /\ <<m, n>>[1] < <<m, n>>[2] BY <1>2
    <2> QED BY <2>1 DEF OpToRel
  <1>3. PICK n \in T : \A m \in T : <<m, n>> \notin OpToRel(<, Nat) BY <1>1
  <1>4. \A m \in T : ~(m < n) /\ m \in Nat /\ n \in Nat BY <1>2, <1>3
  <1> QED BY <1>4

LEMMA GreatestNumber ==
    ASSUME NEW T \in SUBSET Nat, NEW b \in Nat, T # {}, \A n \in T : n <= b
    PROVE  \E n \in T : \A m \in T : m <= n
  <1> DEFINE D == {k \in Nat : \E n \in T : k = b - n}
  <1>1. D # {} /\ D \in SUBSET Nat
    <2>1. PICK n \in T : n <= b OBVIOUS
    <2>2. b - n \in D BY <2>1
    <2> QED BY <2>2
  <1>2. PICK k \in D : \A j \in D : k <= j BY <1>1, LeastNumber
  <1>3. PICK n \in T : k = b - n BY <1>2
  <1>4. ASSUME NEW m \in T PROVE m <= n
    <2>1. m \in Nat /\ m <= b /\ n \in Nat OBVIOUS
    <2>2. b - m \in D BY <2>1
    <2>3. k <= b - m BY <1>2, <2>2
    <2> QED BY <1>3, <2>1, <2>3
  <1> QED BY <1>4

-----------------------------------------------------------------------------
(* Indicators. *)

Row == [status : KRIStatus, at : Nat, breach : BOOLEAN, seen : Nat]
Flushed == [pair : Pairs, row : Row]

(* Requests and sweeps, and the rows each has flushed and not committed. *)
Holders == ({"record"} \X Recorders) \cup ({"sweep"} \X Sweeps)
Unsaved(h) == IF h[1] = "record" THEN {record[h[2]]} \ {NoRecord} ELSE sweep[h[2]].rows

KriTypes ==
    /\ kri \subseteq Kris
    /\ snapshots \in [Pairs -> Seq(Row)]
    /\ record \in [Recorders -> {NoRecord} \cup Flushed]
    /\ sweep \in [Sweeps -> [open : BOOLEAN, todo : SUBSET Pairs, rows : SUBSET Flushed]]
    /\ measured \in 0..MaxSnapshots

(* A row was right when it was measured: it is a breach exactly if it is worse
   than the latest of the rows seen. *)
RightRow(sq, r) ==
    /\ r.seen <= Len(sq)
    /\ \A j \in 1..r.seen : sq[j].at < r.at
    /\ r.breach <=> \E j \in 1..r.seen :
          /\ \A l \in 1..r.seen : sq[l].at <= sq[j].at
          /\ Rank[r.status] > Rank[sq[j].status]

(* Every instant is taken once. *)
Apart(sq) == \A i, j \in 1..Len(sq) : sq[i].at = sq[j].at => i = j

CommittedRight ==
    \A p \in Pairs :
        /\ Apart(snapshots[p])
        /\ \A i \in 1..Len(snapshots[p]) :
              /\ snapshots[p][i].at <= measured
              /\ RightRow(snapshots[p], snapshots[p][i])

FlushedRight ==
    \A h \in Holders : \A x \in Unsaved(h) :
        /\ x.row.at <= measured
        /\ RightRow(snapshots[x.pair], x.row)
        /\ \A i \in 1..Len(snapshots[x.pair]) : snapshots[x.pair][i].at # x.row.at

HeldApart ==
    \A h, g \in Holders : \A x \in Unsaved(h), y \in Unsaved(g) :
        x.row.at = y.row.at => h = g /\ x = y

(* A sweep measures a pair once. *)
PairsApart ==
    \A h \in Holders : \A x, y \in Unsaved(h) : x.pair = y.pair => x = y
TodoLeft ==
    \A w \in Sweeps : \A x \in sweep[w].rows : x.pair \notin sweep[w].todo

KrisInv ==
    /\ KriTypes /\ CommittedRight
    /\ FlushedRight /\ HeldApart /\ PairsApart /\ TodoLeft

LEMMA HeldFlushed ==
    ASSUME KriTypes, NEW h \in Holders
    PROVE  Unsaved(h) \in SUBSET Flushed
  <1>1. CASE h \in {"record"} \X Recorders
    <2>1. h[1] = "record" /\ h[2] \in Recorders BY <1>1
    <2> QED BY <2>1 DEF Unsaved, KriTypes
  <1>2. CASE h \in {"sweep"} \X Sweeps
    <2>1. h[1] = "sweep" /\ h[2] \in Sweeps BY <1>2
    <2> QED BY <2>1 DEF Unsaved, KriTypes
  <1> QED BY <1>1, <1>2 DEF Holders

(* What was right about a row stays so. *)
LEMMA RightGrows ==
    ASSUME NEW sq \in Seq(Row), NEW r \in Row, NEW e \in Row, RightRow(sq, r)
    PROVE  RightRow(Append(sq, e), r)
  <1>1. /\ Len(Append(sq, e)) = Len(sq) + 1 /\ Len(sq) \in Nat
        /\ \A i \in 1..Len(sq) : Append(sq, e)[i] = sq[i]
    OBVIOUS
  <1>2. r.seen \in Nat /\ r.seen <= Len(sq) BY DEF Row, RightRow
  <1>3. \A j \in 1..r.seen : Append(sq, e)[j] = sq[j] BY <1>1, <1>2
  <1>4. \A j \in 1..r.seen : sq[j].at < r.at BY DEF RightRow
  <1>5. r.breach <=> \E j \in 1..r.seen :
          /\ \A l \in 1..r.seen : sq[l].at <= sq[j].at
          /\ Rank[r.status] > Rank[sq[j].status]
    BY DEF RightRow
  <1> QED BY <1>1, <1>2, <1>3, <1>4, <1>5 DEF RightRow

(* What a measurement makes of the committed rows. *)
LEMMA MeasuredRight ==
    ASSUME KrisInv, NEW p \in Pairs, NEW v \in Values, Measure
    PROVE  /\ Snapshot(p, v) \in Row
           /\ RightRow(snapshots[p], Snapshot(p, v))
           /\ Snapshot(p, v).at = measured + 1
           /\ measured \in Nat /\ measured' = measured + 1 /\ measured' \in 0..MaxSnapshots
  <1> DEFINE sq == snapshots[p]
             r == Snapshot(p, v)
  <1>1. p[2] \in Kris BY DEF Pairs
  <1>2. EvaluateThreshold(v, p[2]) \in KRIStatus BY DEF EvaluateThreshold, KRIStatus
  <1>3. sq \in Seq(Row) /\ Len(sq) \in Nat /\ measured \in Nat BY DEF KrisInv, KriTypes
  <1>4. Breach(p, EvaluateThreshold(v, p[2])) \in BOOLEAN BY DEF Breach
  <1>5. /\ r.status = EvaluateThreshold(v, p[2]) /\ r.at = measured + 1
        /\ r.breach = Breach(p, r.status) /\ r.seen = Len(sq)
        /\ r \in Row
    BY <1>2, <1>3, <1>4 DEF Snapshot, Row
  <1>6. \A j \in 1..Len(sq) : sq[j].at \in Nat /\ sq[j].at <= measured
    <2>1. \A j \in 1..Len(sq) : sq[j] \in Row BY <1>3
    <2> QED BY <2>1 DEF Row, KrisInv, CommittedRight
  <1>7. DOMAIN sq = 1..Len(sq) BY <1>3
  <1>8. r.breach <=> \E j \in 1..Len(sq) :
          /\ \A l \in 1..Len(sq) : sq[l].at <= sq[j].at
          /\ Rank[r.status] > Rank[sq[j].status]
    BY <1>5, <1>7 DEF Breach, Latest, Worsened
  <1>9. RightRow(sq, r) BY <1>3, <1>5, <1>6, <1>8 DEF RightRow
  <1>10. measured' = measured + 1 /\ measured' \in 0..MaxSnapshots
    BY <1>3, KriAssumption DEF Measure, KrisInv, KriTypes
  <1> QED BY <1>3, <1>5, <1>9, <1>10

(* The parts of the invariant that follow from who holds which rows. *)
RowsInv == CommittedRight /\ FlushedRight /\ HeldApart /\ PairsApart

(* A holder flushes a row that it measures now. *)
LEMMA FlushKeeps ==
    ASSUME KrisInv, NEW p \in Pairs, NEW v \in Values, Measure, UNCHANGED snapshots,
           NEW h \in Holders,
           Unsaved(h)' = Unsaved(h) \cup {[pair |-> p, row |-> Snapshot(p, v)]},
           \A x \in Unsaved(h) : x.pair # p,
           \A g \in Holders \ {h} : Unsaved(g)' = Unsaved(g)
    PROVE  RowsInv'
  <1> DEFINE new == [pair |-> p, row |-> Snapshot(p, v)]
  <1>1. /\ new.pair = p /\ RightRow(snapshots[p], new.row) /\ new.row.at = measured + 1
        /\ new \in Flushed
        /\ measured \in Nat /\ measured' = measured + 1
    BY MeasuredRight DEF Flushed
  <1> HIDE DEF new
  <1>2. \A g \in Holders : \A x \in Unsaved(g) : x \in Flushed /\ x.row.at \in Nat
    BY HeldFlushed DEF KrisInv, Flushed, Row
  <1>3. \A q \in Pairs : \A i \in 1..Len(snapshots[q]) :
           snapshots[q][i].at \in Nat /\ snapshots[q][i].at <= measured
    <2> SUFFICES ASSUME NEW q \in Pairs, NEW i \in 1..Len(snapshots[q])
                 PROVE  snapshots[q][i].at \in Nat /\ snapshots[q][i].at <= measured
      OBVIOUS
    <2>1. snapshots[q] \in Seq(Row) BY DEF KrisInv, KriTypes
    <2>2. snapshots[q][i] \in Row BY <2>1
    <2> QED BY <2>2 DEF Row, KrisInv, CommittedRight
  <1>4. CommittedRight' BY <1>1, <1>3 DEF KrisInv, CommittedRight
  <1>5. \A g \in Holders : \A x \in Unsaved(g)' : x \in Unsaved(g) \/ (g = h /\ x = new)
    <2> SUFFICES ASSUME NEW g \in Holders, NEW x \in Unsaved(g)'
                 PROVE  x \in Unsaved(g) \/ (g = h /\ x = new)
      OBVIOUS
    <2>1. CASE g = h BY <2>1 DEF new
    <2>2. CASE g # h BY <2>2
    <2> QED BY <2>1, <2>2
  <1>6. \A g \in Holders : \A x \in Unsaved(g) : x.row.at <= measured
    BY DEF KrisInv, FlushedRight
  <1>7. FlushedRight'
    <2> SUFFICES ASSUME NEW g \in Holders, NEW x \in Unsaved(g)'
                 PROVE  /\ x.row.at <= measured'
                        /\ RightRow(snapshots[x.pair], x.row)
                        /\ \A i \in 1..Len(snapshots[x.pair]) :
                              snapshots[x.pair][i].at # x.row.at
      BY DEF FlushedRight
    <2>1. CASE x \in Unsaved(g) BY <1>1, <1>2, <1>6, <2>1 DEF KrisInv, FlushedRight
    <2>2. CASE x = new BY <1>1, <1>3, <2>2
    <2> QED BY <1>5, <2>1, <2>2
  <1>8. HeldApart'
    <2> SUFFICES ASSUME NEW g \in Holders, NEW f \in Holders,
                        NEW x \in Unsaved(g)', NEW y \in Unsaved(f)', x.row.at = y.row.at
                 PROVE  g = f /\ x = y
      BY DEF HeldApart
    <2>1. CASE x \in Unsaved(g) /\ y \in Unsaved(f) BY <2>1 DEF KrisInv, HeldApart
    <2>2. CASE x \in Unsaved(g) /\ y = new BY <1>1, <1>2, <1>6, <2>2
    <2>3. CASE x = new /\ y \in Unsaved(f) BY <1>1, <1>2, <1>6, <2>3
    <2> QED BY <1>5, <2>1, <2>2, <2>3
  <1>9. PairsApart'
    <2> SUFFICES ASSUME NEW g \in Holders, NEW x \in Unsaved(g)', NEW y \in Unsaved(g)',
                        x.pair = y.pair
                 PROVE  x = y
      BY DEF PairsApart
    <2>1. CASE x \in Unsaved(g) /\ y \in Unsaved(g) BY <2>1 DEF KrisInv, PairsApart
    <2>2. CASE x = new \/ y = new
      <3>1. \A f \in Holders : new \notin Unsaved(f) BY <1>1, <1>6
      <3> QED BY <1>1, <1>5, <2>2, <3>1
    <2> QED BY <1>5, <2>1, <2>2
  <1> QED BY <1>4, <1>7, <1>8, <1>9 DEF RowsInv

(* A holder's rows are committed. *)
LEMMA CommitKeeps ==
    ASSUME KrisInv, UNCHANGED measured, NEW h \in Holders, Unsaved(h)' = {},
           \A g \in Holders \ {h} : Unsaved(g)' = Unsaved(g),
           \A p \in Pairs :
              \/ snapshots'[p] = snapshots[p]
              \/ \E x \in Unsaved(h) :
                    x.pair = p /\ snapshots'[p] = Append(snapshots[p], x.row)
    PROVE  RowsInv'
  <1>1. \A g \in Holders : \A x \in Unsaved(g) :
           x \in Flushed /\ x.row \in Row /\ x.row.at \in Nat /\ x.pair \in Pairs
    BY HeldFlushed DEF KrisInv, Flushed, Row
  <1>2. \A p \in Pairs : snapshots[p] \in Seq(Row) BY DEF KrisInv, KriTypes
  <1>3. \A g \in Holders : \A x \in Unsaved(g)' : x \in Unsaved(g) /\ g # h OBVIOUS
  <1>4. ASSUME NEW p \in Pairs, NEW r \in Row, RightRow(snapshots[p], r)
        PROVE  RightRow(snapshots'[p], r)
    <2>1. PICK sq \in Seq(Row) : sq = snapshots[p] BY <1>2
    <2>2. \A e \in Row : RightRow(Append(sq, e), r) BY <1>4, <2>1, RightGrows
    <2>3. CASE snapshots'[p] = snapshots[p] BY <1>4, <2>3
    <2>4. CASE snapshots'[p] # snapshots[p]
      <3>1. PICK x \in Unsaved(h) : snapshots'[p] = Append(sq, x.row) BY <2>1, <2>4
      <3> QED BY <1>1, <2>2, <3>1
    <2> QED BY <2>3, <2>4
  <1>5. ASSUME NEW p \in Pairs
        PROVE  /\ Apart(snapshots'[p])
               /\ \A i \in 1..Len(snapshots'[p]) :
                     /\ snapshots'[p][i].at <= measured
                     /\ RightRow(snapshots'[p], snapshots'[p][i])
    <2>1. CASE snapshots'[p] = snapshots[p] BY <2>1 DEF KrisInv, CommittedRight
    <2>2. CASE \E x \in Unsaved(h) : x.pair = p /\ snapshots'[p] = Append(snapshots[p], x.row)
      <3>1. PICK x \in Unsaved(h) : x.pair = p /\ snapshots'[p] = Append(snapshots[p], x.row)
        BY <2>2
      <3>2. PICK sq \in Seq(Row), r \in Row : sq = snapshots[p] /\ r = x.row BY <1>1, <1>2
      <3>3. /\ snapshots'[p] = Append(sq, r)
            /\ Len(Append(sq, r)) = Len(sq) + 1 /\ Len(sq) \in Nat
            /\ Append(sq, r)[Len(sq) + 1] = r
            /\ \A i \in 1..Len(sq) : Append(sq, r)[i] = sq[i]
        BY <3>1, <3>2
      <3>4. /\ r.at <= measured /\ RightRow(sq, r)
            /\ \A i \in 1..Len(sq) : sq[i].at # r.at
        BY <3>1, <3>2 DEF KrisInv, FlushedRight
      <3>5. /\ Apart(sq)
            /\ \A i \in 1..Len(sq) :
                  sq[i] \in Row /\ sq[i].at <= measured /\ RightRow(sq, sq[i])
        BY <3>2 DEF KrisInv, CommittedRight
      <3>6. Apart(Append(sq, r)) BY <3>3, <3>4, <3>5 DEF Apart
      <3>7. ASSUME NEW i \in 1..(Len(sq) + 1)
            PROVE  /\ Append(sq, r)[i].at <= measured
                   /\ RightRow(Append(sq, r), Append(sq, r)[i])
        <4>1. CASE i \in 1..Len(sq) BY <3>2, <3>3, <3>5, <4>1, RightGrows
        <4>2. CASE i = Len(sq) + 1 BY <3>2, <3>3, <3>4, <4>2, RightGrows
        <4> QED BY <3>3, <4>1, <4>2
      <3> QED BY <3>3, <3>6, <3>7
    <2> QED BY <2>1, <2>2
  <1>6. CommittedRight' BY <1>5 DEF CommittedRight
  <1>7. FlushedRight'
    <2> SUFFICES ASSUME NEW g \in Holders, NEW x \in Unsaved(g)'
                 PROVE  /\ x.row.at <= measured
                        /\ RightRow(snapshots'[x.pair], x.row)
                        /\ \A i \in 1..Len(snapshots'[x.pair]) :
                              snapshots'[x.pair][i].at # x.row.at
      BY DEF FlushedRight
    <2>1. /\ x.row.at <= measured /\ RightRow(snapshots[x.pair], x.row)
          /\ \A i \in 1..Len(snapshots[x.pair]) : snapshots[x.pair][i].at # x.row.at
      BY <1>3 DEF KrisInv, FlushedRight
    <2>2. RightRow(snapshots'[x.pair], x.row) BY <1>1, <1>3, <1>4, <2>1
    <2>3. ASSUME NEW y \in Unsaved(h) PROVE y.row.at # x.row.at
      BY <1>3 DEF KrisInv, HeldApart
    <2>4. ASSUME NEW i \in 1..Len(snapshots'[x.pair])
          PROVE  snapshots'[x.pair][i].at # x.row.at
      <3>1. x.pair \in Pairs BY <1>1, <1>3
      <3>2. CASE snapshots'[x.pair] = snapshots[x.pair] BY <2>1, <3>2
      <3>3. CASE \E y \in Unsaved(h) : /\ y.pair = x.pair
                                    /\ snapshots'[x.pair] = Append(snapshots[x.pair], y.row)
        <4>1. PICK y \in Unsaved(h) : snapshots'[x.pair] = Append(snapshots[x.pair], y.row)
          BY <3>3
        <4>2. PICK sq \in Seq(Row) : sq = snapshots[x.pair] BY <1>2, <3>1
        <4>3. /\ Len(Append(sq, y.row)) = Len(sq) + 1 /\ Len(sq) \in Nat
              /\ Append(sq, y.row)[Len(sq) + 1] = y.row
              /\ \A k \in 1..Len(sq) : Append(sq, y.row)[k] = sq[k]
          BY <1>1, <4>2
        <4>4. CASE i \in 1..Len(sq) BY <2>1, <4>1, <4>2, <4>3, <4>4
        <4>5. CASE i = Len(sq) + 1 BY <2>3, <4>1, <4>2, <4>3, <4>5
        <4> QED BY <4>1, <4>2, <4>3, <4>4, <4>5
      <3> QED BY <3>1, <3>2, <3>3
    <2> QED BY <2>1, <2>2, <2>4
  <1>8. HeldApart' BY <1>3 DEF KrisInv, HeldApart
  <1>9. PairsApart' BY <1>3 DEF KrisInv, PairsApart
  <1> QED BY <1>6, <1>7, <1>8, <1>9 DEF RowsInv

(* Rows are dropped, or nothing happens to them. *)
LEMMA DropKeeps ==
    ASSUME KrisInv, UNCHANGED <<measured, snapshots>>,
           \A h \in Holders : Unsaved(h)' \subseteq Unsaved(h)
    PROVE  RowsInv'
  <1>1. CommittedRight' BY DEF KrisInv, CommittedRight
  <1>2. FlushedRight' BY DEF KrisInv, FlushedRight
  <1>3. HeldApart' /\ PairsApart' BY DEF KrisInv, HeldApart, PairsApart
  <1> QED BY <1>1, <1>2, <1>3 DEF RowsInv

(* What a step of a request, and of a sweep, does to what is held. *)
LEMMA RecordHeld ==
    ASSUME KriTypes, NEW q \in Recorders, NEW x,
           record' = [record EXCEPT ![q] = x], UNCHANGED sweep
    PROVE  /\ <<"record", q>> \in Holders
           /\ Unsaved(<<"record", q>>)' = {x} \ {NoRecord}
           /\ Unsaved(<<"record", q>>) = {record[q]} \ {NoRecord}
           /\ \A g \in Holders \ {<<"record", q>>} : Unsaved(g)' = Unsaved(g)
  <1>1. record'[q] = x /\ \A r \in Recorders \ {q} : record'[r] = record[r]
    BY DEF KriTypes
  <1>2. ASSUME NEW g \in Holders \ {<<"record", q>>} PROVE Unsaved(g)' = Unsaved(g)
    <2>1. CASE g \in {"record"} \X Recorders
      <3>1. g[1] = "record" /\ g[2] \in Recorders \ {q} BY <1>2, <2>1
      <3> QED BY <1>1, <3>1 DEF Unsaved
    <2>2. CASE g \in {"sweep"} \X Sweeps BY <2>2 DEF Unsaved
    <2> QED BY <2>1, <2>2 DEF Holders
  <1>3. <<"record", q>>[1] = "record" /\ <<"record", q>>[2] = q OBVIOUS
  <1> QED BY <1>1, <1>2, <1>3 DEF Unsaved, Holders

LEMMA SweepHeld ==
    ASSUME KriTypes, NEW w \in Sweeps, NEW open, NEW todo, NEW rows,
           sweep'[w] = [open |-> open, todo |-> todo, rows |-> rows],
           \A u \in Sweeps \ {w} : sweep'[u] = sweep[u],
           UNCHANGED record
    PROVE  /\ <<"sweep", w>> \in Holders
           /\ Unsaved(<<"sweep", w>>)' = rows
           /\ Unsaved(<<"sweep", w>>) = sweep[w].rows
           /\ \A g \in Holders \ {<<"sweep", w>>} : Unsaved(g)' = Unsaved(g)
  <1>1. sweep'[w].rows = rows /\ \A r \in Sweeps \ {w} : sweep'[r] = sweep[r]
    BY DEF KriTypes
  <1>2. ASSUME NEW g \in Holders \ {<<"sweep", w>>} PROVE Unsaved(g)' = Unsaved(g)
    <2>1. CASE g \in {"sweep"} \X Sweeps
      <3>1. g[1] = "sweep" /\ g[2] \in Sweeps \ {w} BY <1>2, <2>1
      <3> QED BY <1>1, <3>1 DEF Unsaved
    <2>2. CASE g \in {"record"} \X Recorders BY <2>2 DEF Unsaved
    <2> QED BY <2>1, <2>2 DEF Holders
  <1>3. <<"sweep", w>>[1] = "sweep" /\ <<"sweep", w>>[2] = w OBVIOUS
  <1> QED BY <1>1, <1>2, <1>3 DEF Unsaved, Holders

LEMMA KrisInitInv == KrisInit => KrisInv
  <1> SUFFICES ASSUME KrisInit PROVE KrisInv OBVIOUS
  <1>1. KriTypes BY KriAssumption DEF KrisInit, KriTypes, NoSweep
  <1>2. \A p \in Pairs : snapshots[p] = <<>> /\ Len(snapshots[p]) = 0 BY DEF KrisInit
  <1>3. CommittedRight BY <1>2 DEF CommittedRight, Apart
  <1>4. ASSUME NEW h \in Holders PROVE Unsaved(h) = {}
    <2>1. CASE h \in {"record"} \X Recorders BY <2>1 DEF Unsaved, KrisInit
    <2>2. CASE h \in {"sweep"} \X Sweeps BY <2>2 DEF Unsaved, KrisInit, NoSweep
    <2> QED BY <2>1, <2>2 DEF Holders
  <1>5. FlushedRight /\ HeldApart /\ PairsApart
    BY <1>4 DEF FlushedRight, HeldApart, PairsApart
  <1>6. TodoLeft BY DEF TodoLeft, KrisInit, NoSweep
  <1> QED BY <1>1, <1>3, <1>5, <1>6 DEF KrisInv

LEMMA RecordSnapshotInv ==
    ASSUME KrisInv, NEW q \in Recorders, NEW p \in Pairs, NEW v \in Values,
           RecordSnapshot(q, p, v)
    PROVE  KrisInv'
  <1> DEFINE x == [pair |-> p, row |-> Snapshot(p, v)]
             h == <<"record", q>>
  <1>1. KriTypes BY DEF KrisInv
  <1>2. record' = [record EXCEPT ![q] = x] /\ UNCHANGED sweep /\ Measure
    BY DEF RecordSnapshot
  <1>3. x \in Flushed /\ measured' \in 0..MaxSnapshots
    BY <1>2, MeasuredRight DEF Flushed
  <1>4. x # NoRecord
    <2>1. p # <<>> BY DEF Pairs
    <2>2. x.pair = p /\ NoRecord.pair = <<>> BY DEF NoRecord
    <2> QED BY <2>1, <2>2
  <1>5. /\ h \in Holders
        /\ Unsaved(h)' = {x} \ {NoRecord}
        /\ Unsaved(h) = {record[q]} \ {NoRecord}
        /\ \A g \in Holders \ {h} : Unsaved(g)' = Unsaved(g)
    BY <1>1, <1>2, RecordHeld
  <1>6. Unsaved(h) = {} BY <1>5 DEF RecordSnapshot
  <1>7. Unsaved(h)' = Unsaved(h) \cup {x} BY <1>4, <1>5, <1>6
  <1>8. RowsInv' BY <1>2, <1>5, <1>6, <1>7, FlushKeeps DEF RecordSnapshot
  <1>9. KriTypes' BY <1>1, <1>2, <1>3 DEF KriTypes, RecordSnapshot
  <1>10. TodoLeft' BY <1>2 DEF TodoLeft, KrisInv
  <1> QED BY <1>8, <1>9, <1>10 DEF RowsInv, KrisInv

LEMMA RecordEndsInv ==
    ASSUME KrisInv, NEW q \in Recorders, CommitRecord(q) \/ FailRecord(q)
    PROVE  KrisInv'
  <1> DEFINE h == <<"record", q>>
  <1>1. KriTypes BY DEF KrisInv
  <1>2. /\ record' = [record EXCEPT ![q] = NoRecord]
        /\ record[q] # NoRecord
        /\ UNCHANGED <<kri, sweep, measured>>
    BY DEF CommitRecord, FailRecord
  <1>3. /\ h \in Holders /\ Unsaved(h)' = {} /\ Unsaved(h) = {record[q]}
        /\ \A g \in Holders \ {h} : Unsaved(g)' = Unsaved(g)
    BY <1>1, <1>2, RecordHeld
  <1>4. record[q] \in Flushed BY <1>1, <1>2 DEF KriTypes
  <1>5. record[q].pair \in Pairs /\ record[q].row \in Row BY <1>4 DEF Flushed
  <1>6. TodoLeft' BY <1>2 DEF TodoLeft, KrisInv
  <1>7. CASE FailRecord(q)
    <2>1. UNCHANGED snapshots BY <1>7 DEF FailRecord
    <2>2. RowsInv' BY <1>2, <1>3, <2>1, DropKeeps
    <2>3. KriTypes' BY <1>1, <1>2, <2>1 DEF KriTypes
    <2> QED BY <1>6, <2>2, <2>3 DEF RowsInv, KrisInv
  <1>8. CASE CommitRecord(q)
    <2>1. \A p \in Pairs :
             snapshots'[p] = IF p = record[q].pair THEN Append(snapshots[p], record[q].row)
                             ELSE snapshots[p]
      BY <1>1, <1>5, <1>8 DEF CommitRecord, KriTypes
    <2>2. \A p \in Pairs :
              \/ snapshots'[p] = snapshots[p]
              \/ \E x \in Unsaved(h) :
                    x.pair = p /\ snapshots'[p] = Append(snapshots[p], x.row)
      BY <1>3, <2>1
    <2>3. RowsInv' BY <1>2, <1>3, <2>2, CommitKeeps
    <2>4. snapshots' \in [Pairs -> Seq(Row)]
      <3>1. Append(snapshots[record[q].pair], record[q].row) \in Seq(Row)
        BY <1>1, <1>5 DEF KriTypes
      <3> QED BY <1>1, <1>8, <3>1 DEF CommitRecord, KriTypes
    <2>5. KriTypes' BY <1>1, <1>2, <2>4 DEF KriTypes
    <2> QED BY <1>6, <2>3, <2>5 DEF RowsInv, KrisInv
  <1> QED BY <1>7, <1>8

LEMMA SweepSnapshotInv ==
    ASSUME KrisInv, NEW w \in Sweeps, NEW p \in sweep[w].todo, NEW v \in Values,
           SweepSnapshot(w, p, v)
    PROVE  KrisInv'
  <1> DEFINE x == [pair |-> p, row |-> Snapshot(p, v)]
             h == <<"sweep", w>>
  <1>1. KriTypes BY DEF KrisInv
  <1>2. /\ sweep[w] \in [open : BOOLEAN, todo : SUBSET Pairs, rows : SUBSET Flushed]
        /\ p \in Pairs
    BY <1>1 DEF KriTypes
  <1>3. /\ sweep'[w] = [open |-> sweep[w].open, todo |-> sweep[w].todo \ {p},
                       rows |-> sweep[w].rows \cup {x}]
        /\ \A u \in Sweeps \ {w} : sweep'[u] = sweep[u]
        /\ sweep' = [u \in Sweeps |-> sweep'[u]]
        /\ Measure /\ UNCHANGED <<kri, snapshots, record>>
    BY <1>1, <1>2 DEF SweepSnapshot, KriTypes
  <1>4. x \in Flushed /\ measured' \in 0..MaxSnapshots
    BY <1>2, <1>3, MeasuredRight DEF Flushed
  <1>5. /\ h \in Holders
        /\ Unsaved(h)' = sweep[w].rows \cup {x}
        /\ Unsaved(h) = sweep[w].rows
        /\ \A g \in Holders \ {h} : Unsaved(g)' = Unsaved(g)
    BY <1>1, <1>3, SweepHeld
  <1>6. \A y \in Unsaved(h) : y.pair # p BY <1>5 DEF KrisInv, TodoLeft
  <1>7. Unsaved(h)' = Unsaved(h) \cup {x} BY <1>5
  <1>8. RowsInv' BY <1>2, <1>3, <1>5, <1>6, <1>7, FlushKeeps
  <1>9. sweep' \in [Sweeps -> [open : BOOLEAN, todo : SUBSET Pairs, rows : SUBSET Flushed]]
    BY <1>1, <1>2, <1>3, <1>4 DEF KriTypes
  <1>10. KriTypes' BY <1>1, <1>3, <1>4, <1>9 DEF KriTypes
  <1>11. TodoLeft'
    <2> SUFFICES ASSUME NEW u \in Sweeps, NEW y \in sweep'[u].rows
                 PROVE  y.pair \notin sweep'[u].todo
      BY DEF TodoLeft
    <2>1. CASE u = w
      <3>1. /\ sweep'[w].todo = sweep[w].todo \ {p}
            /\ sweep'[w].rows = sweep[w].rows \cup {x}
        BY <1>1, <1>3 DEF KriTypes
      <3>2. \A z \in sweep[w].rows : z.pair \notin sweep[w].todo BY DEF KrisInv, TodoLeft
      <3>3. x.pair = p OBVIOUS
      <3> HIDE DEF x
      <3> QED BY <2>1, <3>1, <3>2, <3>3
    <2>2. CASE u # w
      <3>1. sweep'[u] = sweep[u] BY <1>1, <1>3, <2>2 DEF KriTypes
      <3> QED BY <3>1 DEF KrisInv, TodoLeft
    <2> QED BY <2>1, <2>2
  <1> QED BY <1>8, <1>10, <1>11 DEF RowsInv, KrisInv

(* A sweep that starts, skips a supplier, commits or fails. *)
LEMMA SweepMovesInv ==
    ASSUME KrisInv, NEW w \in Sweeps,
           \/ StartSweep(w) \/ CommitSweep(w) \/ FailSweep(w)
           \/ \E p \in sweep[w].todo : SweepSkip(w, p)
    PROVE  KrisInv'
  <1> DEFINE h == <<"sweep", w>>
  <1>1. KriTypes BY DEF KrisInv
  <1>2. sweep[w] \in [open : BOOLEAN, todo : SUBSET Pairs, rows : SUBSET Flushed]
    BY <1>1 DEF KriTypes
  <1>3. PICK open \in BOOLEAN, todo \in SUBSET Pairs, rows \in SUBSET sweep[w].rows :
           /\ sweep'[w] = [open |-> open, todo |-> todo, rows |-> rows]
           /\ \A u \in Sweeps \ {w} : sweep'[u] = sweep[u]
           /\ sweep' = [u \in Sweeps |-> sweep'[u]]
           /\ rows = {} \/ todo \subseteq sweep[w].todo
           /\ CommitSweep(w) => rows = {}
           /\ CommitSweep(w) \/ UNCHANGED snapshots
    <2>1. CASE StartSweep(w)
      <3>1. Watched \X {k \in kri : Definition[k].auto} \in SUBSET Pairs
        BY <1>1 DEF Pairs, KriTypes
      <3>2. ~CommitSweep(w) \/ TRUE OBVIOUS
      <3> QED BY <1>1, <2>1, <3>1 DEF StartSweep, KriTypes
    <2>2. CASE CommitSweep(w) \/ FailSweep(w)
      <3>1. {} \in SUBSET sweep[w].rows /\ {} \in SUBSET Pairs /\ FALSE \in BOOLEAN OBVIOUS
      <3> QED BY <1>1, <2>2, <3>1 DEF CommitSweep, FailSweep, NoSweep, KriTypes
    <2>3. CASE \E p \in sweep[w].todo : SweepSkip(w, p)
      <3>1. PICK p \in sweep[w].todo : SweepSkip(w, p) BY <2>3
      <3>2. /\ sweep'[w] = [open |-> sweep[w].open, todo |-> sweep[w].todo \ {p},
                            rows |-> sweep[w].rows]
            /\ \A u \in Sweeps \ {w} : sweep'[u] = sweep[u]
            /\ sweep' = [u \in Sweeps |-> sweep'[u]]
        BY <1>1, <1>2, <3>1 DEF SweepSkip, KriTypes
      <3>3. ~CommitSweep(w) BY <1>2, <3>1 DEF SweepSkip, CommitSweep
      <3>4. /\ sweep[w].open \in BOOLEAN /\ sweep[w].todo \ {p} \in SUBSET Pairs
            /\ sweep[w].rows \in SUBSET sweep[w].rows
            /\ sweep[w].todo \ {p} \subseteq sweep[w].todo
        BY <1>2
      <3>5. UNCHANGED snapshots BY <3>1 DEF SweepSkip
      <3> QED BY <3>2, <3>3, <3>4, <3>5
    <2> QED BY <2>1, <2>2, <2>3
  <1>4. UNCHANGED <<kri, record, measured>>
    BY DEF StartSweep, CommitSweep, FailSweep, SweepSkip
  <1>5. /\ h \in Holders
        /\ Unsaved(h)' = rows
        /\ Unsaved(h) = sweep[w].rows
        /\ \A g \in Holders \ {h} : Unsaved(g)' = Unsaved(g)
    BY <1>1, <1>3, <1>4, SweepHeld
  <1>6. sweep' \in [Sweeps -> [open : BOOLEAN, todo : SUBSET Pairs, rows : SUBSET Flushed]]
    BY <1>1, <1>2, <1>3 DEF KriTypes
  <1>7. TodoLeft'
    <2> SUFFICES ASSUME NEW u \in Sweeps, NEW y \in sweep'[u].rows
                 PROVE  y.pair \notin sweep'[u].todo
      BY DEF TodoLeft
    <2>1. CASE u = w
      <3>1. sweep'[w].todo = todo /\ sweep'[w].rows = rows BY <1>1, <1>3 DEF KriTypes
      <3>2. \A z \in sweep[w].rows : z.pair \notin sweep[w].todo BY DEF KrisInv, TodoLeft
      <3> QED BY <1>3, <2>1, <3>1, <3>2
    <2>2. CASE u # w
      <3>1. sweep'[u] = sweep[u] BY <1>1, <1>3, <2>2 DEF KriTypes
      <3> QED BY <3>1 DEF KrisInv, TodoLeft
    <2> QED BY <2>1, <2>2
  <1>8. CASE UNCHANGED snapshots
    <2>1. \A g \in Holders : Unsaved(g)' \subseteq Unsaved(g) BY <1>3, <1>5
    <2>2. RowsInv' BY <1>4, <1>8, <2>1, DropKeeps
    <2>3. KriTypes' BY <1>1, <1>4, <1>6, <1>8 DEF KriTypes
    <2> QED BY <1>7, <2>2, <2>3 DEF RowsInv, KrisInv
  <1>9. CASE CommitSweep(w)
    <2>1. ASSUME NEW p \in Pairs
          PROVE  /\ \/ snapshots'[p] = snapshots[p]
                    \/ \E x \in Unsaved(h) :
                          x.pair = p /\ snapshots'[p] = Append(snapshots[p], x.row)
                 /\ snapshots'[p] \in Seq(Row)
      <3> DEFINE mine == {x \in sweep[w].rows : x.pair = p}
      <3>1. snapshots'[p] = IF mine = {} THEN snapshots[p]
                            ELSE Append(snapshots[p], (CHOOSE x \in mine : TRUE).row)
        BY <1>9 DEF CommitSweep
      <3>2. snapshots[p] \in Seq(Row) BY <1>1 DEF KriTypes
      <3>3. CASE mine = {} BY <3>1, <3>2, <3>3
      <3>4. CASE mine # {}
        <4>1. PICK x \in mine : x = CHOOSE y \in mine : TRUE BY <3>4
        <4>2. x \in sweep[w].rows /\ x.pair = p BY <4>1
        <4>3. snapshots'[p] = Append(snapshots[p], x.row) BY <3>1, <3>4, <4>1
        <4>4. x.row \in Row BY <1>2, <4>2 DEF Flushed
        <4> QED BY <1>5, <3>2, <4>2, <4>3, <4>4
      <3> QED BY <3>3, <3>4
    <2>2. Unsaved(h)' = {} BY <1>3, <1>5, <1>9
    <2>3. RowsInv' BY <1>4, <1>5, <2>1, <2>2, CommitKeeps
    <2>4. snapshots' \in [Pairs -> Seq(Row)]
      <3>1. \E f : snapshots' = [p \in Pairs |-> f[p]]
        <4>1. snapshots' = [p \in Pairs |-> snapshots'[p]] BY <1>9 DEF CommitSweep
        <4> QED BY <4>1
      <3> QED BY <2>1, <3>1
    <2>5. KriTypes' BY <1>1, <1>4, <1>6, <2>4 DEF KriTypes
    <2> QED BY <1>7, <2>3, <2>5 DEF RowsInv, KrisInv
  <1> QED BY <1>3, <1>8, <1>9

LEMMA KrisStep ==
    ASSUME KrisInv, KrisNext \/ UNCHANGED kriVars
    PROVE  KrisInv'
  <1>1. ASSUME NEW k \in Kris, CreateKri(k) PROVE KrisInv'
    <2>1. UNCHANGED <<snapshots, record, sweep, measured>> BY <1>1 DEF CreateKri
    <2>2. \A h \in Holders : Unsaved(h)' \subseteq Unsaved(h) BY <2>1 DEF Unsaved
    <2>3. RowsInv' BY <2>1, <2>2, DropKeeps
    <2>4. KriTypes' /\ TodoLeft' BY <1>1, <2>1 DEF CreateKri, KrisInv, KriTypes, TodoLeft
    <2> QED BY <2>3, <2>4 DEF RowsInv, KrisInv
  <1>2. CASE UNCHANGED kriVars
    <2>1. UNCHANGED <<kri, snapshots, record, sweep, measured>> BY <1>2 DEF kriVars
    <2>2. \A h \in Holders : Unsaved(h)' \subseteq Unsaved(h) BY <2>1 DEF Unsaved
    <2>3. RowsInv' BY <2>1, <2>2, DropKeeps
    <2>4. KriTypes' /\ TodoLeft' BY <2>1 DEF KrisInv, KriTypes, TodoLeft
    <2> QED BY <2>3, <2>4 DEF RowsInv, KrisInv
  <1>3. ASSUME NEW q \in Recorders, NEW p \in Pairs, NEW v \in Values, RecordSnapshot(q, p, v)
        PROVE  KrisInv'
    BY <1>3, RecordSnapshotInv
  <1>4. ASSUME NEW q \in Recorders, CommitRecord(q) \/ FailRecord(q) PROVE KrisInv'
    BY <1>4, RecordEndsInv
  <1>5. ASSUME NEW w \in Sweeps, StartSweep(w) \/ CommitSweep(w) \/ FailSweep(w)
        PROVE  KrisInv'
    BY <1>5, SweepMovesInv
  <1>6. ASSUME NEW w \in Sweeps, NEW p \in sweep[w].todo, SweepSkip(w, p) PROVE KrisInv'
    BY <1>6, SweepMovesInv
  <1>7. ASSUME NEW w \in Sweeps, NEW p \in sweep[w].todo, NEW v \in Values,
               SweepSnapshot(w, p, v)
        PROVE  KrisInv'
    BY <1>7, SweepSnapshotInv
  <1> QED BY <1>1, <1>2, <1>3, <1>4, <1>5, <1>6, <1>7 DEF KrisNext

(* A committed row is a breach exactly if it is worse than the one before it. *)
LEMMA BreachesRight == KrisInv => BreachIffWorse
  <1> SUFFICES ASSUME KrisInv, NEW p \in Pairs, NEW i \in DOMAIN snapshots[p], ~Unseen(p, i)
               PROVE  snapshots[p][i].breach <=>
                        \E j \in Earlier(p, i) :
                           /\ \A l \in Earlier(p, i) : snapshots[p][l].at <= snapshots[p][j].at
                           /\ Rank[snapshots[p][i].status] > Rank[snapshots[p][j].status]
    BY DEF BreachIffWorse
  <1>1. PICK sq \in Seq(Row) : sq = snapshots[p] BY DEF KrisInv, KriTypes
  <1>2. DOMAIN sq = 1..Len(sq) /\ Len(sq) \in Nat OBVIOUS
  <1>3. PICK r \in Row : r = sq[i] BY <1>1, <1>2
  <1>4. RightRow(sq, r) BY <1>1, <1>2, <1>3 DEF KrisInv, CommittedRight
  <1>5. r.seen \in Nat /\ r.seen <= Len(sq) BY <1>3, <1>4 DEF RightRow, Row
  <1>6. Earlier(p, i) = 1..r.seen
    <2>1. ASSUME NEW j \in Earlier(p, i) PROVE j \in 1..r.seen
      <3>1. j \in 1..Len(sq) /\ ~(j > r.seen)
        BY <1>1, <1>2, <1>3 DEF Unseen, Earlier
      <3> QED BY <1>5, <3>1
    <2>2. \A j \in 1..r.seen : j \in Earlier(p, i)
      BY <1>1, <1>2, <1>3, <1>4, <1>5 DEF RightRow, Earlier
    <2> QED BY <2>1, <2>2
  <1> QED BY <1>1, <1>3, <1>4, <1>6 DEF RightRow

(* The indicators of a supplier that are shown with a status. *)
Having(s, status) ==
    {k \in Kris : \E i \in Latest(<<s, k>>) : snapshots[<<s, k>>][i].status = status}

(* What explains that an indicator is not shown green. *)
Explained(p) ==
    \E i \in DOMAIN snapshots[p] :
       \/ snapshots[p][i].breach \/ Unseen(p, i)
       \/ Earlier(p, i) = {} /\ snapshots[p][i].status # "green"

(* The first row that is not green was measured first, or is a breach, or did not
   see the green one before it. *)
LEMMA NotGreenExplained ==
    ASSUME KrisInv, NEW p \in Pairs, NEW i \in DOMAIN snapshots[p],
           snapshots[p][i].status # "green"
    PROVE  Explained(p)
  <1> SUFFICES ASSUME ~Explained(p) PROVE FALSE OBVIOUS
  <1>1. PICK sq \in Seq(Row) : sq = snapshots[p] BY DEF KrisInv, KriTypes
  <1>2. DOMAIN sq = 1..Len(sq) /\ Len(sq) \in Nat OBVIOUS
  <1>3. \A j \in DOMAIN sq : sq[j] \in Row /\ sq[j].at \in Nat
    <2>1. \A j \in 1..Len(sq) : sq[j] \in Row OBVIOUS
    <2> QED BY <1>2, <2>1 DEF Row
  <1> DEFINE T == {n \in Nat : \E j \in DOMAIN sq : sq[j].at = n /\ sq[j].status # "green"}
  <1>4. T # {} BY <1>1, <1>3
  <1>5. PICK n \in T : \A m \in T : n <= m BY <1>4, LeastNumber
  <1>6. PICK f \in DOMAIN sq : sq[f].at = n /\ sq[f].status # "green" BY <1>5
  <1>7. /\ ~sq[f].breach /\ ~Unseen(p, f) /\ Earlier(p, f) # {}
    BY <1>1, <1>6 DEF Explained
  <1> DEFINE E == {m \in Nat : \E j \in Earlier(p, f) : sq[j].at = m}
  <1>8. \A j \in Earlier(p, f) : j \in DOMAIN sq /\ sq[j].at < n /\ sq[j].at \in Nat
    BY <1>1, <1>3, <1>6 DEF Earlier
  <1>9. E # {} BY <1>7, <1>8
  <1>10. \A m \in E : m <= n BY <1>8
  <1>11. n \in Nat BY <1>5
  <1> HIDE DEF T
  <1>12. PICK m \in E : \A l \in E : l <= m
    <2>1. E \in SUBSET Nat OBVIOUS
    <2> HIDE DEF E
    <2> QED BY <1>9, <1>10, <1>11, <2>1, GreatestNumber
  <1>13. PICK j \in Earlier(p, f) : sq[j].at = m BY <1>12
  <1>14. \A l \in Earlier(p, f) : sq[l].at <= sq[j].at BY <1>8, <1>12, <1>13
  <1>15. ~(Rank[sq[f].status] > Rank[sq[j].status])
    BY <1>1, <1>6, <1>7, <1>13, <1>14, BreachesRight DEF BreachIffWorse
  <1>16. sq[j].status = "green"
    <2>1. sq[j].at \notin T BY <1>5, <1>8, <1>11, <1>13
    <2> QED BY <1>8, <1>13, <2>1 DEF T
  <1>17. sq[f].status \in {"amber", "red"} BY <1>3, <1>6 DEF Row, KRIStatus
  <1> QED BY <1>15, <1>16, <1>17 DEF Rank

LEMMA DashboardRight == KrisInv => DashboardExplained
  <1> SUFFICES ASSUME KrisInv, NEW s \in Watched
               PROVE  Dashboard(s).red + Dashboard(s).amber
                        <= Cardinality({k \in Kris : Explained(<<s, k>>)})
    BY DEF DashboardExplained, Explained
  <1> DEFINE R == Having(s, "red")
             A == Having(s, "amber")
             X == {k \in Kris : Explained(<<s, k>>)}
  <1>1. Dashboard(s).red = Cardinality(R) /\ Dashboard(s).amber = Cardinality(A)
    BY DEF Dashboard, Having
  <1>2. R \cap A = {}
    <2> SUFFICES ASSUME NEW k \in R, k \in A PROVE FALSE OBVIOUS
    <2>1. k \in Kris /\ <<s, k>> \in Pairs BY DEF Having, Pairs
    <2>2. PICK sq \in Seq(Row) : sq = snapshots[<<s, k>>] BY <2>1 DEF KrisInv, KriTypes
    <2>3. PICK i \in Latest(<<s, k>>) : sq[i].status = "red" BY <2>2 DEF Having
    <2>4. PICK j \in Latest(<<s, k>>) : sq[j].status = "amber" BY <2>2 DEF Having
    <2>5. i \in 1..Len(sq) /\ j \in 1..Len(sq) BY <2>2, <2>3, <2>4 DEF Latest
    <2>6. sq[i].at <= sq[j].at /\ sq[j].at <= sq[i].at BY <2>2, <2>3, <2>4 DEF Latest
    <2>7. sq[i].at \in Nat /\ sq[j].at \in Nat
      <3>1. sq[i] \in Row /\ sq[j] \in Row BY <2>5
      <3> QED BY <3>1 DEF Row
    <2>8. Apart(sq) BY <2>1, <2>2 DEF KrisInv, CommittedRight
    <2>9. sq[i].at = sq[j].at BY <2>6, <2>7
    <2>10. i = j BY <2>5, <2>8, <2>9 DEF Apart
    <2> QED BY <2>3, <2>4, <2>10
  <1>3. R \cup A \in SUBSET X
    <2> SUFFICES ASSUME NEW k \in R \cup A PROVE k \in X OBVIOUS
    <2>1. k \in Kris /\ <<s, k>> \in Pairs BY DEF Having, Pairs
    <2>2. \E i \in DOMAIN snapshots[<<s, k>>] : snapshots[<<s, k>>][i].status # "green"
      BY DEF Having, Latest
    <2> QED BY <2>1, <2>2, NotGreenExplained
  <1>4. /\ X \in SUBSET Kris /\ R \in SUBSET Kris /\ A \in SUBSET Kris BY DEF Having
  <1> HIDE DEF R, A, X
  <1>5. IsFiniteSet(X) /\ IsFiniteSet(R) /\ IsFiniteSet(A)
    BY <1>4, KriAssumption, FS_Subset
  <1>6. Cardinality(R \cup A) = Cardinality(R) + Cardinality(A)
    <2>1. Cardinality(R \cup A) = Cardinality(R) + Cardinality(A) - Cardinality(R \cap A)
      BY <1>5, FS_Union
    <2>2. Cardinality(R \cap A) = 0 BY <1>2, FS_EmptySet
    <2> QED BY <1>5, <2>1, <2>2, FS_CardinalityType
  <1>7. Cardinality(R \cup A) <= Cardinality(X) BY <1>3, <1>5, FS_Subset
  <1> QED BY <1>1, <1>6, <1>7 DEF X

-----------------------------------------------------------------------------
(* The registry. *)

(* Two sets that differ in one element at most. *)
LEMMA OneApart ==
    ASSUME NEW S, IsFiniteSet(S), NEW A \in SUBSET S, NEW B \in SUBSET S, NEW x,
           A \ {x} = B \ {x}
    PROVE  /\ Cardinality(A) \in Nat /\ Cardinality(B) \in Nat
           /\ Cardinality(A) + (IF x \in B THEN 1 ELSE 0)
                = Cardinality(B) + (IF x \in A THEN 1 ELSE 0)
  <1> DEFINE C == A \ {x}
  <1>1. IsFiniteSet(C) BY FS_Subset
  <1>2. PICK n \in Nat : n = Cardinality(C) BY <1>1, FS_CardinalityType
  <1>3. Cardinality(C \cup {x}) = n + 1
    <2>1. x \notin C OBVIOUS
    <2> HIDE DEF C
    <2>2. QED BY <1>1, <1>2, <2>1, FS_AddElement
  <1>4. /\ x \in A => A = C \cup {x}
        /\ x \notin A => A = C
        /\ x \in B => B = C \cup {x}
        /\ x \notin B => B = C
  OBVIOUS
  <1> HIDE DEF C
  <1>5. QED BY <1>2, <1>3, <1>4

Change == [kind : {"promote", "archive"}, model : Models,
           step : {"read", "demoting", "demoted"}, victims : SUBSET Models,
           promoted : 0..MaxChanges, commits : 0..MaxChanges]

RegistryTypes ==
    /\ model \in [Models -> {NoModel} \cup
          [status : ModelStatus, champion : BOOLEAN, promoted : 0..MaxChanges]]
    /\ change \in [Admins -> {NoChange} \cup Change]
    /\ begun \in 0..MaxChanges /\ stamped \in 0..MaxChanges /\ commits \in 0..MaxChanges
    /\ settled \in BOOLEAN

(* Changes that are open, and those that have yet to take their instant. *)
Open == {q \in Admins : change[q] # NoChange}
Unstamped == {q \in Admins : change[q].kind = "promote" /\ change[q].step # "demoted"}

ChangesCounted ==
    /\ stamped + Cardinality(Unstamped) <= begun
    /\ commits + Cardinality(Open) <= begun

(* What a change read is still so if nothing was committed since it began. *)
ReadsRight(x) ==
    /\ x.commits <= commits
    /\ x.step = "demoted" => x.promoted > 0
    /\ x.commits = commits =>
          /\ x.kind = "archive" => ~model[x.model].champion
          /\ x.kind = "promote" /\ x.step # "read" => x.victims = Champions(x.model)

ChangesRight == \A q \in Admins : change[q] # NoChange => ReadsRight(change[q])

RegistryInv == RegistryTypes /\ ChangesCounted /\ ChangesRight /\ OneChampion

(* A step of one request changes its part of a count alone. *)
LEMMA CountsMove ==
    ASSUME NEW q \in Admins, \A r \in Admins \ {q} : change'[r] = change[r]
    PROVE  /\ Cardinality(Open) \in Nat /\ Cardinality(Open)' \in Nat
           /\ Cardinality(Unstamped) \in Nat /\ Cardinality(Unstamped)' \in Nat
           /\ Cardinality(Open) + (IF q \in Open' THEN 1 ELSE 0)
                = Cardinality(Open)' + (IF q \in Open THEN 1 ELSE 0)
           /\ Cardinality(Unstamped) + (IF q \in Unstamped' THEN 1 ELSE 0)
                = Cardinality(Unstamped)' + (IF q \in Unstamped THEN 1 ELSE 0)
  <1>1. IsFiniteSet(Admins) BY RegistryAssumption
  <1>2. PICK A, B : A = Open /\ B = Open' OBVIOUS
  <1>3. A \in SUBSET Admins /\ B \in SUBSET Admins /\ A \ {q} = B \ {q}
    BY <1>2 DEF Open
  <1>4. /\ Cardinality(A) \in Nat /\ Cardinality(B) \in Nat
        /\ Cardinality(A) + (IF q \in B THEN 1 ELSE 0)
             = Cardinality(B) + (IF q \in A THEN 1 ELSE 0)
    BY <1>1, <1>3, OneApart
  <1>5. PICK C, D : C = Unstamped /\ D = Unstamped' OBVIOUS
  <1>6. C \in SUBSET Admins /\ D \in SUBSET Admins /\ C \ {q} = D \ {q}
    BY <1>5 DEF Unstamped
  <1>7. /\ Cardinality(C) \in Nat /\ Cardinality(D) \in Nat
        /\ Cardinality(C) + (IF q \in D THEN 1 ELSE 0)
             = Cardinality(D) + (IF q \in C THEN 1 ELSE 0)
    BY <1>1, <1>6, OneApart
  <1> QED BY <1>2, <1>4, <1>5, <1>7

LEMMA RegistryInitInv == RegistryInit => RegistryInv
  <1> SUFFICES ASSUME RegistryInit PROVE RegistryInv OBVIOUS
  <1>1. RegistryTypes BY RegistryAssumption DEF RegistryInit, RegistryTypes
  <1>2. Open = {} /\ Unstamped = {} BY DEF RegistryInit, Open, Unstamped, NoChange
  <1>3. ChangesCounted BY <1>2, FS_EmptySet DEF RegistryInit, ChangesCounted
  <1>4. ChangesRight BY DEF RegistryInit, ChangesRight
  <1>5. OneChampion
    <2>1. {m \in Models : model[m].champion} = {} /\ ChampionModel = {}
      BY DEF RegistryInit, NoModel, ChampionModel, Active
    <2>2. ~\E m \in Models : model[m].promoted > 0 BY DEF RegistryInit, NoModel
    <2> QED BY <2>1, <2>2, FS_EmptySet DEF OneChampion
  <1> QED BY <1>1, <1>3, <1>4, <1>5 DEF RegistryInv

(* Champions and scores depend on the flag, the status and the instant alone. *)
LEMMA RegisterInv ==
    ASSUME RegistryInv, NEW m \in Models, RegisterModel(m)
    PROVE  RegistryInv'
  <1>1. RegistryTypes BY DEF RegistryInv
  <1> DEFINE new == [status |-> "staging", champion |-> FALSE, promoted |-> 0]
  <1>9. [NoModel EXCEPT !.status = "staging"] = new
    <2>1. PICK r \in [status : {"none"}, champion : {FALSE}, promoted : {0}] : r = NoModel
      BY DEF NoModel
    <2>2. [r EXCEPT !.status = "staging"]
             = [status |-> "staging", champion |-> r.champion, promoted |-> r.promoted]
      OBVIOUS
    <2> QED BY <2>1, <2>2
  <1>2. /\ model'[m] = new
        /\ new.champion = FALSE /\ new.promoted = 0 /\ new.status = "staging"
        /\ model[m] = NoModel /\ model[m].champion = FALSE /\ model[m].promoted = 0
        /\ \A c \in Models \ {m} : model'[c] = model[c]
        /\ UNCHANGED <<change, begun, stamped, commits, settled>>
    <2>1. model' = [model EXCEPT ![m] = new] BY <1>9 DEF RegisterModel
    <2>2. model[m] = NoModel /\ UNCHANGED <<change, begun, stamped, commits, settled>>
      BY DEF RegisterModel
    <2>3. model'[m] = new /\ \A c \in Models \ {m} : model'[c] = model[c]
      BY <1>1, <2>1 DEF RegistryTypes
    <2> QED BY <2>2, <2>3 DEF NoModel
  <1>3. RegistryTypes'
    <2>1. new \in [status : ModelStatus, champion : BOOLEAN, promoted : 0..MaxChanges]
      BY RegistryAssumption DEF ModelStatus
    <2>2. model' = [model EXCEPT ![m] = new] BY <1>9 DEF RegisterModel
    <2> HIDE DEF new
    <2> QED BY <1>1, <1>2, <2>1, <2>2 DEF RegistryTypes
  <1> HIDE DEF new
  <1>4. \A c \in Models : /\ model'[c].champion = model[c].champion
                          /\ model'[c].promoted = model[c].promoted
                          /\ model[c].champion => model'[c] = model[c]
    BY <1>2
  <1>5. ChangesCounted' BY <1>2 DEF RegistryInv, ChangesCounted, Open, Unstamped
  <1>6. ChangesRight'
    <2> SUFFICES ASSUME NEW q \in Admins, change[q] # NoChange
                 PROVE  ReadsRight(change[q])'
      BY <1>2 DEF ChangesRight
    <2>1. ReadsRight(change[q]) BY DEF RegistryInv, ChangesRight
    <2>2. change[q].model \in Models BY <1>1 DEF RegistryTypes, Change
    <2>3. Champions(change[q].model)' = Champions(change[q].model)
      BY <1>2, <1>4 DEF Champions
    <2> QED BY <1>2, <1>4, <2>1, <2>2, <2>3 DEF ReadsRight
  <1>7. OneChampion'
    <2>1. {c \in Models : model'[c].champion} = {c \in Models : model[c].champion}
      BY <1>4
    <2>2. Active' = Active BY <1>4 DEF Active
    <2>3. ChampionModel' = ChampionModel BY <1>4, <2>2 DEF ChampionModel, Active
    <2>4. Listed \subseteq Listed' BY <1>2 DEF Listed, NoModel
    <2>5. (\E c \in Models : model'[c].promoted > 0) <=> \E c \in Models : model[c].promoted > 0
      BY <1>4
    <2> QED BY <1>2, <2>1, <2>3, <2>4, <2>5 DEF OneChampion, RegistryInv
  <1> QED BY <1>3, <1>5, <1>6, <1>7 DEF RegistryInv

(* A step of one request that commits nothing. *)
LEMMA ChangeKeeps ==
    ASSUME RegistryInv, NEW q \in Admins, UNCHANGED <<model, commits, settled>>,
           \A r \in Admins \ {q} : change'[r] = change[r],
           change' = [r \in Admins |-> change'[r]],
           change'[q] = NoChange \/ (change'[q] \in Change /\ ReadsRight(change'[q])),
           begun' \in 0..MaxChanges, stamped' \in 0..MaxChanges, ChangesCounted'
    PROVE  RegistryInv'
  <1>1. RegistryTypes BY DEF RegistryInv
  <1>2. change' \in [Admins -> {NoChange} \cup Change]
    <2>1. \A r \in Admins : change'[r] \in {NoChange} \cup Change
      BY <1>1 DEF RegistryTypes
    <2> QED BY <2>1
  <1>3. RegistryTypes' BY <1>1, <1>2 DEF RegistryTypes
  <1>4. ChangesRight'
    <2> SUFFICES ASSUME NEW r \in Admins, change'[r] # NoChange
                 PROVE  ReadsRight(change'[r])
      BY DEF ChangesRight, ReadsRight, Champions
    <2>1. CASE r = q BY <2>1
    <2>2. CASE r # q BY <2>2 DEF RegistryInv, ChangesRight
    <2> QED BY <2>1, <2>2
  <1>5. OneChampion'
    BY DEF RegistryInv, OneChampion, ChampionModel, Active, Listed
  <1> QED BY <1>3, <1>4, <1>5 DEF RegistryInv

LEMMA BeginInv ==
    ASSUME RegistryInv, NEW q \in Admins, NEW m \in Models,
           BeginPromotion(q, m) \/ BeginArchival(q, m)
    PROVE  RegistryInv'
  <1>1. RegistryTypes BY DEF RegistryInv
  <1>2. PICK kind \in {"promote", "archive"} :
           Begin(q, kind, m) /\ (kind = "archive" => ~model[m].champion)
    BY DEF BeginPromotion, BeginArchival
  <1> DEFINE x == [kind |-> kind, model |-> m, step |-> "read", victims |-> {},
                   promoted |-> 0, commits |-> commits]
  <1>3. /\ change' = [change EXCEPT ![q] = x] /\ change[q] = NoChange
        /\ begun < MaxChanges /\ begun' = begun + 1
        /\ UNCHANGED <<model, stamped, commits, settled>>
    BY <1>2 DEF Begin
  <1>4. x \in Change BY <1>1, RegistryAssumption DEF RegistryTypes, Change
  <1>5. /\ x.kind = kind /\ x.model = m /\ x.step = "read" /\ x.commits = commits
    OBVIOUS
  <1> HIDE DEF x
  <1>6. ReadsRight(x) BY <1>1, <1>2, <1>5 DEF ReadsRight, RegistryTypes
  <1>7. /\ change'[q] = x /\ \A r \in Admins \ {q} : change'[r] = change[r]
        /\ change' = [r \in Admins |-> change'[r]]
    BY <1>1, <1>3 DEF RegistryTypes
  <1>8. begun' \in 0..MaxChanges /\ stamped' \in 0..MaxChanges
    BY <1>1, <1>3, RegistryAssumption DEF RegistryTypes
  <1>9. ChangesCounted'
    <2>1. PICK o, o1, u, u1 \in Nat :
             /\ o = Cardinality(Open) /\ o1 = Cardinality(Open)'
             /\ u = Cardinality(Unstamped) /\ u1 = Cardinality(Unstamped)'
      BY <1>7, CountsMove
    <2>2. q \notin Open /\ q \notin Unstamped
      BY <1>3 DEF Open, Unstamped, NoChange
    <2>3. o1 <= o + 1 /\ u1 <= u + 1 BY <1>7, <2>1, <2>2, CountsMove
    <2>4. stamped + u <= begun /\ commits + o <= begun
      BY <2>1 DEF RegistryInv, ChangesCounted
    <2>5. stamped \in Nat /\ commits \in Nat /\ begun \in Nat BY <1>1 DEF RegistryTypes
    <2>6. stamped + u1 <= begun + 1 /\ commits + o1 <= begun + 1 BY <2>3, <2>4, <2>5
    <2> QED BY <1>3, <2>1, <2>6 DEF ChangesCounted
  <1> QED BY <1>3, <1>4, <1>6, <1>7, <1>8, <1>9, ChangeKeeps

(* The kind of a request's change tells that it has one. *)
LEMMA PromotionOpen ==
    ASSUME RegistryTypes, NEW q \in Admins, change[q].kind \in {"promote", "archive"}
    PROVE  change[q] # NoChange /\ change[q] \in Change
BY DEF RegistryTypes, NoChange

LEMMA SeeChampionsInv ==
    ASSUME RegistryInv, NEW q \in Admins, SeeChampions(q)
    PROVE  RegistryInv'
  <1>1. RegistryTypes BY DEF RegistryInv
  <1>2. change[q] # NoChange /\ change[q] \in Change
    BY <1>1, PromotionOpen DEF SeeChampions
  <1> DEFINE x == [kind |-> change[q].kind, model |-> change[q].model, step |-> "demoting",
                   victims |-> Champions(change[q].model),
                   promoted |-> change[q].promoted, commits |-> change[q].commits]
  <1>3. /\ change'[q] = x /\ \A r \in Admins \ {q} : change'[r] = change[r]
        /\ change' = [r \in Admins |-> change'[r]]
        /\ UNCHANGED <<model, begun, stamped, commits, settled>>
    BY <1>1, <1>2 DEF SeeChampions, RegistryTypes, Change
  <1>4. x \in Change BY <1>2 DEF Change, Champions
  <1>5. /\ x.kind = change[q].kind /\ x.model = change[q].model /\ x.step = "demoting"
        /\ x.victims = Champions(x.model) /\ x.commits = change[q].commits
        /\ x # NoChange
    BY <1>2 DEF NoChange, Change
  <1> HIDE DEF x
  <1>6. ReadsRight(x)
    BY <1>2, <1>5 DEF ReadsRight, RegistryInv, ChangesRight, SeeChampions
  <1>7. begun' \in 0..MaxChanges /\ stamped' \in 0..MaxChanges
    BY <1>1, <1>3 DEF RegistryTypes
  <1>8. ChangesCounted'
    <2>1. Open' = Open
      BY <1>2, <1>3, <1>5 DEF Open
    <2>2. change[q].kind = "promote" /\ change[q].step = "read" BY DEF SeeChampions
    <2>3. x.kind = "promote" /\ x.step # "demoted" BY <1>5, <2>2
    <2>4. \A r \in Admins : (change'[r].kind = "promote" /\ change'[r].step # "demoted")
             <=> (change[r].kind = "promote" /\ change[r].step # "demoted")
      BY <1>3, <2>2, <2>3
    <2>5. Unstamped' = Unstamped BY <2>4 DEF Unstamped
    <2> QED BY <1>3, <2>1, <2>5 DEF RegistryInv, ChangesCounted
  <1> QED BY <1>3, <1>4, <1>6, <1>7, <1>8, ChangeKeeps

LEMMA DemoteInv ==
    ASSUME RegistryInv, NEW q \in Admins, DemoteChampions(q)
    PROVE  RegistryInv'
  <1>1. RegistryTypes BY DEF RegistryInv
  <1>2. change[q] # NoChange /\ change[q] \in Change
    BY <1>1, PromotionOpen DEF DemoteChampions
  <1> DEFINE x == [kind |-> change[q].kind, model |-> change[q].model, step |-> "demoted",
                   victims |-> {c \in change[q].victims : model[c].champion},
                   promoted |-> stamped + 1, commits |-> change[q].commits]
  <1>3. /\ change'[q] = x /\ \A r \in Admins \ {q} : change'[r] = change[r]
        /\ change' = [r \in Admins |-> change'[r]]
        /\ stamped' = stamped + 1
        /\ UNCHANGED <<model, begun, commits, settled>>
    BY <1>1, <1>2 DEF DemoteChampions, RegistryTypes, Change
  <1>4. x.kind = change[q].kind /\ x.model = change[q].model /\ x.step = "demoted"
        /\ x.victims = {c \in change[q].victims : model[c].champion}
        /\ x.promoted = stamped + 1 /\ x.commits = change[q].commits
        /\ x # NoChange
    BY <1>2 DEF NoChange, Change
  <1>5. stamped \in Nat /\ begun \in Nat /\ commits \in Nat /\ begun <= MaxChanges
    BY <1>1, RegistryAssumption DEF RegistryTypes
  <1>6. ChangesCounted' /\ stamped + 1 <= begun
    <2>1. q \in Unstamped /\ q \notin Unstamped'
      BY <1>3, <1>4 DEF Unstamped, DemoteChampions
    <2>2. Open' = Open BY <1>2, <1>3, <1>4 DEF Open
    <2>3. PICK u, u1 \in Nat : u = Cardinality(Unstamped) /\ u1 = Cardinality(Unstamped)'
      BY <1>3, CountsMove
    <2>4. u = u1 + 1 BY <1>3, <2>1, <2>3, CountsMove
    <2>5. stamped + u <= begun /\ commits + Cardinality(Open) <= begun
      BY <2>3 DEF RegistryInv, ChangesCounted
    <2>6. (stamped + 1) + u1 <= begun /\ stamped + 1 <= begun BY <1>5, <2>3, <2>4, <2>5
    <2> QED BY <1>3, <2>2, <2>3, <2>5, <2>6 DEF ChangesCounted
  <1>7. stamped + 1 \in 0..MaxChanges BY <1>5, <1>6, RegistryAssumption
  <1>8. x \in Change BY <1>2, <1>7 DEF Change
  <1> HIDE DEF x
  <1>9. ReadsRight(x)
    <2>1. ReadsRight(change[q]) BY <1>2 DEF RegistryInv, ChangesRight
    <2>2. x.promoted > 0 BY <1>4, <1>5
    <2>3. change[q].kind = "promote" /\ change[q].step = "demoting" BY DEF DemoteChampions
    <2>4. ASSUME x.commits = commits PROVE x.victims = Champions(x.model)
      <3>1. change[q].victims = Champions(change[q].model)
        BY <1>4, <2>1, <2>3, <2>4 DEF ReadsRight
      <3> QED BY <1>4, <3>1 DEF Champions
    <2> QED BY <1>4, <2>1, <2>2, <2>3, <2>4 DEF ReadsRight
  <1>10. begun' \in 0..MaxChanges /\ stamped' \in 0..MaxChanges
    BY <1>1, <1>3, <1>7 DEF RegistryTypes
  <1> QED BY <1>3, <1>6, <1>8, <1>9, <1>10, ChangeKeeps

LEMMA FailChangeInv ==
    ASSUME RegistryInv, NEW q \in Admins, FailChange(q)
    PROVE  RegistryInv'
  <1>1. RegistryTypes BY DEF RegistryInv
  <1>2. /\ change[q] # NoChange /\ change'[q] = NoChange
        /\ \A r \in Admins \ {q} : change'[r] = change[r]
        /\ change' = [r \in Admins |-> change'[r]]
        /\ UNCHANGED <<model, begun, stamped, commits, settled>>
    BY <1>1 DEF FailChange, RegistryTypes
  <1>3. ChangesCounted'
    <2>1. q \notin Open' /\ q \notin Unstamped' BY <1>2 DEF Open, Unstamped, NoChange
    <2>2. PICK o, o1, u, u1 \in Nat :
             /\ o = Cardinality(Open) /\ o1 = Cardinality(Open)'
             /\ u = Cardinality(Unstamped) /\ u1 = Cardinality(Unstamped)'
      BY <1>2, CountsMove
    <2>3. o1 <= o /\ u1 <= u BY <1>2, <2>1, <2>2, CountsMove
    <2>4. stamped + u <= begun /\ commits + o <= begun
      BY <2>2 DEF RegistryInv, ChangesCounted
    <2>5. stamped \in Nat /\ commits \in Nat /\ begun \in Nat BY <1>1 DEF RegistryTypes
    <2>6. stamped + u1 <= begun /\ commits + o1 <= begun BY <2>3, <2>4, <2>5
    <2> QED BY <1>2, <2>2, <2>6 DEF ChangesCounted
  <1>4. begun' \in 0..MaxChanges /\ stamped' \in 0..MaxChanges
    BY <1>1, <1>2 DEF RegistryTypes
  <1> QED BY <1>2, <1>3, <1>4, ChangeKeeps

(* A commit: it is counted once, and every other change has been overtaken. *)
LEMMA CommitCounts ==
    ASSUME RegistryInv, NEW q \in Admins, change[q] # NoChange, Committed(q)
    PROVE  /\ ChangesCounted' /\ commits' = commits + 1 /\ commits' \in 0..MaxChanges
           /\ commits \in Nat /\ UNCHANGED <<begun, stamped>>
           /\ change' \in [Admins -> {NoChange} \cup Change]
           /\ \A r \in Admins : change'[r] # NoChange =>
                 /\ change'[r] = change[r] /\ change[r] # NoChange
                 /\ change[r].commits <= commits
  <1>1. RegistryTypes BY DEF RegistryInv
  <1>2. /\ change'[q] = NoChange
        /\ \A r \in Admins \ {q} : change'[r] = change[r]
        /\ commits' = commits + 1 /\ UNCHANGED <<begun, stamped>>
    BY <1>1 DEF Committed, RegistryTypes
  <1>3. stamped \in Nat /\ commits \in Nat /\ begun \in Nat /\ begun <= MaxChanges
    BY <1>1, RegistryAssumption DEF RegistryTypes
  <1>4. ChangesCounted' /\ commits + 1 <= begun
    <2>1. q \notin Open' /\ q \notin Unstamped' /\ q \in Open
      BY <1>2 DEF Open, Unstamped, NoChange
    <2>2. PICK o, o1, u, u1 \in Nat :
             /\ o = Cardinality(Open) /\ o1 = Cardinality(Open)'
             /\ u = Cardinality(Unstamped) /\ u1 = Cardinality(Unstamped)'
      BY <1>2, CountsMove
    <2>3. o = o1 + 1 /\ u1 <= u BY <1>2, <2>1, <2>2, CountsMove
    <2>4. stamped + u <= begun /\ commits + o <= begun
      BY <2>2 DEF RegistryInv, ChangesCounted
    <2>5. stamped + u1 <= begun /\ (commits + 1) + o1 <= begun /\ commits + 1 <= begun
      BY <1>3, <2>2, <2>3, <2>4
    <2> QED BY <1>2, <2>2, <2>5 DEF ChangesCounted
  <1>5. commits' \in 0..MaxChanges BY <1>2, <1>3, <1>4, RegistryAssumption
  <1>6. change' \in [Admins -> {NoChange} \cup Change]
    BY <1>1 DEF Committed, RegistryTypes
  <1>7. ASSUME NEW r \in Admins, change'[r] # NoChange
        PROVE  /\ change'[r] = change[r] /\ change[r] # NoChange
               /\ change[r].commits <= commits
    BY <1>2, <1>7 DEF RegistryInv, ChangesRight, ReadsRight
  <1> QED BY <1>2, <1>3, <1>4, <1>5, <1>6, <1>7

LEMMA OvertakenRight ==
    ASSUME RegistryInv, NEW q \in Admins, change[q] # NoChange, Committed(q)
    PROVE  ChangesRight'
  <1> SUFFICES ASSUME NEW r \in Admins, change'[r] # NoChange PROVE ReadsRight(change[r])'
    BY DEF ChangesRight, ReadsRight
  <1>1. /\ change'[r] = change[r] /\ change[r] # NoChange /\ change[r].commits <= commits
        /\ commits' = commits + 1 /\ commits \in Nat
    BY CommitCounts
  <1>2. change[r].commits \in Nat
    BY <1>1 DEF RegistryInv, RegistryTypes, Change
  <1>3. change[r].commits <= commits' /\ change[r].commits # commits' BY <1>1, <1>2
  <1>4. change[r].step = "demoted" => change[r].promoted > 0
    BY <1>1 DEF RegistryInv, ChangesRight, ReadsRight
  <1> QED BY <1>1, <1>3, <1>4 DEF ReadsRight

LEMMA ModelFields ==
    ASSUME RegistryTypes, NEW m \in Models
    PROVE  model[m] \in [status : {"none"} \cup ModelStatus, champion : BOOLEAN,
                         promoted : 0..MaxChanges]
  <1>1. NoModel \in [status : {"none"} \cup ModelStatus, champion : BOOLEAN,
                     promoted : 0..MaxChanges]
    BY RegistryAssumption DEF NoModel
  <1>2. CASE model[m] = NoModel BY <1>1, <1>2
  <1>3. CASE model[m] \in [status : ModelStatus, champion : BOOLEAN, promoted : 0..MaxChanges]
    BY <1>3
  <1> QED BY <1>2, <1>3 DEF RegistryTypes

LEMMA CommitPromotionInv ==
    ASSUME RegistryInv, NEW q \in Admins, CommitPromotion(q)
    PROVE  RegistryInv'
  <1>1. RegistryTypes BY DEF RegistryInv
  <1>2. change[q] # NoChange /\ change[q] \in Change
    BY <1>1, PromotionOpen DEF CommitPromotion
  <1>3. PICK x \in Change : x = change[q] BY <1>2
  <1>4. /\ x.model \in Models /\ x.victims \subseteq Models
        /\ x.promoted \in 0..MaxChanges /\ x.promoted > 0
        /\ x.kind = "promote" /\ x.step = "demoted"
    BY <1>2, <1>3 DEF Change, CommitPromotion, RegistryInv, ChangesRight, ReadsRight
  <1> DEFINE Type == [status : ModelStatus, champion : BOOLEAN, promoted : 0..MaxChanges]
  <1>5. ASSUME NEW m \in Models
        PROVE  /\ m = x.model =>
                    /\ model'[m].status = "champion" /\ model'[m].champion = TRUE
                    /\ model'[m].promoted = x.promoted /\ model'[m] \in Type
               /\ m # x.model /\ m \in x.victims =>
                    model'[m].champion = FALSE /\ model'[m] \in Type
               /\ m # x.model /\ m \notin x.victims => model'[m] = model[m]
    <2>1. model'[m] = IF m = x.model
                      THEN [status |-> "champion", champion |-> TRUE, promoted |-> x.promoted]
                      ELSE IF m \in x.victims
                           THEN [model[m] EXCEPT !.status = "archived", !.champion = FALSE]
                           ELSE model[m]
      BY <1>3 DEF CommitPromotion
    <2>2. [status |-> "champion", champion |-> TRUE, promoted |-> x.promoted] \in Type
      BY <1>4 DEF ModelStatus
    <2>3. [model[m] EXCEPT !.status = "archived", !.champion = FALSE] \in Type
          /\ [model[m] EXCEPT !.status = "archived", !.champion = FALSE].champion = FALSE
      <3>1. PICK r \in [status : {"none"} \cup ModelStatus, champion : BOOLEAN,
                        promoted : 0..MaxChanges] : r = model[m]
        BY <1>1, ModelFields
      <3>2. PICK e \in [status : {"archived"}, champion : BOOLEAN, promoted : 0..MaxChanges] :
               e = [r EXCEPT !.status = "archived"]
        <4>1. [r EXCEPT !.status = "archived"]
                = [status |-> "archived", champion |-> r.champion, promoted |-> r.promoted]
          OBVIOUS
        <4>2. r.champion \in BOOLEAN /\ r.promoted \in 0..MaxChanges OBVIOUS
        <4> QED BY <4>1, <4>2
      <3>3. [e EXCEPT !.champion = FALSE]
               = [status |-> "archived", champion |-> FALSE, promoted |-> e.promoted]
        <4>1. PICK f \in BOOLEAN : f = FALSE OBVIOUS
        <4>2. [e EXCEPT !.champion = f]
                = [status |-> e.status, champion |-> f, promoted |-> e.promoted]
          OBVIOUS
        <4> QED BY <4>1, <4>2
      <3>4. [r EXCEPT !.status = "archived", !.champion = FALSE] = [e EXCEPT !.champion = FALSE]
        BY <3>2
      <3> QED BY <3>1, <3>3, <3>4 DEF ModelStatus
    <2> HIDE DEF Type
    <2> QED BY <2>1, <2>2, <2>3
  <1>6. model' \in [Models -> {NoModel} \cup Type]
    <2>1. model' = [m \in Models |-> model'[m]] BY DEF CommitPromotion
    <2>2. \A m \in Models : model[m] \in {NoModel} \cup Type BY <1>1 DEF RegistryTypes
    <2> HIDE DEF Type
    <2> QED BY <1>5, <2>1, <2>2
  <1>7. Committed(q) /\ settled' = Alone(q) BY DEF CommitPromotion
  <1>8. RegistryTypes'
    <2>1. settled' \in BOOLEAN BY <1>7 DEF Alone
    <2> QED BY <1>1, <1>2, <1>6, <1>7, <2>1, CommitCounts DEF RegistryTypes
  <1>9. ASSUME settled' = TRUE PROVE OneChampion'
    <2>1. x.victims = Champions(x.model)
      BY <1>2, <1>3, <1>4, <1>7, <1>9 DEF RegistryInv, ChangesRight, ReadsRight, Alone
    <2>2. \A m \in Models : model'[m].champion <=> m = x.model
      BY <1>4, <1>5, <2>1 DEF Champions
    <2>3. {m \in Models : model'[m].champion} = {x.model} BY <1>4, <2>2
    <2>4. Active' = {x.model} BY <1>4, <1>5, <2>2 DEF Active
    <2>5. ChampionModel' = {x.model}
      <3>1. PICK k \in Nat : k = model'[x.model].promoted
        <4>1. x.promoted \in Nat BY <1>4, RegistryAssumption
        <4>2. model'[x.model].promoted = x.promoted BY <1>4, <1>5
        <4> QED BY <4>1, <4>2
      <3> QED BY <2>4, <3>1 DEF ChampionModel
    <2>6. x.model \in Listed' BY <1>4, <1>5 DEF Listed
    <2>7. \E m \in Models : model'[m].promoted > 0 BY <1>4, <1>5
    <2>8. Cardinality({x.model}) = 1 BY FS_Singleton
    <2> QED BY <2>3, <2>5, <2>6, <2>7, <2>8 DEF OneChampion
  <1>10. OneChampion' BY <1>8, <1>9 DEF OneChampion, RegistryTypes
  <1> QED BY <1>2, <1>7, <1>8, <1>10, CommitCounts, OvertakenRight DEF RegistryInv

LEMMA CommitArchivalInv ==
    ASSUME RegistryInv, NEW q \in Admins, CommitArchival(q)
    PROVE  RegistryInv'
  <1>1. RegistryTypes BY DEF RegistryInv
  <1>2. change[q] # NoChange /\ change[q] \in Change
    BY <1>1, PromotionOpen DEF CommitArchival
  <1>3. PICK m \in Models : m = change[q].model BY <1>2 DEF Change
  <1> DEFINE Type == [status : ModelStatus, champion : BOOLEAN, promoted : 0..MaxChanges]
  <1>4. /\ model'[m] \in Type /\ model'[m].champion = model[m].champion
        /\ model'[m].promoted = model[m].promoted
        /\ \A c \in Models \ {m} : model'[c] = model[c]
        /\ model' = [c \in Models |-> model'[c]]
    <2>1. PICK r \in [status : {"none"} \cup ModelStatus, champion : BOOLEAN,
                      promoted : 0..MaxChanges] : r = model[m]
      BY <1>1, ModelFields
    <2>2. [r EXCEPT !.status = "archived"]
             = [status |-> "archived", champion |-> r.champion, promoted |-> r.promoted]
      OBVIOUS
    <2>3. model' = [model EXCEPT ![m] = [r EXCEPT !.status = "archived"]]
      BY <1>3, <2>1 DEF CommitArchival
    <2>4. /\ model'[m] = [r EXCEPT !.status = "archived"]
          /\ \A c \in Models \ {m} : model'[c] = model[c]
          /\ model' = [c \in Models |-> model'[c]]
      BY <1>1, <2>3 DEF RegistryTypes
    <2> QED BY <2>1, <2>2, <2>4 DEF ModelStatus
  <1>5. model' \in [Models -> {NoModel} \cup Type]
    <2>1. \A c \in Models : model[c] \in {NoModel} \cup Type BY <1>1 DEF RegistryTypes
    <2> HIDE DEF Type
    <2> QED BY <1>4, <2>1
  <1>6. Committed(q) /\ settled' = (settled /\ Alone(q)) BY DEF CommitArchival
  <1>7. RegistryTypes'
    <2>1. settled' \in BOOLEAN BY <1>6 DEF Alone
    <2> QED BY <1>1, <1>2, <1>5, <1>6, <2>1, CommitCounts DEF RegistryTypes
  <1>8. ASSUME settled' = TRUE PROVE OneChampion'
    <2>1. settled /\ Alone(q) BY <1>6, <1>8
    <2>2. ~model[m].champion
      BY <1>2, <1>3, <2>1 DEF RegistryInv, ChangesRight, ReadsRight, Alone, CommitArchival
    <2>3. \A c \in Models : /\ model'[c].champion = model[c].champion
                            /\ model'[c].promoted = model[c].promoted
                            /\ model[c].champion => model'[c] = model[c]
      BY <1>4, <2>2
    <2>4. {c \in Models : model'[c].champion} = {c \in Models : model[c].champion}
      BY <2>3
    <2>5. Active' = Active BY <2>3 DEF Active
    <2>6. ChampionModel' = ChampionModel BY <2>3, <2>5 DEF ChampionModel, Active
    <2>7. \A c \in Models : model[c].champion /\ c \in Listed => c \in Listed'
      BY <2>3 DEF Listed
    <2>8. (\E c \in Models : model'[c].promoted > 0) <=> \E c \in Models : model[c].promoted > 0
      BY <2>3
    <2> QED BY <2>1, <2>4, <2>6, <2>7, <2>8 DEF OneChampion, RegistryInv
  <1>9. OneChampion' BY <1>7, <1>8 DEF OneChampion, RegistryTypes
  <1> QED BY <1>2, <1>6, <1>7, <1>9, CommitCounts, OvertakenRight DEF RegistryInv

LEMMA RegistryStep ==
    ASSUME RegistryInv, RegistryNext \/ UNCHANGED registryVars
    PROVE  RegistryInv'
  <1>1. CASE UNCHANGED registryVars
    <2>1. RegistryTypes' BY <1>1 DEF registryVars, RegistryInv, RegistryTypes
    <2>2. ChangesCounted' /\ ChangesRight'
      BY <1>1 DEF registryVars, RegistryInv, ChangesCounted, Open, Unstamped, ChangesRight,
                  ReadsRight, Champions
    <2>3. OneChampion'
      BY <1>1 DEF registryVars, RegistryInv, OneChampion, ChampionModel, Active, Listed
    <2> QED BY <2>1, <2>2, <2>3 DEF RegistryInv
  <1>2. CASE RegistryNext
    BY <1>2, RegisterInv, BeginInv, SeeChampionsInv, DemoteInv, CommitPromotionInv,
       CommitArchivalInv, FailChangeInv
       DEF RegistryNext
  <1> QED BY <1>1, <1>2
-----------------------------------------------------------------------------
(* Scores. *)

Points == 0..MaxScore

ScoreRow == [at : Nat, until : Nat, value : Points, level : RiskLevels,
             previous : SUBSET Points, model : SUBSET Models, force : BOOLEAN,
             checked : Nat, seen : Nat, settled : BOOLEAN, promoted : BOOLEAN]
Checked == [step : {"checked"}, supplier : Suppliers, force : BOOLEAN, checked : Nat]
Scored == [step : {"scored"}, supplier : Suppliers, row : ScoreRow]
TaskRow == [state : {"queued", "running", "ok", "failed"}, supplier : Suppliers,
            force : BOOLEAN, tries : 0..MaxRetries]

ScoringTypes ==
    /\ scores \in [Suppliers -> Seq(ScoreRow)]
    /\ work \in [Workers -> {NoWork} \cup Checked \cup Scored]
    /\ task \in [Tasks -> {NoTask} \cup TaskRow]
    /\ sent \in [Suppliers -> SUBSET (1..MaxTime)]
    /\ now \in 0..MaxTime /\ lost \in 0..MaxLost
    /\ \A t \in Tasks : work[t] # NoWork => task[t] # NoTask

(* A row is announced, names the latest of the rows seen, was computed without
   force only after those checked had expired, and by the champion if there is one. *)
RightScore(sq, out, r) ==
    /\ r.at \in out
    /\ r.checked <= Len(sq) /\ r.seen <= Len(sq)
    /\ \A j \in 1..r.seen : sq[j].at < r.at
    /\ r.previous = {sq[j].value : j \in {k \in 1..r.seen :
                                     \A l \in 1..r.seen : sq[l].at <= sq[k].at}}
    /\ ~r.force => \A j \in 1..r.checked : sq[j].until <= r.at
    /\ r.settled => (r.model # {} <=> r.promoted)

(* What was checked has expired, unless the score is forced. *)
RightCheck(x) ==
    /\ x.checked <= Len(scores[x.supplier])
    /\ ~x.force => \A j \in 1..x.checked : scores[x.supplier][j].until <= now

ScoresRight ==
    \A s \in Suppliers :
        /\ Apart(scores[s])
        /\ \A i \in 1..Len(scores[s]) :
              /\ scores[s][i].at <= now
              /\ RightScore(scores[s], sent[s], scores[s][i])

PendingRight(x) ==
    /\ x.row.at <= now
    /\ RightScore(scores[x.supplier], sent[x.supplier], x.row)
    /\ \A i \in 1..Len(scores[x.supplier]) : scores[x.supplier][i].at # x.row.at

WorkRight ==
    \A w \in Workers : /\ work[w] \in Checked => RightCheck(work[w])
                       /\ work[w] \in Scored => PendingRight(work[w])

WorkApart ==
    \A w, v \in Workers :
        work[w] \in Scored /\ work[v] \in Scored /\ work[w].row.at = work[v].row.at => w = v

ScoringInv == ScoringTypes /\ ScoresRight /\ WorkRight /\ WorkApart

LEMMA StepsDiffer ==
    /\ NoWork \notin Checked /\ NoWork \notin Scored /\ Checked \cap Scored = {}
    /\ NoTask \notin TaskRow
    /\ \A x \in Checked : x.step = "checked" /\ x # NoWork
    /\ \A x \in Scored : x.step = "scored" /\ x # NoWork
    /\ NoWork.step = "none" /\ NoTask.state = "none"
  BY DEF NoWork, NoTask, Checked, Scored, TaskRow

LEMMA MaxScoreType == MaxScore \in Nat
  BY DEF MaxScore

LEMMA ScoringNumbers ==
    /\ Ttl \in Nat /\ MaxRetries \in Nat /\ MaxTime \in Nat /\ MaxLost \in Nat
    /\ Counted \subseteq Suppliers /\ IsFiniteSet(Suppliers) /\ Calls \cap Tasks = {}
    /\ \A o \in OtdRates : o \subseteq 0..100
    /\ \A m \in Models : ModelScore[m] \in Points
  <1>1. {Ttl, MaxRetries, MaxTime, MaxLost} \subseteq Nat BY ScoringAssumption
  <1>2. Counted \subseteq Suppliers /\ IsFiniteSet(Suppliers) /\ Calls \cap Tasks = {}
    BY ScoringAssumption
  <1>3. ASSUME NEW o \in OtdRates PROVE o \subseteq 0..100
    <2>1. Cardinality(o) <= 1 /\ o \subseteq 0..100 BY <1>3, ScoringAssumption
    <2> QED BY <2>1
  <1>4. ModelScore \in [Models -> Points] BY ScoringAssumption DEF Points
  <1> QED BY <1>1, <1>2, <1>3, <1>4

LEMMA RowFields ==
    ASSUME NEW r \in ScoreRow
    PROVE  /\ r.at \in Nat /\ r.until \in Nat /\ r.checked \in Nat /\ r.seen \in Nat
           /\ r.value \in Points /\ r.level \in RiskLevels /\ r.model \subseteq Models
  BY DEF ScoreRow

(* What was right about a row stays so. *)
LEMMA ScoreGrows ==
    ASSUME NEW sq \in Seq(ScoreRow), NEW r \in ScoreRow, NEW e \in ScoreRow,
           NEW out, RightScore(sq, out, r)
    PROVE  RightScore(Append(sq, e), out, r)
  <1>1. PICK tq : tq = Append(sq, e) OBVIOUS
  <1>2. /\ Len(tq) = Len(sq) + 1 /\ Len(sq) \in Nat
        /\ \A i \in 1..Len(sq) : tq[i] = sq[i]
    BY <1>1
  <1>3. /\ r.seen \in Nat /\ r.seen <= Len(sq)
        /\ r.checked \in Nat /\ r.checked <= Len(sq)
    <2>1. r.seen \in Nat /\ r.checked \in Nat BY RowFields
    <2> QED BY <2>1 DEF RightScore
  <1>4. /\ \A j \in 1..r.seen : tq[j] = sq[j]
        /\ \A j \in 1..r.checked : tq[j] = sq[j]
    BY <1>2, <1>3
  <1>5. {k \in 1..r.seen : \A l \in 1..r.seen : tq[l].at <= tq[k].at}
          = {k \in 1..r.seen : \A l \in 1..r.seen : sq[l].at <= sq[k].at}
    BY <1>4
  <1>6. r.previous = {tq[j].value : j \in {k \in 1..r.seen :
                                      \A l \in 1..r.seen : tq[l].at <= tq[k].at}}
    <2>1. PICK L \in SUBSET (1..r.seen) :
             /\ L = {k \in 1..r.seen : \A l \in 1..r.seen : sq[l].at <= sq[k].at}
             /\ r.previous = {sq[j].value : j \in L}
      BY DEF RightScore
    <2>2. {sq[j].value : j \in L} = {tq[j].value : j \in L} BY <1>4
    <2> QED BY <1>5, <2>1, <2>2
  <1>7. r.at \in out /\ (r.settled => (r.model # {} <=> r.promoted)) BY DEF RightScore
  <1>8. \A j \in 1..r.seen : tq[j].at < r.at BY <1>4 DEF RightScore
  <1>9. ~r.force => \A j \in 1..r.checked : tq[j].until <= r.at BY <1>4 DEF RightScore
  <1>10. r.checked <= Len(tq) /\ r.seen <= Len(tq) BY <1>2, <1>3
  <1> QED BY <1>1, <1>6, <1>7, <1>8, <1>9, <1>10 DEF RightScore

(* An event more leaves it so, too. *)
LEMMA ScoreAnnounced ==
    ASSUME NEW sq, NEW r, NEW out, NEW more, out \subseteq more, RightScore(sq, out, r)
    PROVE  RightScore(sq, more, r)
  BY DEF RightScore

LEMMA ScoreFields ==
    ASSUME ScoringTypes
    PROVE  /\ \A s \in Suppliers : scores[s] \in Seq(ScoreRow) /\ Len(scores[s]) \in Nat
           /\ \A s \in Suppliers : \A i \in 1..Len(scores[s]) :
                 scores[s][i] \in ScoreRow /\ scores[s][i].at \in Nat /\ scores[s][i].until \in Nat
           /\ \A w \in Workers : work[w] \in Checked =>
                 work[w].supplier \in Suppliers /\ work[w].checked \in Nat
           /\ \A w \in Workers : work[w] \in Scored =>
                 /\ work[w].supplier \in Suppliers
                 /\ work[w].row \in ScoreRow /\ work[w].row.at \in Nat
           /\ now \in Nat
  <1>1. \A s \in Suppliers : scores[s] \in Seq(ScoreRow) /\ Len(scores[s]) \in Nat
    BY DEF ScoringTypes
  <1>2. ASSUME NEW s \in Suppliers, NEW i \in 1..Len(scores[s])
        PROVE  scores[s][i] \in ScoreRow /\ scores[s][i].at \in Nat /\ scores[s][i].until \in Nat
    <2>1. scores[s][i] \in ScoreRow BY <1>1
    <2> QED BY <2>1, RowFields
  <1>3. ASSUME NEW w \in Workers, work[w] \in Scored
        PROVE  /\ work[w].supplier \in Suppliers
               /\ work[w].row \in ScoreRow /\ work[w].row.at \in Nat
    <2>1. PICK x \in Scored : x = work[w] BY <1>3
    <2>2. x.supplier \in Suppliers /\ x.row \in ScoreRow BY DEF Scored
    <2> QED BY <2>1, <2>2, RowFields
  <1>4. ASSUME NEW w \in Workers, work[w] \in Checked
        PROVE  work[w].supplier \in Suppliers /\ work[w].checked \in Nat
    BY <1>4 DEF Checked
  <1>5. now \in Nat BY ScoringNumbers DEF ScoringTypes
  <1> QED BY <1>1, <1>2, <1>3, <1>4, <1>5

LEMMA ScoringInitInv == ScoringInit => ScoringInv
  <1> SUFFICES ASSUME ScoringInit PROVE ScoringInv OBVIOUS
  <1>1. ScoringTypes
    <2>1. /\ now \in 0..MaxTime /\ lost \in 0..MaxLost
      BY ScoringNumbers DEF ScoringInit
    <2>2. \A s \in Suppliers : <<>> \in Seq(ScoreRow) OBVIOUS
    <2> QED BY <2>1, <2>2 DEF ScoringInit, ScoringTypes, Workers
  <1>2. \A s \in Suppliers : scores[s] = <<>> /\ Len(scores[s]) = 0 BY DEF ScoringInit
  <1>3. ScoresRight BY <1>2 DEF ScoresRight, Apart
  <1>4. WorkRight /\ WorkApart BY StepsDiffer DEF ScoringInit, WorkRight, WorkApart
  <1> QED BY <1>1, <1>3, <1>4 DEF ScoringInv

(* Workers start, give up or do nothing; time may pass. *)
LEMMA WorkKeeps ==
    ASSUME ScoringInv, UNCHANGED <<scores, sent>>, now' \in Nat, now <= now',
           \A w \in Workers :
              \/ work'[w] \in {work[w], NoWork}
              \/ work'[w] \in Checked /\ RightCheck(work'[w])
    PROVE  ScoresRight' /\ WorkRight' /\ WorkApart'
  <1>1. ScoringTypes /\ now \in Nat BY ScoreFields DEF ScoringInv
  <1>2. ScoresRight'
    <2> SUFFICES ASSUME NEW s \in Suppliers, NEW i \in 1..Len(scores[s])
                 PROVE  scores[s][i].at <= now'
      BY DEF ScoringInv, ScoresRight
    <2>1. scores[s][i].at \in Nat /\ scores[s][i].at <= now
      BY <1>1, ScoreFields DEF ScoringInv, ScoresRight
    <2> QED BY <1>1, <2>1
  <1>3. ASSUME NEW x \in Checked, RightCheck(x) PROVE RightCheck(x)'
    <2>1. x.supplier \in Suppliers /\ x.checked \in Nat BY DEF Checked
    <2>2. x.checked <= Len(scores[x.supplier]) /\ Len(scores[x.supplier]) \in Nat
      BY <1>1, <1>3, <2>1, ScoreFields DEF RightCheck
    <2>3. ASSUME NEW j \in 1..x.checked, ~x.force PROVE scores[x.supplier][j].until <= now'
      <3>1. j \in 1..Len(scores[x.supplier]) BY <2>1, <2>2
      <3>2. scores[x.supplier][j].until \in Nat BY <1>1, <2>1, <3>1, ScoreFields
      <3>3. scores[x.supplier][j].until <= now BY <1>3, <2>3 DEF RightCheck
      <3> QED BY <1>1, <3>2, <3>3
    <2> QED BY <2>2, <2>3 DEF RightCheck
  <1>4. ASSUME NEW v \in Workers, work'[v] \in Scored PROVE work'[v] = work[v]
    BY <1>4, StepsDiffer
  <1>5. ASSUME NEW v \in Workers, work'[v] \in Checked PROVE RightCheck(work[v])'
    <2>1. PICK x \in Checked : x = work'[v] BY <1>5
    <2>2. RightCheck(x)
      <3>1. CASE x = work[v] BY <3>1 DEF ScoringInv, WorkRight
      <3>2. CASE x # work[v]
        <4>1. x # NoWork BY StepsDiffer
        <4>2. RightCheck(work'[v]) BY <2>1, <3>2, <4>1
        <4> QED BY <2>1, <4>2
      <3> QED BY <3>1, <3>2
    <2>3. RightCheck(x)' BY <1>3, <2>2
    <2> QED BY <2>1, <2>3 DEF RightCheck
  <1>6. ASSUME NEW v \in Workers, work'[v] \in Scored PROVE PendingRight(work[v])'
    <2>1. work'[v] = work[v] /\ PendingRight(work[v])
      BY <1>4, <1>6 DEF ScoringInv, WorkRight
    <2>2. PICK x \in Scored : x = work[v] /\ x = work'[v] BY <1>6, <2>1
    <2>3. x.row.at \in Nat BY <1>1, <2>2, ScoreFields
    <2>4. x.row.at <= now' BY <1>1, <2>1, <2>2, <2>3 DEF PendingRight
    <2> QED BY <2>1, <2>2, <2>4 DEF PendingRight
  <1>7. WorkRight' BY <1>5, <1>6 DEF WorkRight, RightCheck, PendingRight
  <1>8. WorkApart' BY <1>4 DEF ScoringInv, WorkApart
  <1> QED BY <1>2, <1>7, <1>8

LEMMA TickInv ==
    ASSUME ScoringInv, Tick
    PROVE  ScoringInv'
  <1>1. ScoringTypes /\ now \in Nat BY ScoreFields DEF ScoringInv
  <1>2. now' = now + 1 /\ now < MaxTime /\ UNCHANGED <<scores, work, task, sent, lost>>
    BY DEF Tick
  <1>3. ScoringTypes'
    <2>1. now' \in 0..MaxTime BY <1>1, <1>2, ScoringNumbers
    <2> QED BY <1>1, <1>2, <2>1 DEF ScoringTypes
  <1>4. \A v \in Workers :
           \/ work'[v] \in {work[v], NoWork}
           \/ work'[v] \in Checked /\ RightCheck(work'[v])
    BY <1>2
  <1>5. now' \in Nat /\ now <= now' /\ UNCHANGED <<scores, sent>> BY <1>1, <1>2
  <1>6. ScoresRight' /\ WorkRight' /\ WorkApart' BY <1>4, <1>5, WorkKeeps
  <1> QED BY <1>3, <1>6 DEF ScoringInv

LEMMA EnqueueInv ==
    ASSUME ScoringInv, NEW t \in Tasks, NEW s \in Suppliers, NEW force \in BOOLEAN,
           Enqueue(t, s, force)
    PROVE  ScoringInv'
  <1>1. ScoringTypes /\ now \in Nat BY ScoreFields DEF ScoringInv
  <1> DEFINE x == [state |-> "queued", supplier |-> s, force |-> force, tries |-> 0]
  <1>2. x \in TaskRow
    <2>1. 0 \in 0..MaxRetries BY ScoringNumbers
    <2> QED BY <2>1 DEF TaskRow
  <1>3. task' = [task EXCEPT ![t] = x] /\ UNCHANGED <<scores, work, sent, now, lost>>
    BY DEF Enqueue
  <1> HIDE DEF x
  <1>4. ScoringTypes'
    <2>1. task' \in [Tasks -> {NoTask} \cup TaskRow] BY <1>1, <1>2, <1>3 DEF ScoringTypes
    <2>2. \A u \in Tasks : work'[u] # NoWork => task'[u] # NoTask
      BY <1>1, <1>2, <1>3, StepsDiffer DEF ScoringTypes
    <2> QED BY <1>1, <1>3, <2>1, <2>2 DEF ScoringTypes
  <1>5. \A v \in Workers :
           \/ work'[v] \in {work[v], NoWork}
           \/ work'[v] \in Checked /\ RightCheck(work'[v])
    BY <1>3
  <1>6. now' \in Nat /\ now <= now' /\ UNCHANGED <<scores, sent>> BY <1>1, <1>3
  <1>7. ScoresRight' /\ WorkRight' /\ WorkApart' BY <1>5, <1>6, WorkKeeps
  <1> QED BY <1>4, <1>7 DEF ScoringInv

(* What a worker checks has expired, or it is told to go on all the same. *)
LEMMA StartsRight ==
    ASSUME ScoringInv, NEW w \in Workers, NEW s \in Suppliers, NEW force \in BOOLEAN,
           Starts(w, s, force)
    PROVE  /\ \/ work'[w] = NoWork
              \/ work'[w] \in Checked /\ RightCheck(work'[w])
           /\ \A v \in Workers \ {w} : work'[v] = work[v]
           /\ work' \in [Workers -> {NoWork} \cup Checked \cup Scored]
  <1>1. ScoringTypes BY DEF ScoringInv
  <1> DEFINE x == [step |-> "checked", supplier |-> s, force |-> force,
                   checked |-> Len(scores[s])]
  <1>2. x \in Checked BY <1>1, ScoreFields DEF Checked
  <1>3. ASSUME force \/ Stale(s) PROVE RightCheck(x)
    <2>1. x.supplier = s /\ x.checked = Len(scores[s]) /\ x.force = force OBVIOUS
    <2>2. Len(scores[s]) \in Nat /\ scores[s] \in Seq(ScoreRow) BY <1>1, ScoreFields
    <2>3. ASSUME Stale(s), NEW j \in 1..Len(scores[s]) PROVE scores[s][j].until <= now
      <3>1. j \in DOMAIN scores[s] BY <2>2
      <3>2. ~(scores[s][j].until > now) BY <2>3, <3>1 DEF Stale, Fresh
      <3>3. scores[s][j].until \in Nat /\ now \in Nat BY <1>1, ScoreFields
      <3> QED BY <3>2, <3>3
    <2> HIDE DEF x
    <2> QED BY <1>3, <2>1, <2>2, <2>3 DEF RightCheck
  <1>4. work' = [work EXCEPT ![w] = IF force \/ Stale(s) THEN x ELSE NoWork]
    BY DEF Starts
  <1> HIDE DEF x
  <1>5. /\ work'[w] = IF force \/ Stale(s) THEN x ELSE NoWork
        /\ \A v \in Workers \ {w} : work'[v] = work[v]
        /\ work' \in [Workers -> {NoWork} \cup Checked \cup Scored]
    BY <1>1, <1>2, <1>4 DEF ScoringTypes
  <1> QED BY <1>2, <1>3, <1>5

LEMMA StartCallInv ==
    ASSUME ScoringInv, NEW q \in Calls, NEW s \in Suppliers, NEW force \in BOOLEAN,
           StartCall(q, s, force)
    PROVE  ScoringInv'
  <1>1. ScoringTypes /\ now \in Nat BY ScoreFields DEF ScoringInv
  <1>2. q \in Workers /\ q \notin Tasks BY ScoringNumbers DEF Workers
  <1>3. Starts(q, s, force) /\ UNCHANGED <<scores, task, sent, now, lost>> BY DEF StartCall
  <1>4. /\ \/ work'[q] = NoWork
           \/ work'[q] \in Checked /\ RightCheck(work'[q])
        /\ \A v \in Workers \ {q} : work'[v] = work[v]
        /\ work' \in [Workers -> {NoWork} \cup Checked \cup Scored]
    BY <1>2, <1>3, StartsRight
  <1>5. ScoringTypes' BY <1>1, <1>2, <1>3, <1>4 DEF ScoringTypes, Workers
  <1>6. \A v \in Workers :
           \/ work'[v] \in {work[v], NoWork}
           \/ work'[v] \in Checked /\ RightCheck(work'[v])
    BY <1>4
  <1>7. now' \in Nat /\ now <= now' /\ UNCHANGED <<scores, sent>> BY <1>1, <1>3
  <1>8. ScoresRight' /\ WorkRight' /\ WorkApart' BY <1>6, <1>7, WorkKeeps
  <1> QED BY <1>5, <1>8 DEF ScoringInv

LEMMA TaskFields ==
    ASSUME ScoringTypes, NEW t \in Tasks, task[t] # NoTask
    PROVE  /\ task[t] \in TaskRow /\ task[t].supplier \in Suppliers
           /\ task[t].force \in BOOLEAN /\ task[t].tries \in 0..MaxRetries
           /\ task[t].tries \in Nat
  <1>1. PICK x \in TaskRow : x = task[t] BY DEF ScoringTypes
  <1>2. x.supplier \in Suppliers /\ x.force \in BOOLEAN /\ x.tries \in 0..MaxRetries
    BY DEF TaskRow
  <1> QED BY <1>1, <1>2, ScoringNumbers

(* A task that is moved keeps what it was asked. *)
LEMMA TaskMoves ==
    ASSUME NEW x \in TaskRow, NEW state \in {"queued", "running", "ok", "failed"},
           NEW tries \in 0..MaxRetries
    PROVE  /\ [x EXCEPT !.state = state] \in TaskRow
           /\ [x EXCEPT !.state = state, !.tries = tries] \in TaskRow
  <1>1. /\ x.supplier \in Suppliers /\ x.tries \in 0..MaxRetries
        /\ x.force \in BOOLEAN
    BY DEF TaskRow
  <1>2. PICK f \in BOOLEAN : f = x.force BY <1>1
  <1>3. [x EXCEPT !.state = state]
           = [state |-> state, supplier |-> x.supplier, force |-> f, tries |-> x.tries]
    BY <1>2 DEF TaskRow
  <1>4. [x EXCEPT !.state = state] \in TaskRow BY <1>1, <1>3 DEF TaskRow
  <1>5. PICK y \in TaskRow : y = [x EXCEPT !.state = state] BY <1>4
  <1>6. y.supplier \in Suppliers /\ y.force \in BOOLEAN
        /\ y.state \in {"queued", "running", "ok", "failed"}
    BY DEF TaskRow
  <1>7. PICK g \in BOOLEAN : g = y.force BY <1>6
  <1>8. [y EXCEPT !.tries = tries]
           = [state |-> y.state, supplier |-> y.supplier, force |-> g, tries |-> tries]
    BY <1>7 DEF TaskRow
  <1>9. [y EXCEPT !.tries = tries] \in TaskRow BY <1>6, <1>8 DEF TaskRow
  <1>10. [x EXCEPT !.state = state, !.tries = tries] = [y EXCEPT !.tries = tries] BY <1>5
  <1> QED BY <1>4, <1>9, <1>10

LEMMA StartTaskInv ==
    ASSUME ScoringInv, NEW t \in Tasks, StartTask(t)
    PROVE  ScoringInv'
  <1>1. ScoringTypes /\ now \in Nat BY ScoreFields DEF ScoringInv
  <1>2. t \in Workers BY DEF Workers
  <1>3. PICK x \in TaskRow : x = task[t]
    <2>1. task[t] # NoTask BY StepsDiffer DEF StartTask
    <2> QED BY <1>1, <2>1, TaskFields
  <1>4. x.supplier \in Suppliers /\ x.force \in BOOLEAN BY DEF TaskRow
  <1>5. Starts(t, x.supplier, x.force) /\ UNCHANGED <<scores, sent, now, lost>>
    BY <1>3 DEF StartTask
  <1>6. /\ \/ work'[t] = NoWork
           \/ work'[t] \in Checked /\ RightCheck(work'[t])
        /\ \A v \in Workers \ {t} : work'[v] = work[v]
        /\ work' \in [Workers -> {NoWork} \cup Checked \cup Scored]
    BY <1>2, <1>4, <1>5, StartsRight
  <1>7. PICK st \in {"queued", "running", "ok", "failed"} :
           task' = [task EXCEPT ![t] = [x EXCEPT !.state = st]]
    <2>1. PICK st : st = IF work'[t] = NoWork THEN "ok" ELSE "running" OBVIOUS
    <2>2. st \in {"queued", "running", "ok", "failed"} BY <2>1
    <2>3. task' = [task EXCEPT ![t].state = st] BY <2>1 DEF StartTask
    <2> QED BY <1>3, <2>2, <2>3
  <1>8. PICK y \in TaskRow : y = [x EXCEPT !.state = st]
    <2>1. 0 \in 0..MaxRetries BY ScoringNumbers
    <2> QED BY <2>1, TaskMoves
  <1>9. /\ task'[t] = y /\ \A u \in Tasks \ {t} : task'[u] = task[u]
        /\ task' \in [Tasks -> {NoTask} \cup TaskRow]
    BY <1>1, <1>7, <1>8 DEF ScoringTypes
  <1>10. \A u \in Tasks : work'[u] # NoWork => task'[u] # NoTask
    BY <1>1, <1>6, <1>9, StepsDiffer DEF ScoringTypes, Workers
  <1>11. ScoringTypes' BY <1>1, <1>5, <1>6, <1>9, <1>10 DEF ScoringTypes
  <1>12. \A v \in Workers :
           \/ work'[v] \in {work[v], NoWork}
           \/ work'[v] \in Checked /\ RightCheck(work'[v])
    BY <1>6
  <1>13. now' \in Nat /\ now <= now' /\ UNCHANGED <<scores, sent>> BY <1>1, <1>5
  <1>14. ScoresRight' /\ WorkRight' /\ WorkApart' BY <1>12, <1>13, WorkKeeps
  <1> QED BY <1>11, <1>14 DEF ScoringInv

(* A task that ends, or is delivered again, is still a task. *)
LEMMA EndedTypes ==
    ASSUME ScoringTypes, NEW w \in Workers, work[w] # NoWork,
           NEW state \in {"queued", "running", "ok", "failed"}, NEW tries,
           w \in Tasks => tries \in 0..MaxRetries,
           Ended(w, state, tries), work' = [work EXCEPT ![w] = NoWork]
    PROVE  /\ work' \in [Workers -> {NoWork} \cup Checked \cup Scored]
           /\ work'[w] = NoWork /\ \A v \in Workers \ {w} : work'[v] = work[v]
           /\ task' \in [Tasks -> {NoTask} \cup TaskRow]
           /\ lost' \in 0..MaxLost
           /\ \A t \in Tasks : work'[t] # NoWork => task'[t] # NoTask
  <1>1. /\ work' \in [Workers -> {NoWork} \cup Checked \cup Scored]
        /\ work'[w] = NoWork /\ \A v \in Workers \ {w} : work'[v] = work[v]
    BY DEF ScoringTypes
  <1>2. \A t \in Tasks : t \in Workers BY DEF Workers
  <1>3. lost' \in 0..MaxLost
    <2>1. lost \in 0..MaxLost BY DEF ScoringTypes
    <2>2. lost' = lost \/ (lost < MaxLost /\ lost' = lost + 1) BY DEF Ended
    <2> QED BY <2>1, <2>2, ScoringNumbers
  <1>4. CASE w \notin Tasks
    <2>1. UNCHANGED <<task, lost>> BY <1>4 DEF Ended
    <2> QED BY <1>1, <1>2, <1>3, <1>4, <2>1 DEF ScoringTypes
  <1>5. CASE w \in Tasks
    <2>1. PICK x \in TaskRow : x = task[w]
      BY <1>5, TaskFields DEF ScoringTypes
    <2>2. PICK y \in TaskRow : task' = [task EXCEPT ![w] = y]
      <3>1. /\ [x EXCEPT !.state = state, !.tries = tries] \in TaskRow
            /\ [x EXCEPT !.state = "queued"] \in TaskRow
        BY <1>5, TaskMoves
      <3>2. CASE task' = [task EXCEPT ![w].state = state, ![w].tries = tries]
        <4>1. task' = [task EXCEPT ![w] = [x EXCEPT !.state = state, !.tries = tries]]
          BY <1>5, <2>1, <3>2 DEF ScoringTypes
        <4> QED BY <3>1, <4>1
      <3>3. CASE task' = [task EXCEPT ![w].state = "queued"]
        <4>1. task' = [task EXCEPT ![w] = [x EXCEPT !.state = "queued"]] BY <2>1, <3>3
        <4> QED BY <3>1, <4>1
      <3> QED BY <1>5, <3>2, <3>3 DEF Ended
    <2>3. /\ task'[w] = y /\ \A u \in Tasks \ {w} : task'[u] = task[u]
          /\ task' \in [Tasks -> {NoTask} \cup TaskRow]
      BY <1>5, <2>2 DEF ScoringTypes
    <2> QED BY <1>1, <1>2, <1>3, <2>3, StepsDiffer DEF ScoringTypes
  <1> QED BY <1>4, <1>5

LEMMA FailScoreInv ==
    ASSUME ScoringInv, NEW w \in Workers, FailScore(w)
    PROVE  ScoringInv'
  <1>1. ScoringTypes /\ now \in Nat BY ScoreFields DEF ScoringInv
  <1>2. /\ work[w] # NoWork /\ work' = [work EXCEPT ![w] = NoWork]
        /\ UNCHANGED <<scores, sent, now>>
    BY DEF FailScore
  <1> DEFINE again == w \in Tasks /\ task[w].tries < MaxRetries
             state == IF again THEN "queued" ELSE "failed"
             tries == IF again THEN task[w].tries + 1 ELSE MaxRetries
  <1>3. Ended(w, state, tries) BY DEF FailScore
  <1>4. state \in {"queued", "running", "ok", "failed"} OBVIOUS
  <1>5. ASSUME w \in Tasks PROVE tries \in 0..MaxRetries
    <2>1. task[w].tries \in Nat BY <1>1, <1>2, <1>5, TaskFields DEF ScoringTypes
    <2> QED BY <2>1, ScoringNumbers
  <1> HIDE DEF state, tries
  <1>6. /\ work' \in [Workers -> {NoWork} \cup Checked \cup Scored]
        /\ work'[w] = NoWork /\ \A v \in Workers \ {w} : work'[v] = work[v]
        /\ task' \in [Tasks -> {NoTask} \cup TaskRow]
        /\ lost' \in 0..MaxLost
        /\ \A t \in Tasks : work'[t] # NoWork => task'[t] # NoTask
    BY <1>1, <1>2, <1>3, <1>4, <1>5, EndedTypes
  <1>7. ScoringTypes' BY <1>1, <1>2, <1>6 DEF ScoringTypes
  <1>8. \A v \in Workers :
           \/ work'[v] \in {work[v], NoWork}
           \/ work'[v] \in Checked /\ RightCheck(work'[v])
    BY <1>6
  <1>9. now' \in Nat /\ now <= now' /\ UNCHANGED <<scores, sent>> BY <1>1, <1>2
  <1>10. ScoresRight' /\ WorkRight' /\ WorkApart' BY <1>8, <1>9, WorkKeeps
  <1> QED BY <1>7, <1>10 DEF ScoringInv

LEMMA CommitScoreInv ==
    ASSUME ScoringInv, NEW w \in Workers, CommitScore(w)
    PROVE  ScoringInv'
  <1>1. ScoringTypes /\ now \in Nat BY ScoreFields DEF ScoringInv
  <1>2. PICK x \in Scored : x = work[w]
    BY <1>1, StepsDiffer DEF CommitScore, ScoringTypes
  <1>3. /\ x.supplier \in Suppliers /\ x.row \in ScoreRow /\ x.row.at \in Nat
        /\ x # NoWork /\ PendingRight(x)
    BY <1>1, <1>2, ScoreFields, StepsDiffer DEF ScoringInv, WorkRight
  <1>4. PICK s \in Suppliers, r \in ScoreRow : s = x.supplier /\ r = x.row BY <1>3
  <1>5. /\ scores' = [scores EXCEPT ![s] = Append(@, r)]
        /\ work' = [work EXCEPT ![w] = NoWork] /\ UNCHANGED <<sent, now>>
    BY <1>2, <1>4 DEF CommitScore
  <1>6. /\ work' \in [Workers -> {NoWork} \cup Checked \cup Scored]
        /\ work'[w] = NoWork /\ \A v \in Workers \ {w} : work'[v] = work[v]
        /\ task' \in [Tasks -> {NoTask} \cup TaskRow]
        /\ lost' \in 0..MaxLost
        /\ \A t \in Tasks : work'[t] # NoWork => task'[t] # NoTask
    <2>1. PICK tries : /\ Ended(w, "ok", tries)
                       /\ tries = IF w \in Tasks THEN task[w].tries ELSE 0
      BY DEF CommitScore
    <2>2. ASSUME w \in Tasks PROVE tries \in 0..MaxRetries
      <3>1. task[w] # NoTask BY <1>1, <1>2, <1>3, <2>2 DEF ScoringTypes
      <3> QED BY <1>1, <2>1, <2>2, <3>1, TaskFields
    <2>3. "ok" \in {"queued", "running", "ok", "failed"} OBVIOUS
    <2> QED BY <1>1, <1>2, <1>3, <1>5, <2>1, <2>2, <2>3, EndedTypes
  <1>7. PICK sq \in Seq(ScoreRow) : sq = scores[s] BY <1>1, ScoreFields
  <1>8. PICK tq : tq = Append(sq, r) /\ tq \in Seq(ScoreRow) BY AppendProperties
  <1>9. /\ Len(tq) = Len(sq) + 1 /\ Len(sq) \in Nat /\ tq[Len(sq) + 1] = r
        /\ \A i \in 1..Len(sq) : tq[i] = sq[i]
    BY <1>8
  <1>10. /\ scores'[s] = tq /\ \A q \in Suppliers \ {s} : scores'[q] = scores[q]
         /\ scores' \in [Suppliers -> Seq(ScoreRow)]
    BY <1>1, <1>5, <1>7, <1>8 DEF ScoringTypes
  <1>11. ScoringTypes' BY <1>1, <1>5, <1>6, <1>10 DEF ScoringTypes
  <1>12. /\ r.at <= now /\ RightScore(sq, sent[s], r)
         /\ \A i \in 1..Len(sq) : sq[i].at # r.at
    BY <1>3, <1>4, <1>7 DEF PendingRight
  <1>13. /\ Apart(sq)
         /\ \A i \in 1..Len(sq) : sq[i] \in ScoreRow /\ sq[i].at <= now
                                  /\ RightScore(sq, sent[s], sq[i])
    BY <1>1, <1>7, ScoreFields DEF ScoringInv, ScoresRight
  <1>14. Apart(tq) BY <1>9, <1>12, <1>13 DEF Apart
  <1>15. ASSUME NEW i \in 1..Len(tq)
         PROVE  tq[i].at <= now /\ RightScore(tq, sent[s], tq[i])
    <2>1. CASE i \in 1..Len(sq) BY <1>8, <1>9, <1>13, <2>1, ScoreGrows
    <2>2. CASE i = Len(sq) + 1 BY <1>8, <1>9, <1>12, <2>2, ScoreGrows
    <2> QED BY <1>9, <2>1, <2>2
  <1>16. ScoresRight'
    <2> SUFFICES ASSUME NEW q \in Suppliers
                 PROVE  /\ Apart(scores'[q])
                        /\ \A i \in 1..Len(scores'[q]) :
                              /\ scores'[q][i].at <= now
                              /\ RightScore(scores'[q], sent[q], scores'[q][i])
      BY <1>5 DEF ScoresRight
    <2>1. CASE q = s BY <1>10, <1>14, <1>15, <2>1
    <2>2. CASE q # s BY <1>10, <2>2 DEF ScoringInv, ScoresRight
    <2> QED BY <2>1, <2>2
  <1>17. ASSUME NEW v \in Workers, work'[v] # NoWork
         PROVE  v # w /\ work'[v] = work[v]
    BY <1>6, <1>17
  <1>18. ASSUME NEW v \in Workers, work'[v] \in Checked PROVE RightCheck(work[v])'
    <2>1. PICK y \in Checked : y = work[v] /\ y = work'[v] BY <1>17, <1>18, StepsDiffer
    <2>2. RightCheck(y) /\ y.supplier \in Suppliers /\ y.checked \in Nat
      BY <1>1, <2>1, ScoreFields DEF ScoringInv, WorkRight
    <2>3. CASE y.supplier = s
      <3>1. y.checked <= Len(sq) /\ (~y.force => \A j \in 1..y.checked : sq[j].until <= now)
        BY <1>7, <2>2, <2>3 DEF RightCheck
      <3>2. y.checked <= Len(tq) /\ (~y.force => \A j \in 1..y.checked : tq[j].until <= now)
        BY <1>9, <2>2, <3>1
      <3> QED BY <1>5, <1>10, <2>1, <2>3, <3>2 DEF RightCheck
    <2>4. CASE y.supplier # s BY <1>5, <1>10, <2>1, <2>2, <2>4 DEF RightCheck
    <2> QED BY <2>3, <2>4
  <1>19. ASSUME NEW v \in Workers, work'[v] \in Scored PROVE PendingRight(work[v])'
    <2>1. PICK y \in Scored : y = work[v] /\ y = work'[v] BY <1>17, <1>19, StepsDiffer
    <2>2. /\ y.supplier \in Suppliers /\ y.row \in ScoreRow /\ PendingRight(y)
      BY <1>1, <2>1, ScoreFields DEF ScoringInv, WorkRight
    <2>3. y.row.at # r.at
      BY <1>2, <1>4, <1>17, <1>19, <2>1, StepsDiffer DEF ScoringInv, WorkApart
    <2>4. CASE y.supplier = s
      <3>1. /\ y.row.at <= now /\ RightScore(sq, sent[s], y.row)
            /\ \A i \in 1..Len(sq) : sq[i].at # y.row.at
        BY <1>7, <2>2, <2>4 DEF PendingRight
      <3>2. RightScore(tq, sent[s], y.row) BY <1>8, <2>2, <3>1, ScoreGrows
      <3>3. \A i \in 1..Len(tq) : tq[i].at # y.row.at BY <1>9, <2>3, <3>1
      <3>4. PendingRight(work[v])' <=>
               /\ work'[v].row.at <= now'
               /\ RightScore(scores'[work'[v].supplier], sent'[work'[v].supplier], work'[v].row)
               /\ \A i \in 1..Len(scores'[work'[v].supplier]) :
                     scores'[work'[v].supplier][i].at # work'[v].row.at
        BY DEF PendingRight
      <3>5. scores'[work'[v].supplier] = tq /\ sent'[work'[v].supplier] = sent[s]
            /\ work'[v].row = y.row /\ now' = now
        BY <1>5, <1>10, <2>1, <2>4
      <3> QED BY <3>1, <3>2, <3>3, <3>4, <3>5
    <2>5. CASE y.supplier # s BY <1>5, <1>10, <2>1, <2>2, <2>5 DEF PendingRight
    <2> QED BY <2>4, <2>5
  <1>20. WorkRight' BY <1>18, <1>19 DEF WorkRight, RightCheck, PendingRight
  <1>21. WorkApart' BY <1>17, StepsDiffer DEF ScoringInv, WorkApart
  <1> QED BY <1>11, <1>16, <1>20, <1>21 DEF ScoringInv

(* Numbers of a score. *)
LEMMA OtdRange ==
    ASSUME NEW o \in OtdRates \cup {{}}
    PROVE  OtdRate(o) \in 0..100
  <1>1. CASE o = {} \/ o = {0} BY <1>1 DEF OtdRate
  <1>2. CASE ~(o = {} \/ o = {0})
    <2>1. o \subseteq 0..100 /\ o # {} BY <1>2, ScoringNumbers
    <2>2. OtdRate(o) \in o BY <1>2, <2>1 DEF OtdRate
    <2> QED BY <2>1, <2>2
  <1> QED BY <1>1, <1>2

LEMMA FeatureTypes ==
    ASSUME NEW s \in Suppliers
    PROVE  /\ Features[s].fill \in 0..100 /\ Features[s].defect \in 0..100
           /\ Features[s].country \in 0..100 /\ Features[s].invoice \in 0..100
           /\ Features[s].kri \in 0..100 /\ Features[s].spend \in 0..100
           /\ Features[s].age \in Int /\ Features[s].red \in Nat
           /\ Features[s].expired \in Nat
  <1>1. PICK f \in SupplierFeatures : f = Features[s] BY FeaturesAssumption
  <1>2. /\ f.fill \in 0..100 /\ f.defect \in 0..100 /\ f.country \in 0..100
        /\ f.invoice \in 0..100 /\ f.kri \in 0..100 /\ f.spend \in 0..100
        /\ f.age \in Int /\ f.red \in Nat /\ f.expired \in Nat
    BY DEF SupplierFeatures
  <1> QED BY <1>1, <1>2

(* The rules add something to the part of the delivery rate, and clip the sum. *)
Adds(f, z) ==
    \A o \in OtdRates \cup {{}} : RuleBased(o, f) = Clip((100 - OtdRate(o)) * 25 + z, 0, MaxScore)

LEMMA RuleParts ==
    ASSUME NEW f, f.fill \in 0..100, f.defect \in 0..100, f.country \in 0..100,
           f.age \in Int, f.red \in Nat
    PROVE  \E z \in Int : Adds(f, z)
  <1>1. PICK a \in Int : a = AtMost(f.age, 365) BY DEF AtMost
  <1>2. PICK b \in Int : b = AtMost(f.red, 5) BY DEF AtMost
  <1>3. PICK d \in Int : d = (a * 1000) \div 365 OBVIOUS
  <1>4. PICK e \in Int : e = IF Sole(f) THEN 1000 ELSE 0 OBVIOUS
  <1>5. PICK p \in Int : p = f.fill OBVIOUS
  <1>6. PICK q \in Int : q = f.defect OBVIOUS
  <1>7. PICK c \in Int : c = f.country OBVIOUS
  <1>8. PICK z \in Int : z = (100 - p) * 20 + q * 15 + d + b * 300 + c * 10 + e OBVIOUS
  <1>9. ASSUME NEW o \in OtdRates \cup {{}}
        PROVE  RuleBased(o, f) = Clip((100 - OtdRate(o)) * 25 + z, 0, MaxScore)
    <2>1. PICK u \in Int : u = OtdRate(o) BY OtdRange
    <2>2. RuleBased(o, f)
            = Clip((100 - u) * 25 + (100 - p) * 20 + q * 15 + d + b * 300 + c * 10 + e,
                   0, MaxScore)
      BY <1>1, <1>2, <1>3, <1>4, <1>5, <1>6, <1>7, <2>1 DEF RuleBased
    <2>3. (100 - u) * 25 + (100 - p) * 20 + q * 15 + d + b * 300 + c * 10 + e
             = (100 - u) * 25 + z
      BY <1>8
    <2> QED BY <2>1, <2>2, <2>3
  <1> QED BY <1>9 DEF Adds

LEMMA RuleRange ==
    ASSUME NEW s \in Suppliers, NEW o \in OtdRates \cup {{}}
    PROVE  RuleBased(o, Features[s]) \in Points
  <1>1. PICK z \in Int : Adds(Features[s], z) BY FeatureTypes, RuleParts
  <1>2. PICK u \in Int : u = OtdRate(o) BY OtdRange
  <1>3. PICK x \in Int : x = (100 - u) * 25 + z OBVIOUS
  <1>4. RuleBased(o, Features[s]) = Clip(x, 0, MaxScore) BY <1>1, <1>2, <1>3 DEF Adds
  <1>5. Clip(x, 0, MaxScore) \in Points BY MaxScoreType DEF Clip, Points
  <1> QED BY <1>4, <1>5

LEMMA LevelRange ==
    ASSUME NEW v
    PROVE  ScoreToLevel(v) \in RiskLevels
  BY DEF ScoreToLevel, RiskLevels

LEMMA PredictedRange ==
    ASSUME NEW s \in Suppliers, NEW o \in OtdRates \cup {{}}, NEW m \in SUBSET Models
    PROVE  Predicted(m, s, o) \in Points
  <1>1. CASE m = {}
    <2>1. RuleBased(o, Features[s]) \in Points BY RuleRange
    <2> QED BY <1>1, <2>1 DEF Predicted
  <1>2. CASE m # {}
    <2>1. PICK V : V = {ModelScore[c] : c \in m} OBVIOUS
    <2>2. V # {} /\ \A x \in V : x \in Points BY <1>2, <2>1, ScoringNumbers
    <2>3. Predicted(m, s, o) = CHOOSE x \in V : TRUE BY <1>2, <2>1 DEF Predicted
    <2>4. Predicted(m, s, o) \in V BY <2>2, <2>3
    <2> QED BY <2>2, <2>4
  <1> QED BY <1>1, <1>2

(* What the registry says of the champion once its changes have settled. *)
LEMMA ChampionFound ==
    ASSUME RegistryInv
    PROVE  /\ ChampionModel \in SUBSET Models /\ settled \in BOOLEAN
           /\ settled => (ChampionModel # {} <=> \E m \in Models : model[m].promoted > 0)
  <1>1. ChampionModel \in SUBSET Models BY DEF ChampionModel, Active
  <1>2. settled \in BOOLEAN BY DEF RegistryInv, RegistryTypes
  <1>3. ASSUME settled
        PROVE  ChampionModel # {} <=> \E m \in Models : model[m].promoted > 0
    <2>1. Cardinality(ChampionModel)
            = IF \E m \in Models : model[m].promoted > 0 THEN 1 ELSE 0
      BY <1>3 DEF RegistryInv, OneChampion
    <2>2. IsFiniteSet(ChampionModel) BY <1>1, RegistryAssumption, FS_Subset
    <2>3. Cardinality(ChampionModel) = 0 <=> ChampionModel = {} BY <2>2, FS_EmptySet
    <2> QED BY <2>1, <2>3
  <1> QED BY <1>1, <1>2, <1>3

(* The row that a computation inserts. *)
LEMMA ComputedRight ==
    ASSUME RegistryInv, ScoringInv, NEW w \in Workers, NEW o \in OtdRates \cup {{}},
           Score(w, o)
    PROVE  \E x \in Checked, r \in ScoreRow :
              /\ x = work[w] /\ x.supplier \in Suppliers
              /\ work' = [work EXCEPT ![w] = [step |-> "scored", supplier |-> x.supplier,
                                              row |-> r]]
              /\ r.at = now + 1
              /\ RightScore(scores[x.supplier], sent[x.supplier] \cup {now + 1}, r)
  <1>1. ScoringTypes /\ now \in Nat BY ScoreFields DEF ScoringInv
  <1>2. PICK x \in Checked : x = work[w]
    BY <1>1, StepsDiffer DEF Score, ScoringTypes
  <1>3. /\ x.supplier \in Suppliers /\ x.force \in BOOLEAN /\ x.checked \in Nat
        /\ RightCheck(x)
    BY <1>2 DEF Checked, ScoringInv, WorkRight
  <1>4. PICK s \in Suppliers : s = x.supplier BY <1>3
  <1>5. PICK sq \in Seq(ScoreRow) : sq = scores[s] BY <1>1, ScoreFields
  <1>6. Len(sq) \in Nat /\ DOMAIN sq = 1..Len(sq) OBVIOUS
  <1>7. \A i \in 1..Len(sq) :
           /\ sq[i].at \in Nat /\ sq[i].until \in Nat /\ sq[i].at <= now
           /\ sq[i].value \in Points
    <2> SUFFICES ASSUME NEW i \in 1..Len(sq)
                 PROVE  /\ sq[i].at \in Nat /\ sq[i].until \in Nat /\ sq[i].at <= now
                        /\ sq[i].value \in Points
      OBVIOUS
    <2>1. sq[i] \in ScoreRow BY <1>1, <1>5, ScoreFields
    <2>2. sq[i].at <= now BY <1>5 DEF ScoringInv, ScoresRight
    <2> QED BY <2>1, <2>2, RowFields
  <1>8. PICK L \in SUBSET (1..Len(sq)) :
           /\ L = {k \in 1..Len(sq) : \A l \in 1..Len(sq) : sq[l].at <= sq[k].at}
           /\ L = LatestOf(s)
    BY <1>5, <1>6 DEF LatestOf
  <1>9. PICK v \in Points : v = Predicted(ChampionModel, s, o)
    BY ChampionFound, PredictedRange
  <1>10. PICK g, p \in BOOLEAN :
           /\ g = settled /\ p = \E m \in Models : model[m].promoted > 0
           /\ g => (ChampionModel # {} <=> p)
    BY ChampionFound
  <1>11. PICK f \in BOOLEAN : f = x.force BY <1>3
  <1>12. PICK prev \in SUBSET Points : prev = {sq[i].value : i \in L} BY <1>7
  <1>13. PICK lev \in RiskLevels : lev = ScoreToLevel(v) BY LevelRange
  <1>14. PICK ch \in SUBSET Models : ch = ChampionModel BY ChampionFound
  <1>15. PICK at, until \in Nat : at = now + 1 /\ until = at + Ttl
    <2>1. Ttl \in Nat BY ScoringNumbers
    <2>2. now + 1 \in Nat /\ (now + 1) + Ttl \in Nat BY <1>1, <2>1
    <2> QED BY <2>2
  <1> DEFINE r == [at |-> at, until |-> until, value |-> v, level |-> lev, previous |-> prev,
                   model |-> ch, force |-> f, checked |-> x.checked, seen |-> Len(sq),
                   settled |-> g, promoted |-> p]
  <1>16. r \in ScoreRow BY <1>3, <1>6 DEF ScoreRow
  <1>17. now' = at /\ now' + Ttl = until BY <1>15 DEF Score
  <1>18. work' = [work EXCEPT ![w] = [step |-> "scored", supplier |-> s, row |-> r]]
    <2>1. work' = [work EXCEPT ![w] =
            [step |-> "scored", supplier |-> x.supplier,
             row |-> [at |-> now', until |-> now' + Ttl,
                      value |-> Predicted(ChampionModel, x.supplier, o),
                      level |-> ScoreToLevel(Predicted(ChampionModel, x.supplier, o)),
                      previous |-> {scores[x.supplier][i].value : i \in LatestOf(x.supplier)},
                      model |-> ChampionModel, force |-> x.force, checked |-> x.checked,
                      seen |-> Len(scores[x.supplier]), settled |-> settled,
                      promoted |-> \E m \in Models : model[m].promoted > 0]]]
      BY <1>2 DEF Score
    <2>2. {scores[x.supplier][i].value : i \in LatestOf(x.supplier)} = prev
      BY <1>4, <1>5, <1>8, <1>12
    <2> QED BY <1>4, <1>5, <1>9, <1>10, <1>11, <1>13, <1>14, <1>17, <2>1, <2>2
  <1>19. RightScore(sq, sent[s] \cup {now + 1}, r)
    <2>1. \A j \in 1..Len(sq) : sq[j].at < at BY <1>1, <1>7, <1>15
    <2>2. x.checked <= Len(sq) /\ (~f => \A j \in 1..x.checked : sq[j].until <= now)
      BY <1>3, <1>4, <1>5, <1>11 DEF RightCheck
    <2>3. ~f => \A j \in 1..x.checked : sq[j].until <= at
      BY <1>1, <1>3, <1>6, <1>7, <1>15, <2>2
    <2>4. at \in sent[s] \cup {now + 1} BY <1>15
    <2>5. g => (ch # {} <=> p) BY <1>10, <1>14
    <2>6. /\ r.at = at /\ r.checked = x.checked /\ r.seen = Len(sq) /\ r.previous = prev
          /\ r.force = f /\ r.settled = g /\ r.promoted = p /\ r.model = ch
      OBVIOUS
    <2>7. prev = {sq[j].value : j \in {k \in 1..Len(sq) :
                                  \A l \in 1..Len(sq) : sq[l].at <= sq[k].at}}
      BY <1>8, <1>12
    <2> HIDE DEF r
    <2> QED BY <1>6, <2>1, <2>2, <2>3, <2>4, <2>5, <2>6, <2>7 DEF RightScore
  <1>20. r.at = now + 1 BY <1>15
  <1> HIDE DEF r
  <1> QED BY <1>2, <1>3, <1>4, <1>5, <1>16, <1>18, <1>19, <1>20

LEMMA ScoreInv ==
    ASSUME RegistryInv, ScoringInv, NEW w \in Workers, NEW o \in OtdRates \cup {{}},
           Score(w, o)
    PROVE  ScoringInv'
  <1>1. ScoringTypes /\ now \in Nat /\ MaxTime \in Nat
    BY ScoreFields, ScoringNumbers DEF ScoringInv
  <1>2. PICK x \in Checked, r \in ScoreRow :
           /\ x = work[w] /\ x.supplier \in Suppliers
           /\ work' = [work EXCEPT ![w] = [step |-> "scored", supplier |-> x.supplier,
                                           row |-> r]]
           /\ r.at = now + 1
           /\ RightScore(scores[x.supplier], sent[x.supplier] \cup {now + 1}, r)
    BY ComputedRight
  <1>3. PICK s \in Suppliers : s = x.supplier BY <1>2
  <1>4. /\ now' = now + 1 /\ now < MaxTime /\ UNCHANGED <<scores, task, lost>>
        /\ sent' = [sent EXCEPT ![s] = @ \cup {now'}]
    BY <1>2, <1>3 DEF Score
  <1>5. PICK y \in Scored : y = [step |-> "scored", supplier |-> s, row |-> r]
    BY DEF Scored
  <1>6. y.supplier = s /\ y.row = r BY <1>5
  <1>7. /\ work'[w] = y /\ \A v \in Workers \ {w} : work'[v] = work[v]
        /\ work' \in [Workers -> {NoWork} \cup Checked \cup Scored]
    BY <1>1, <1>2, <1>3, <1>5 DEF ScoringTypes
  <1>8. /\ sent'[s] = sent[s] \cup {now + 1}
        /\ \A q \in Suppliers \ {s} : sent'[q] = sent[q]
        /\ sent' = [q \in Suppliers |-> sent'[q]]
    BY <1>1, <1>4 DEF ScoringTypes
  <1>9. \A q \in Suppliers : sent[q] \subseteq sent'[q] BY <1>8
  <1>10. ScoringTypes'
    <2>1. now + 1 \in 1..MaxTime /\ now' \in 0..MaxTime BY <1>1, <1>4
    <2>2. \A q \in Suppliers : sent'[q] \in SUBSET (1..MaxTime)
      BY <1>1, <1>8, <2>1 DEF ScoringTypes
    <2>3. sent' \in [Suppliers -> SUBSET (1..MaxTime)] BY <1>8, <2>2
    <2>4. \A t \in Tasks : work'[t] # NoWork => task'[t] # NoTask
      BY <1>1, <1>2, <1>4, <1>7, StepsDiffer DEF ScoringTypes, Workers
    <2> QED BY <1>1, <1>4, <1>7, <2>1, <2>3, <2>4 DEF ScoringTypes
  <1>11. \A q \in Suppliers : \A i \in 1..Len(scores[q]) :
            scores[q][i].at \in Nat /\ scores[q][i].at <= now
    BY <1>1, ScoreFields DEF ScoringInv, ScoresRight
  <1>12. ScoresRight'
    <2> SUFFICES ASSUME NEW q \in Suppliers, NEW i \in 1..Len(scores[q])
                 PROVE  scores[q][i].at <= now' /\ RightScore(scores[q], sent'[q], scores[q][i])
      BY <1>4 DEF ScoringInv, ScoresRight
    <2>1. RightScore(scores[q], sent[q], scores[q][i]) BY DEF ScoringInv, ScoresRight
    <2>2. RightScore(scores[q], sent'[q], scores[q][i]) BY <1>9, <2>1, ScoreAnnounced
    <2> QED BY <1>1, <1>4, <1>11, <2>2
  <1>13. ASSUME NEW v \in Workers, work'[v] \in Checked PROVE RightCheck(work[v])'
    <2>1. v # w BY <1>7, <1>13, StepsDiffer
    <2>2. PICK z \in Checked : z = work[v] /\ z = work'[v] BY <1>7, <1>13, <2>1
    <2>3. RightCheck(z) /\ z.supplier \in Suppliers /\ z.checked \in Nat
      BY <1>1, <2>2, ScoreFields DEF ScoringInv, WorkRight
    <2>4. Len(scores[z.supplier]) \in Nat /\ z.checked <= Len(scores[z.supplier])
      BY <1>1, <2>3, ScoreFields DEF RightCheck
    <2>5. ASSUME NEW j \in 1..z.checked, ~z.force PROVE scores[z.supplier][j].until <= now'
      <3>1. j \in 1..Len(scores[z.supplier]) BY <2>3, <2>4
      <3>2. scores[z.supplier][j].until \in Nat BY <1>1, <2>3, <3>1, ScoreFields
      <3>3. scores[z.supplier][j].until <= now BY <2>3, <2>5 DEF RightCheck
      <3> QED BY <1>1, <1>4, <3>2, <3>3
    <2> QED BY <1>4, <2>2, <2>4, <2>5 DEF RightCheck
  <1>14. ASSUME NEW v \in Workers \ {w}, work'[v] \in Scored
         PROVE  PendingRight(work[v])' /\ work[v] \in Scored /\ work'[v].row.at # r.at
    <2>1. PICK z \in Scored : z = work[v] /\ z = work'[v] BY <1>7, <1>14
    <2>2. z.supplier \in Suppliers /\ z.row.at \in Nat /\ PendingRight(z)
      BY <1>1, <2>1, ScoreFields DEF ScoringInv, WorkRight
    <2>3. z.row.at <= now BY <2>2 DEF PendingRight
    <2>4. z.row.at <= now' /\ z.row.at # r.at BY <1>1, <1>2, <1>4, <2>2, <2>3
    <2>5. RightScore(scores[z.supplier], sent'[z.supplier], z.row)
      BY <1>9, <2>2, ScoreAnnounced DEF PendingRight
    <2>6. \A i \in 1..Len(scores[z.supplier]) : scores[z.supplier][i].at # z.row.at
      BY <2>2 DEF PendingRight
    <2> QED BY <1>4, <2>1, <2>4, <2>5, <2>6 DEF PendingRight
  <1>15. PendingRight(work[w])'
    <2>1. r.at <= now' BY <1>1, <1>2, <1>4
    <2>2. RightScore(scores[s], sent'[s], r) BY <1>2, <1>3, <1>8
    <2>3. \A i \in 1..Len(scores[s]) : scores[s][i].at # r.at
      <3> SUFFICES ASSUME NEW i \in 1..Len(scores[s]) PROVE scores[s][i].at # r.at
        OBVIOUS
      <3>1. scores[s][i].at \in Nat /\ scores[s][i].at <= now BY <1>11
      <3> QED BY <1>1, <1>2, <3>1
    <2> QED BY <1>4, <1>6, <1>7, <2>1, <2>2, <2>3 DEF PendingRight
  <1>16. WorkRight' BY <1>13, <1>14, <1>15 DEF WorkRight, RightCheck, PendingRight
  <1>17. WorkApart'
    <2> SUFFICES ASSUME NEW v \in Workers, NEW u \in Workers,
                        work'[v] \in Scored, work'[u] \in Scored,
                        work'[v].row.at = work'[u].row.at
                 PROVE  v = u
      BY DEF WorkApart
    <2>1. CASE v # w /\ u # w BY <1>7, <2>1 DEF ScoringInv, WorkApart
    <2>2. CASE v = w /\ u # w BY <1>6, <1>7, <1>14, <2>2
    <2>3. CASE v # w /\ u = w BY <1>6, <1>7, <1>14, <2>3
    <2> QED BY <2>1, <2>2, <2>3
  <1> QED BY <1>10, <1>12, <1>16, <1>17 DEF ScoringInv

LEMMA ScoringStep ==
    ASSUME RegistryInv, ScoringInv, ScoringNext \/ UNCHANGED scoringVars
    PROVE  ScoringInv'
  <1>1. CASE UNCHANGED scoringVars
    <2>1. UNCHANGED <<scores, work, task, sent, now, lost>> BY <1>1 DEF scoringVars
    <2>2. ScoringTypes' BY <2>1 DEF ScoringInv, ScoringTypes
    <2>3. ScoresRight' BY <2>1 DEF ScoringInv, ScoresRight
    <2>4. WorkRight' BY <2>1 DEF ScoringInv, WorkRight, RightCheck, PendingRight
    <2>5. WorkApart' BY <2>1 DEF ScoringInv, WorkApart
    <2> QED BY <2>2, <2>3, <2>4, <2>5 DEF ScoringInv
  <1>2. CASE ScoringNext
    BY <1>2, TickInv, EnqueueInv, StartTaskInv, StartCallInv, ScoreInv, CommitScoreInv,
       FailScoreInv
       DEF ScoringNext
  <1> QED BY <1>1, <1>2

-----------------------------------------------------------------------------
(* What the invariants say of the scores. *)

LEMMA ChainedRight == ScoringInv => ScoresChained
  <1> SUFFICES ASSUME ScoringInv, NEW s \in Suppliers, NEW i \in DOMAIN scores[s],
                      \A j \in Before(s, i) : j <= scores[s][i].seen
               PROVE  scores[s][i].previous =
                        {scores[s][j].value : j \in {j \in Before(s, i) :
                           \A l \in Before(s, i) : scores[s][l].at <= scores[s][j].at}}
    BY DEF ScoresChained
  <1>1. PICK sq \in Seq(ScoreRow) : sq = scores[s] BY ScoreFields DEF ScoringInv
  <1>2. DOMAIN sq = 1..Len(sq) /\ Len(sq) \in Nat OBVIOUS
  <1>3. PICK r \in ScoreRow : r = sq[i] BY <1>1, <1>2
  <1>4. RightScore(sq, sent[s], r) BY <1>1, <1>2, <1>3 DEF ScoringInv, ScoresRight
  <1>5. r.seen \in Nat /\ r.seen <= Len(sq) BY <1>4, RowFields DEF RightScore
  <1>6. \A j \in 1..r.seen : sq[j].at < r.at BY <1>4 DEF RightScore
  <1>7. Before(s, i) = 1..r.seen
    <2>1. ASSUME NEW j \in Before(s, i) PROVE j \in 1..r.seen
      <3>1. j \in 1..Len(sq) /\ j <= r.seen BY <1>1, <1>2, <1>3 DEF Before
      <3> QED BY <1>5, <3>1
    <2>2. ASSUME NEW j \in 1..r.seen PROVE j \in Before(s, i)
      <3>1. j \in 1..Len(sq) BY <1>2, <1>5
      <3> QED BY <1>1, <1>2, <1>3, <1>6, <3>1 DEF Before
    <2> QED BY <2>1, <2>2
  <1>8. r.previous = {sq[j].value : j \in {k \in 1..r.seen :
                                     \A l \in 1..r.seen : sq[l].at <= sq[k].at}}
    BY <1>4 DEF RightScore
  <1> QED BY <1>1, <1>3, <1>7, <1>8

LEMMA OncePerTtlRight == ScoringInv => ScoredOncePerTtl
  <1> SUFFICES ASSUME ScoringInv, NEW s \in Suppliers,
                      NEW i \in DOMAIN scores[s], NEW j \in DOMAIN scores[s],
                      ~scores[s][i].force, scores[s][i].at < scores[s][j].until
               PROVE  j > scores[s][i].checked
    BY DEF ScoredOncePerTtl
  <1>1. PICK sq \in Seq(ScoreRow) : sq = scores[s] BY ScoreFields DEF ScoringInv
  <1>2. DOMAIN sq = 1..Len(sq) /\ Len(sq) \in Nat OBVIOUS
  <1>3. i \in 1..Len(sq) /\ j \in 1..Len(sq) BY <1>1, <1>2
  <1>4. PICK r \in ScoreRow : r = sq[i] BY <1>3
  <1>5. r.checked \in Nat /\ r.at \in Nat BY RowFields
  <1>6. sq[j].until \in Nat BY <1>1, <1>3, ScoreFields DEF ScoringInv
  <1>7. RightScore(sq, sent[s], r) BY <1>1, <1>3, <1>4 DEF ScoringInv, ScoresRight
  <1>8. \A k \in 1..r.checked : sq[k].until <= r.at BY <1>1, <1>4, <1>7 DEF RightScore
  <1>9. SUFFICES ASSUME j <= r.checked PROVE FALSE BY <1>1, <1>3, <1>4, <1>5
  <1>10. sq[j].until <= r.at BY <1>3, <1>5, <1>8, <1>9
  <1> QED BY <1>1, <1>4, <1>5, <1>6, <1>10

LEMMA AnnouncedRight == ScoringInv => ScoresAnnounced /\ ChampionScores
  <1> SUFFICES ASSUME ScoringInv, NEW s \in Suppliers, NEW i \in DOMAIN scores[s]
               PROVE  /\ scores[s][i].at \in sent[s]
                      /\ scores[s][i].settled =>
                            (scores[s][i].model # {} <=> scores[s][i].promoted)
    BY DEF ScoresAnnounced, ChampionScores
  <1>1. scores[s] \in Seq(ScoreRow) BY ScoreFields DEF ScoringInv
  <1>2. i \in 1..Len(scores[s]) BY <1>1
  <1>3. RightScore(scores[s], sent[s], scores[s][i]) BY <1>2 DEF ScoringInv, ScoresRight
  <1> QED BY <1>3 DEF RightScore

(* A better delivery rate is scored no higher, and the parts keep their range. *)
LEMMA RulesRight == RulesSound
  <1>1. ASSUME NEW s \in Suppliers, NEW o \in OtdRates, NEW p \in OtdRates,
               OtdRate(o) <= OtdRate(p)
        PROVE  RuleBased(o, Features[s]) >= RuleBased(p, Features[s])
    <2>1. PICK z \in Int : Adds(Features[s], z) BY FeatureTypes, RuleParts
    <2>2. PICK u \in Int : u = OtdRate(o) BY OtdRange
    <2>3. PICK v \in Int : v = OtdRate(p) BY OtdRange
    <2>4. PICK x \in Int : x = (100 - u) * 25 + z OBVIOUS
    <2>5. PICK y \in Int : y = (100 - v) * 25 + z OBVIOUS
    <2>6. y <= x BY <1>1, <2>2, <2>3, <2>4, <2>5
    <2>7. Clip(y, 0, MaxScore) <= Clip(x, 0, MaxScore) BY <2>6, MaxScoreType DEF Clip
    <2>8. RuleBased(o, Features[s]) = Clip(x, 0, MaxScore)
      BY <2>1, <2>2, <2>4 DEF Adds
    <2>9. RuleBased(p, Features[s]) = Clip(y, 0, MaxScore)
      BY <2>1, <2>3, <2>5 DEF Adds
    <2>10. Clip(y, 0, MaxScore) \in Int /\ Clip(x, 0, MaxScore) \in Int
      BY MaxScoreType DEF Clip
    <2> QED BY <2>7, <2>8, <2>9, <2>10
  <1>2. ASSUME NEW s \in Suppliers, NEW o \in OtdRates
        PROVE  LET c == Components(o, Features[s]) IN \A part \in DOMAIN c : c[part] \in 0..100
    <2>1. PICK f : f = Features[s] OBVIOUS
    <2>2. PICK u \in 0..100 : u = OtdRate(o) BY OtdRange
    <2>3. PICK fill \in 0..100 : fill = f.fill BY <2>1, FeatureTypes
    <2>4. PICK defect \in 0..100 : defect = f.defect BY <2>1, FeatureTypes
    <2>5. PICK invoice \in 0..100 : invoice = f.invoice BY <2>1, FeatureTypes
    <2>6. PICK spend \in 0..100 : spend = f.spend BY <2>1, FeatureTypes
    <2>7. PICK expired \in Nat : expired = f.expired BY <2>1, FeatureTypes
    <2>8. PICK kri1 \in 0..100 : kri1 = f.kri BY <2>1, FeatureTypes
    <2>9. PICK country \in 0..100 : country = f.country BY <2>1, FeatureTypes
    <2>10. PICK a \in 0..100 : a = ((100 - u) * 35 + (100 - fill) * 25
                                    + defect * 25 + (100 - invoice) * 15) \div 100
      <3>1. PICK b \in Int : b = (100 - u) * 35 + (100 - fill) * 25
                                  + defect * 25 + (100 - invoice) * 15
        OBVIOUS
      <3>2. 0 <= b /\ b <= 10000 BY <3>1
      <3>3. b \div 100 \in 0..100 BY <3>2
      <3> QED BY <3>1, <3>3
    <2>11. PICK g \in 0..60 : g = Clip(expired * 15, 0, 60) BY DEF Clip
    <2>12. PICK h \in 0..20 : h = IF f.activeCerts = 0 THEN 20 ELSE 0 OBVIOUS
    <2>13. PICK k \in 0..100 : k = Clip(g + h, 0, 100) BY DEF Clip
    <2>14. PICK l \in 0..40 : l = IF Sole(f) THEN 40 ELSE 0 OBVIOUS
    <2>15. PICK e \in Int : e = ((spend - 30) * 3) \div 2 OBVIOUS
    <2>16. PICK m \in 0..50 : m = Clip(e, 0, 50) BY DEF Clip
    <2>17. PICK n \in 0..100 : n = l + m OBVIOUS
    <2>18. PICK c : c = Components(o, f) OBVIOUS
    <2>19. DOMAIN c = {"operational", "kri", "geopolitical", "compliance", "concentration"}
      BY <2>18 DEF Components
    <2>20. c.operational = a
      BY <2>2, <2>3, <2>4, <2>5, <2>10, <2>18 DEF Components
    <2>21. c.kri = kri1 /\ c.geopolitical = country BY <2>8, <2>9, <2>18 DEF Components
    <2>22. c.compliance = k BY <2>7, <2>11, <2>12, <2>13, <2>18 DEF Components
    <2>23. c.concentration = n
      BY <2>6, <2>14, <2>15, <2>16, <2>17, <2>18 DEF Components
    <2>24. \A part \in DOMAIN c : c[part] \in 0..100
      BY <2>19, <2>20, <2>21, <2>22, <2>23
    <2> QED BY <2>1, <2>18, <2>24
  <1> QED BY <1>1, <1>2 DEF RulesSound

-----------------------------------------------------------------------------
(* The summary. *)

LEMMA DisjointCount ==
    ASSUME NEW A, NEW B, IsFiniteSet(A), IsFiniteSet(B), A \cap B = {}
    PROVE  /\ IsFiniteSet(A \cup B) /\ Cardinality(A) \in Nat /\ Cardinality(B) \in Nat
           /\ Cardinality(A \cup B) = Cardinality(A) + Cardinality(B)
  <1>1. PICK a, b \in Nat : a = Cardinality(A) /\ b = Cardinality(B)
    BY FS_CardinalityType
  <1>2. PICK C : C = A \cap B OBVIOUS
  <1>3. Cardinality(A \cup B) = Cardinality(A) + Cardinality(B) - Cardinality(C)
    BY <1>2, FS_Union
  <1>4. Cardinality(C) = 0 BY <1>2, FS_EmptySet
  <1>5. Cardinality(A \cup B) = a + b BY <1>1, <1>3, <1>4
  <1> QED BY <1>1, <1>5, FS_Union

(* The suppliers that the summary counts under a level. *)
At(level) == {s \in Suppliers : \E i \in LatestOf(s) : scores[s][i].level = level}

(* A supplier with a score has one latest score. *)
LEMMA LatestOne ==
    ASSUME ScoringInv, NEW s \in Suppliers
    PROVE  /\ scores[s] = <<>> => LatestOf(s) = {}
           /\ scores[s] # <<>> => \E i \in DOMAIN scores[s] : LatestOf(s) = {i}
  <1>1. PICK sq \in Seq(ScoreRow) : sq = scores[s] BY ScoreFields DEF ScoringInv
  <1>2. DOMAIN sq = 1..Len(sq) /\ Len(sq) \in Nat OBVIOUS
  <1>3. sq = <<>> => LatestOf(s) = {} BY <1>1 DEF LatestOf
  <1>4. ASSUME sq # <<>> PROVE \E i \in DOMAIN sq : LatestOf(s) = {i}
    <2>1. now \in Nat BY ScoreFields DEF ScoringInv
    <2>2. \A i \in DOMAIN sq : sq[i].at \in Nat /\ sq[i].at <= now
      BY <1>1, <1>2, ScoreFields DEF ScoringInv, ScoresRight
    <2> DEFINE T == {n \in Nat : \E i \in DOMAIN sq : sq[i].at = n}
    <2>3. T # {}
      <3>1. 1 \in DOMAIN sq BY <1>2, <1>4, EmptySeq
      <3> QED BY <2>2, <3>1
    <2>4. T \in SUBSET Nat /\ \A n \in T : n <= now BY <2>2
    <2>5. PICK n \in T : \A m \in T : m <= n
      <3> HIDE DEF T
      <3> QED BY <2>1, <2>3, <2>4, GreatestNumber
    <2>6. PICK i \in DOMAIN sq : sq[i].at = n BY <2>5
    <2>7. \A j \in DOMAIN sq : sq[j].at <= sq[i].at BY <2>2, <2>5, <2>6
    <2>8. i \in LatestOf(s) BY <1>1, <2>7 DEF LatestOf
    <2>9. ASSUME NEW j \in LatestOf(s) PROVE j = i
      <3>1. j \in DOMAIN sq /\ sq[i].at <= sq[j].at BY <1>1, <2>6 DEF LatestOf
      <3>2. sq[i].at = sq[j].at BY <2>2, <2>7, <3>1
      <3>3. Apart(sq) BY <1>1 DEF ScoringInv, ScoresRight
      <3> QED BY <1>2, <3>1, <3>2, <3>3 DEF Apart
    <2> QED BY <2>8, <2>9
  <1> QED BY <1>1, <1>3, <1>4

LEMMA LevelsApart ==
    ASSUME ScoringInv, NEW l \in RiskLevels, NEW m \in RiskLevels, l # m
    PROVE  At(l) \cap At(m) = {}
  <1> SUFFICES ASSUME NEW s \in Suppliers, s \in At(l), s \in At(m) PROVE FALSE
    BY DEF At
  <1>1. PICK i \in LatestOf(s) : scores[s][i].level = l BY DEF At
  <1>2. PICK j \in LatestOf(s) : scores[s][j].level = m BY DEF At
  <1>3. i = j BY LatestOne
  <1> QED BY <1>1, <1>2, <1>3

(* Every supplier with a score is counted under one level. *)
LEMMA LevelsCount ==
    ASSUME ScoringInv
    PROVE  Summary.scored = Cardinality({s \in Suppliers : scores[s] # <<>>})
  <1> DEFINE C == At("critical")
             H == At("high")
             M == At("medium")
             L == At("low")
             N == At("minimal")
             U == {s \in Suppliers : scores[s] # <<>>}
  <1>1. Summary.scored = Cardinality(C) + Cardinality(H) + Cardinality(M) + Cardinality(L)
                         + Cardinality(N)
    BY DEF Summary, At
  <1>2. U = (((C \cup H) \cup M) \cup L) \cup N
    <2>1. ASSUME NEW s \in U PROVE s \in (((C \cup H) \cup M) \cup L) \cup N
      <3>1. PICK i \in DOMAIN scores[s] : i \in LatestOf(s) BY LatestOne
      <3>2. scores[s] \in Seq(ScoreRow) BY ScoreFields DEF ScoringInv
      <3>3. scores[s][i] \in ScoreRow BY <3>2
      <3>4. scores[s][i].level \in RiskLevels BY <3>3, RowFields
      <3> QED BY <3>1, <3>4 DEF At, RiskLevels
    <2>2. ASSUME NEW level, NEW s \in At(level) PROVE s \in U
      BY LatestOne DEF At
    <2> QED BY <2>1, <2>2
  <1>3. /\ C \cap H = {} /\ (C \cup H) \cap M = {} /\ ((C \cup H) \cup M) \cap L = {}
        /\ (((C \cup H) \cup M) \cup L) \cap N = {}
    <2>1. {"critical", "high", "medium", "low", "minimal"} = RiskLevels BY DEF RiskLevels
    <2>2. C \cap H = {} BY <2>1, LevelsApart
    <2>3. C \cap M = {} /\ H \cap M = {} BY <2>1, LevelsApart
    <2>4. C \cap L = {} /\ H \cap L = {} /\ M \cap L = {} BY <2>1, LevelsApart
    <2>5. C \cap N = {} /\ H \cap N = {} /\ M \cap N = {} /\ L \cap N = {}
      BY <2>1, LevelsApart
    <2> HIDE DEF C, H, M, L, N
    <2> QED BY <2>2, <2>3, <2>4, <2>5
  <1>4. \A level : IsFiniteSet(At(level))
    <2>1. \A level : At(level) \in SUBSET Suppliers BY DEF At
    <2> QED BY <2>1, ScoringNumbers, FS_Subset
  <1>5. /\ IsFiniteSet(C) /\ IsFiniteSet(H) /\ IsFiniteSet(M) /\ IsFiniteSet(L)
        /\ IsFiniteSet(N)
    BY <1>4
  <1> HIDE DEF C, H, M, L, N
  <1>6. PICK A : A = C \cup H OBVIOUS
  <1>7. IsFiniteSet(A) /\ Cardinality(A) = Cardinality(C) + Cardinality(H)
    BY <1>3, <1>5, <1>6, DisjointCount
  <1>8. PICK B : B = A \cup M OBVIOUS
  <1>9. IsFiniteSet(B) /\ Cardinality(B) = Cardinality(A) + Cardinality(M)
    BY <1>3, <1>5, <1>6, <1>7, <1>8, DisjointCount
  <1>10. PICK D : D = B \cup L OBVIOUS
  <1>11. IsFiniteSet(D) /\ Cardinality(D) = Cardinality(B) + Cardinality(L)
    BY <1>3, <1>5, <1>6, <1>8, <1>9, <1>10, DisjointCount
  <1>12. U = D \cup N /\ D \cap N = {} BY <1>2, <1>3, <1>6, <1>8, <1>10
  <1> HIDE DEF U
  <1>13. Cardinality(U) = Cardinality(D) + Cardinality(N)
    BY <1>5, <1>11, <1>12, DisjointCount
  <1> QED BY <1>1, <1>7, <1>9, <1>11, <1>13 DEF U

LEMMA SummaryRight == ScoringInv => SummaryAccounted
  <1> SUFFICES ASSUME ScoringInv PROVE SummaryAccounted OBVIOUS
  <1> DEFINE U == {s \in Suppliers : scores[s] # <<>>}
             short == Cardinality(Counted) - Cardinality(U)
  <1>1. Summary.scored = Cardinality(U) BY LevelsCount
  <1>2. Summary.unscored = IF short < 0 THEN 0 ELSE short BY <1>1 DEF Summary
  <1>3. IsFiniteSet(U) /\ IsFiniteSet(Counted)
    <2>1. U \in SUBSET Suppliers /\ Counted \in SUBSET Suppliers BY ScoringNumbers
    <2> HIDE DEF U
    <2> QED BY <2>1, ScoringNumbers, FS_Subset
  <1> HIDE DEF U
  <1>4. PICK V : V = Counted \cap U OBVIOUS
  <1>5. V = U \cap Counted BY <1>4
  <1>6. IsFiniteSet(V)
    <2>1. V \in SUBSET U BY <1>4
    <2> QED BY <1>3, <2>1, FS_Subset
  <1>7. PICK v \in Nat : v = Cardinality(V) BY <1>6, FS_CardinalityType
  <1>8. PICK u \in Nat : u = Cardinality(U) BY <1>3, FS_CardinalityType
  <1>9. PICK c \in Nat : c = Cardinality(Counted) BY <1>3, FS_CardinalityType
  <1>10. PICK x \in Nat : x = Cardinality(Counted \ U)
    BY <1>3, FS_Difference, FS_CardinalityType
  <1>11. PICK y \in Nat : y = Cardinality(U \ Counted)
    BY <1>3, FS_Difference, FS_CardinalityType
  <1>12. x = c - v BY <1>3, <1>4, <1>7, <1>9, <1>10, FS_Difference
  <1>13. y = u - v BY <1>3, <1>5, <1>7, <1>8, <1>11, FS_Difference
  <1>14. short = c - u BY <1>8, <1>9
  <1> HIDE DEF short
  <1>15. PICK n : n = Summary.unscored OBVIOUS
  <1>16. n = IF short < 0 THEN 0 ELSE short BY <1>2, <1>15
  <1>17. n <= x /\ n + y >= x BY <1>12, <1>13, <1>14, <1>16
  <1> QED BY <1>1, <1>10, <1>11, <1>15, <1>17 DEF SummaryAccounted, U

LEMMA AccountedRight == RegistryInv /\ ScoringInv => ScoresAccounted
  BY ChainedRight, OncePerTtlRight, AnnouncedRight, RulesRight, SummaryRight
     DEF ScoresAccounted, RegistryInv

-----------------------------------------------------------------------------
(* The service. *)

RiskInv == RegistryInv /\ ScoringInv /\ KrisInv /\ focus \in Foci

LEMMA RiskInitInv == Init => RiskInv
  BY RegistryInitInv, ScoringInitInv, KrisInitInv DEF Init, RiskInv

LEMMA RiskStep ==
    ASSUME RiskInv, [Next]_vars
    PROVE  RiskInv'
  <1>1. RegistryInv /\ ScoringInv /\ KrisInv /\ focus \in Foci BY DEF RiskInv
  <1>2. CASE UNCHANGED vars
    <2>1. UNCHANGED registryVars /\ UNCHANGED scoringVars /\ UNCHANGED kriVars
          /\ UNCHANGED focus
      BY <1>2 DEF vars
    <2> QED BY <1>1, <2>1, RegistryStep, ScoringStep, KrisStep DEF RiskInv
  <1>3. CASE Next
    <2>1. UNCHANGED focus BY <1>3 DEF Next
    <2>2. CASE Registering
      <3>1. RegistryNext /\ UNCHANGED scoringVars /\ UNCHANGED kriVars
        BY <2>2 DEF Registering
      <3> QED BY <1>1, <2>1, <3>1, RegistryStep, ScoringStep, KrisStep DEF RiskInv
    <2>3. CASE Scoring
      <3>1. UNCHANGED registryVars /\ UNCHANGED kriVars BY <2>3 DEF Scoring
      <3>2. ScoringInv'
        <4>1. CASE ScoringNext BY <1>1, <4>1, ScoringStep
        <4>2. ASSUME NEW q \in Calls, NEW s \in Counted, StartCall(q, s, TRUE)
              PROVE  ScoringInv'
          <5>1. s \in Suppliers BY ScoringNumbers
          <5> QED BY <1>1, <4>2, <5>1, StartCallInv
        <4>3. ASSUME NEW q \in Calls, Score(q, {}) PROVE ScoringInv'
          <5>1. q \in Workers /\ {} \in OtdRates \cup {{}} BY DEF Workers
          <5> QED BY <1>1, <4>3, <5>1, ScoreInv
        <4>4. ASSUME NEW q \in Calls, CommitScore(q) PROVE ScoringInv'
          <5>1. q \in Workers BY DEF Workers
          <5> QED BY <1>1, <4>4, <5>1, CommitScoreInv
        <4> QED BY <2>3, <4>1, <4>2, <4>3, <4>4 DEF Scoring
      <3> QED BY <1>1, <2>1, <3>1, <3>2, RegistryStep, KrisStep DEF RiskInv
    <2>4. CASE Indicating
      <3>1. KrisNext /\ UNCHANGED registryVars /\ UNCHANGED scoringVars
        BY <2>4 DEF Indicating
      <3> QED BY <1>1, <2>1, <3>1, RegistryStep, ScoringStep, KrisStep DEF RiskInv
    <2> QED BY <1>3, <2>2, <2>3, <2>4 DEF Next
  <1> QED BY <1>2, <1>3

LEMMA RiskAlways == Spec => []RiskInv
  BY RiskInitInv, RiskStep, PTL DEF Spec

LEMMA TypesRight == RiskInv => TypeOK
  <1> SUFFICES ASSUME RiskInv PROVE TypeOK OBVIOUS
  <1>1. RegistryTypes /\ ScoringTypes /\ KriTypes /\ focus \in Foci
    BY DEF RiskInv, RegistryInv, ScoringInv, KrisInv
  <1>2. RegistryTypeOK
    <2>1. \A q \in Admins : change[q] # NoChange => change[q].model \in Models
      BY <1>1 DEF RegistryTypes, Change
    <2> QED BY <1>1, <2>1 DEF RegistryTypes, RegistryTypeOK
  <1>3. ScoringTypeOK
    <2>1. ASSUME NEW s \in Suppliers, NEW i \in DOMAIN scores[s]
          PROVE  /\ scores[s][i].value \in Points /\ scores[s][i].level \in RiskLevels
                 /\ scores[s][i].model \subseteq Models
      <3>1. scores[s] \in Seq(ScoreRow) BY <1>1, ScoreFields
      <3>2. scores[s][i] \in ScoreRow BY <3>1
      <3> QED BY <3>2, RowFields
    <2>2. ASSUME NEW t \in Tasks, task[t] # NoTask
          PROVE  /\ task[t].state \in {"queued", "running", "ok", "failed"}
                 /\ task[t].tries \in 0..MaxRetries
      BY <1>1, <2>2, TaskFields DEF TaskRow
    <2>3. \A s \in Suppliers : sent[s] \subseteq 1..MaxTime BY <1>1 DEF ScoringTypes
    <2>4. now \in 0..MaxTime /\ lost \in 0..MaxLost BY <1>1 DEF ScoringTypes
    <2>5. ScoringTypeOK <=>
             /\ \A s \in Suppliers :
                   /\ sent[s] \subseteq 1..MaxTime
                   /\ \A i \in DOMAIN scores[s] :
                         /\ scores[s][i].value \in Points /\ scores[s][i].level \in RiskLevels
                         /\ scores[s][i].model \subseteq Models
             /\ \A t \in Tasks : task[t] # NoTask =>
                   /\ task[t].state \in {"queued", "running", "ok", "failed"}
                   /\ task[t].tries \in 0..MaxRetries
             /\ now \in 0..MaxTime /\ lost \in 0..MaxLost
      BY DEF ScoringTypeOK, Points
    <2> QED BY <2>1, <2>2, <2>3, <2>4, <2>5
  <1>4. KrisTypeOK
    <2>1. ASSUME NEW p \in Pairs, NEW i \in DOMAIN snapshots[p]
          PROVE  snapshots[p][i].status \in KRIStatus
      <3>1. snapshots[p] \in Seq(Row) BY <1>1 DEF KriTypes
      <3>2. snapshots[p][i] \in Row BY <3>1
      <3> QED BY <3>2 DEF Row
    <2>2. \A w \in Sweeps : sweep[w].todo \subseteq Pairs BY <1>1 DEF KriTypes
    <2> QED BY <1>1, <2>1, <2>2 DEF KriTypes, KrisTypeOK
  <1> QED BY <1>1, <1>2, <1>3, <1>4 DEF TypeOK

-----------------------------------------------------------------------------
(* The three parts of the service keep their types: the row of a score has a value
   between 0 and 100 points and a level, and no task is retried more often than
   risk_score_worker allows, however often the queue delivers it. *)
THEOREM RiskTypes == Spec => []TypeOK
  BY RiskAlways, TypesRight, PTL

(* After a promotion that nothing overlapped, and archivals that overlap nothing,
   ml_registry has one champion, and scoring finds it. *)
THEOREM ChampionKept == Spec => []OneChampion
  <1>1. RiskInv => OneChampion BY DEF RiskInv, RegistryInv
  <1> QED BY <1>1, RiskAlways, PTL

(* compute_risk_score: each row names the score before it, is computed without force
   only once what was committed at the check has expired, is announced before it is
   committed, and comes from the champion if there is one; the rules score a better
   delivery rate no higher; the summary counts each supplier with a score once. *)
THEOREM ScoresKept == Spec => []ScoresAccounted
  <1>1. RiskInv => ScoresAccounted BY AccountedRight DEF RiskInv
  <1> QED BY <1>1, RiskAlways, PTL

(* record_kri_snapshot and the daily sweep: a row is a breach exactly if it is worse
   than the one before it, whatever overlaps, and a breach, or a first or concurrent
   measurement, is behind every indicator that the dashboard shows amber or red. *)
THEOREM IndicatorsReported == Spec => []BreachesReported
  <1>1. RiskInv => BreachesReported
    BY BreachesRight, DashboardRight DEF RiskInv, BreachesReported
  <1> QED BY <1>1, RiskAlways, PTL

=============================================================================
