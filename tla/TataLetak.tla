------------------------------ MODULE TataLetak ------------------------------
(***************************************************************************)
(* How the web client lays a procedure out as a BPMN diagram: from the     *)
(* rows of the procedure to the swimlane and the column of every shape.    *)
(*                                                                         *)
(* The computation is a pipeline of passes, and every pass is an action:   *)
(* rank the shapes along the forward edges, push the branches of decisions *)
(* to the right, propagate until nothing moves, make the columns of a lane *)
(* distinct, and straighten the simple handoffs between lanes.             *)
(*                                                                         *)
(* The shapes are numbered 0 .. n+1: 0 is the synthetic start, 1 .. n the  *)
(* rows, n+1 the synthetic end.  What is measured in pixels is left out;   *)
(* resolveColumnCollisions and spreadOverlappingLaneSteps move nothing     *)
(* once a lane has one shape per column, because a column is wider than    *)
(* its widest shape by more than the padding they look for.                *)
(***************************************************************************)
EXTENDS Integers, FiniteSets, Sequences, SequencesExt

CONSTANTS
    MaxBaris,   \* the longest procedure
    MaxBobot,   \* rows plus rows with branches of their own
    MaxSeed,    \* the layout seeds are 0 .. MaxSeed
    Sidik(_, _) \* hashId: by a seed and an edge, whose identifier it hashes

ASSUME BatasAssumption == MaxBaris \in Nat \ {0} /\ MaxBobot \in Nat /\ MaxSeed \in Nat

SisiMungkin == [dari : 0 .. MaxBaris + 1, ke : 0 .. MaxBaris + 1, label : 0 .. 2]

ASSUME SidikAssumption == \A s \in 0 .. MaxSeed, e \in SisiMungkin : Sidik(s, e) \in Nat

VARIABLES
    baris,      \* the rows, records with row numbers in ya and tidak; 0 is none
    seed,       \* pathLayoutSeed: every reset of the diagram increments it
    tahap,      \* the pass that comes next
    sapuan,     \* how often that pass has run
    koneksi,    \* the edges, in the order the passes visit them
    lompat,     \* laneRunAdvances: the columns each forward edge advances
    kolom       \* columnIndex, by shape

vars == <<baris, seed, tahap, sapuan, koneksi, lompat, kolom>>

n == Len(baris)
Simpul == 0 .. n + 1
Akhir == n + 1

-----------------------------------------------------------------------------
(* The shapes and the edges between them.                                   *)

Jenis(x) == IF x \in 1 .. n THEN baris[x].jenis ELSE "terminator"

\* The start stands in the lane of the first row, the end in that of the last.
Lajur(x) == baris[IF x = 0 THEN 1 ELSE IF x = Akhir THEN n ELSE x].lajur

Sisi(f, t, l) == [dari |-> f, ke |-> t, label |-> l]

\* The edges out of the rows: labels are 0 for none, 1 for Ya, 2 for Tidak.  A task
\* leads to the next row, unless it was a decision once: it follows the Ya it kept.
SisiBaris ==
    {Sisi(x, baris[x].ya, 1) : x \in {y \in 1 .. n : Jenis(y) = "decision" /\ baris[y].ya # 0}}
    \cup {Sisi(x, baris[x].tidak, 2) : x \in {y \in 1 .. n : Jenis(y) = "decision" /\ baris[y].tidak # 0}}
    \cup {Sisi(x, baris[x].ya, 0) : x \in {y \in 1 .. n : Jenis(y) = "task" /\ baris[y].ya # 0}}
    \cup {Sisi(x, x + 1, 0) : x \in {y \in 1 .. n - 1 : Jenis(y) = "task" /\ baris[y].ya = 0}}

\* A row nothing leaves is joined to the end.
SemuaSisi ==
    {Sisi(0, 1, 0)} \cup SisiBaris
    \cup {Sisi(x, Akhir, 0) : x \in {y \in 1 .. n : \A e \in SisiBaris : e.dari # y}}

Rentang(e) == IF e.dari < e.ke THEN e.ke - e.dari ELSE e.dari - e.ke

\* The place in the list: by the row an edge leaves, those to the end appended last.
UrutanDaftar(e) == IF e.ke = Akhir THEN Akhir + e.dari ELSE e.dari

\* Two edges with the same hash keep the order of the list.
Mendahului(e, f) ==
    \/ Rentang(e) > Rentang(f)
    \/ /\ Rentang(e) = Rentang(f)
       /\ \/ e.label > f.label
          \/ /\ e.label = f.label
             /\ LET balikE == e.label = 2 /\ e.ke < e.dari
                    balikF == f.label = 2 /\ f.ke < f.dari
                IN  \/ balikE /\ ~balikF
                    \/ /\ balikE <=> balikF
                       /\ \/ Sidik(seed, e) < Sidik(seed, f)
                          \/ Sidik(seed, e) = Sidik(seed, f) /\ UrutanDaftar(e) < UrutanDaftar(f)

\* sortConnectionsForRouting: sorted, then rotated by the seed.
UrutKoneksi ==
    LET S == SemuaSisi
        m == Cardinality(S)
        urut == [i \in 1 .. m |->
                    CHOOSE e \in S : Cardinality({f \in S : Mendahului(f, e)}) = i - 1]
    IN  [i \in 1 .. m |-> urut[((i - 1 + seed) % m) + 1]]

Tepi == {koneksi[i] : i \in DOMAIN koneksi}
Keluar(x) == {i \in DOMAIN koneksi : koneksi[i].dari = x}
Maju(e) == e.dari < e.ke
Pra(x) == {e.dari : e \in {f \in Tepi : f.ke = x /\ Maju(f)}}

-----------------------------------------------------------------------------
(* Lane runs: a sweep across the lanes stays in its column until it turns.  *)

Terbesar(S) == CHOOSE i \in S : \A j \in S : j <= i

ArahLintas(p, x) == IF Lajur(p) = Lajur(x) \/ Jenis(p) = "decision" THEN 0
                    ELSE IF Lajur(x) > Lajur(p) THEN 1 ELSE -1

\* The columns an edge from p to x advances when the run into p has direction d.
Langkahi(p, x, d) ==
    LET a == ArahLintas(p, x)
    IN  IF a = 0 \/ (d # 0 /\ d # a) THEN 1 ELSE 0

\* The direction of the run that reaches x: none when its edges disagree.
Arah(x) ==
    LET D == {ArahLintas(p, x) : p \in Pra(x)}
    IN  IF Cardinality(D) = 1 THEN CHOOSE d \in D : TRUE ELSE 0

-----------------------------------------------------------------------------
(* assignStepColumns.                                                       *)

\* The rank of a shape: behind its predecessors, or behind its left neighbour
\* when nothing leads to it and the neighbour stands in the same lane.
Pangkat ==
    LET P == [x \in Simpul |-> Pra(x)]
        maju == [p \in Simpul |-> [x \in Simpul |-> Langkahi(p, x, Arah(p))]]
        k[x \in Simpul] ==
            IF P[x] # {} THEN Terbesar({k[p] + maju[p][x] : p \in P[x]})
            ELSE IF x > 0 /\ Lajur(x - 1) = Lajur(x) THEN k[x - 1] + 1
            ELSE 0
    IN  k

\* bumpDecisionBranchColumns for one decision: its targets move right of it, and
\* those in its own lane one column further each, in the order of the edges.
GeserSatu(k, d) ==
    LET selajur == {i \in Keluar(d) : Lajur(koneksi[i].ke) = Lajur(d)}
        jarak(i) == 1 + IF i \in selajur THEN Cardinality({j \in selajur : j < i}) ELSE 0
        ke(x) == {i \in Keluar(d) : koneksi[i].ke = x}
    IN  IF Jenis(d) # "decision" THEN k
        ELSE [x \in Simpul |-> Terbesar({k[x]} \cup {k[d] + jarak(i) : i \in ke(x)})]

\* enforceForwardMonotonicColumns: the i-th edge in one pass.
DorongSatu(k, i) ==
    LET e == koneksi[i]
    IN  IF Maju(e) /\ k[e.dari] + lompat[i] > k[e.ke]
        THEN [k EXCEPT ![e.ke] = k[e.dari] + lompat[i]]
        ELSE k

-----------------------------------------------------------------------------
(* computeBpmnLayout.                                                       *)

\* The main path: from the start, always to the next row when an edge leads there,
\* else to the lowest one.
Pilihan(x) ==
    LET K == {e.ke : e \in {f \in Tepi : f.dari = x}}
    IN  IF x + 1 \in K THEN x + 1 ELSE CHOOSE t \in K : \A u \in K : t <= u

Utama ==
    LET jalur[i \in Nat] ==
            IF i = 0 THEN {0}
            ELSE jalur[i - 1] \cup {Pilihan(x) : x \in jalur[i - 1] \ {Akhir}}
    IN  jalur[n + 1]

\* The end goes behind everything.
DenganAkhir(k) == [k EXCEPT ![Akhir] = Terbesar({k[x] : x \in Simpul}) + 1]

\* A mutant: the main path goes first, whatever the columns are.
UnikUtamaDulu(k) ==
    LET U == Utama
        giliran == [x \in Simpul |-> IF x \in U THEN 0 ELSE 1]
        sebelum(y, x) ==
            \/ giliran[y] < giliran[x]
            \/ giliran[y] = giliran[x] /\ k[y] < k[x]
            \/ giliran[y] = giliran[x] /\ k[y] = k[x] /\ y < x
        kiri == [x \in Simpul |-> {y \in Simpul : Lajur(y) = Lajur(x) /\ sebelum(y, x)}]
        baru[x \in Simpul] == Terbesar({k[x]} \cup {baru[y] + 1 : y \in kiri[x]})
    IN  baru

\* Shapes of a lane keep their order, the main path first, and no column twice.
Unik(k) ==
    LET U == Utama
        giliran == [x \in Simpul |-> IF x \in U THEN 0 ELSE 1]
        sebelum(y, x) ==
            \/ k[y] < k[x]
            \/ k[y] = k[x] /\ giliran[y] < giliran[x]
            \/ k[y] = k[x] /\ giliran[y] = giliran[x] /\ y < x
        kiri == [x \in Simpul |-> {y \in Simpul : Lajur(y) = Lajur(x) /\ sebelum(y, x)}]
        baru[x \in Simpul] == Terbesar({k[x]} \cup {baru[y] + 1 : y \in kiri[x]})
    IN  baru

\* straightenSimpleCrossLaneTaskChains looks at edges with no fork and no join.
Lurusan(e) ==
    /\ \A f \in Tepi : f.dari = e.dari => f = e
    /\ \A f \in Tepi : f.ke = e.ke => f = e

ArahLurusan(x) ==
    IF \E e \in Tepi : e.ke = x /\ Maju(e) /\ Lurusan(e)
    THEN ArahLintas(CHOOSE p \in Pra(x) : TRUE, x)
    ELSE 0

Serahan(e) ==
    /\ Maju(e)
    /\ Jenis(e.dari) = "task" /\ Jenis(e.ke) = "task"
    /\ Lajur(e.dari) # Lajur(e.ke)
    /\ Lurusan(e)
    /\ Langkahi(e.dari, e.ke, ArahLurusan(e.dari)) = 0

Terisi(k, x, c) == \E y \in Simpul \ {x} : Lajur(y) = Lajur(x) /\ k[y] = c

\* A mutant: the place is not checked.
LurusTanpaCek(k, e) ==
    IF Serahan(e) /\ k[e.ke] > k[e.dari] THEN [k EXCEPT ![e.ke] = k[e.dari]] ELSE k

LurusSatu(k, e) ==
    IF Serahan(e) /\ k[e.ke] > k[e.dari] /\ ~Terisi(k, e.ke, k[e.dari])
    THEN [k EXCEPT ![e.ke] = k[e.dari]]
    ELSE k

\* The edges are visited in the order of the rows they leave.
LurusDari(k, x) ==
    FoldLeft(LAMBDA h, e : IF e.dari = x THEN LurusSatu(h, e) ELSE h, k, koneksi)

Lurus(k) == FoldLeft(LurusDari, k, [i \in 1 .. n + 1 |-> i - 1])

\* compactStepColumnIndices: no column is left empty.
Padat(k) == [x \in Simpul |-> Cardinality({k[y] : y \in {z \in Simpul : k[z] < k[x]}})]

-----------------------------------------------------------------------------
(* The passes.                                                              *)

Tugas(l) == [lajur |-> l, jenis |-> "task", ya |-> 0, tidak |-> 0]

\* Lanes are numbered in the order the rows first use them.
UrutLajur(m) ==
    {l \in [1 .. m -> 1 .. m] :
        \A i \in 1 .. m : l[i] = 1 \/ \E j \in 1 .. i - 1 : l[j] = l[i] - 1}

Init ==
    /\ \E m \in 1 .. MaxBaris : \E l \in UrutLajur(m) : baris = [i \in 1 .. m |-> Tugas(l[i])]
    /\ seed = 0
    /\ tahap = "hubung"
    /\ sapuan = 0
    /\ koneksi = <<>>
    /\ lompat = <<>>
    /\ kolom = [x \in Simpul |-> 0]

Lanjut(t) == tahap' = t /\ sapuan' = 0

\* Everything is computed afresh.
DariAwal == Lanjut("hubung") /\ koneksi' = <<>> /\ lompat' = <<>> /\ kolom' = [x \in Simpul' |-> 0]

Bercabang(i) == Jenis(i) = "decision" \/ baris[i].ya # 0

\* The author makes a row a decision, whose branches may point at any row, at the
\* decision itself or nowhere; the first and the last row are drawn as tasks.
JadikanKeputusan ==
    /\ tahap = "selesai"
    /\ n + Cardinality({i \in 1 .. n : Bercabang(i)}) < MaxBobot
    /\ \E i \in 2 .. n - 1, ya, tidak \in 0 .. n :
        /\ Jenis(i) = "task"
        /\ baris' = [baris EXCEPT ![i].jenis = "decision", ![i].ya = ya, ![i].tidak = tidak]
    /\ DariAwal
    /\ UNCHANGED seed

\* The type alone changes: the branches of the decision stay in the row.  Nothing is
\* drawn of its Tidak, which is forgotten here: as a decision again it may have any.
JadikanTugas ==
    /\ tahap = "selesai"
    /\ \E i \in 1 .. n :
        /\ Jenis(i) = "decision"
        /\ baris' = [baris EXCEPT ![i].jenis = "task", ![i].tidak = 0]
    /\ DariAwal
    /\ UNCHANGED seed

\* The rows without the i-th.  Branches to it lead nowhere, and a decision that comes
\* to stand first or last becomes a terminator, which keeps its Ya.
Tanpa(i) ==
    LET asal(j) == baris[IF j < i THEN j ELSE j + 1]
        jenis(j) == IF j \in {1, n - 1} THEN "task" ELSE asal(j).jenis
        ke(t) == IF t = i THEN 0 ELSE IF t > i THEN t - 1 ELSE t
        sebelum(j) == {g \in 1 .. j : \A h \in 1 .. g : asal(h).lajur # asal(j).lajur}
    IN  [j \in 1 .. n - 1 |->
            [lajur |-> Cardinality({asal(g).lajur : g \in sebelum(j)}) + 1,
             jenis |-> jenis(j), ya |-> ke(asal(j).ya),
             tidak |-> IF jenis(j) = "task" THEN 0 ELSE ke(asal(j).tidak)]]

\* handleDeleteRow.
HapusBaris ==
    /\ tahap = "selesai"
    /\ n > 1
    /\ \E i \in 1 .. n : baris' = Tanpa(i)
    /\ DariAwal
    /\ UNCHANGED seed

\* buildWorkflowConnections.
Hubungkan ==
    /\ tahap = "hubung"
    /\ koneksi' = UrutKoneksi
    /\ Lanjut("peringkat")
    /\ UNCHANGED <<baris, seed, lompat, kolom>>

Peringkat ==
    /\ tahap = "peringkat"
    /\ lompat' = [i \in DOMAIN koneksi |->
                    Langkahi(koneksi[i].dari, koneksi[i].ke, Arah(koneksi[i].dari))]
    /\ kolom' = Pangkat
    /\ Lanjut("geser")
    /\ UNCHANGED <<baris, seed, koneksi>>

GeserCabang ==
    /\ tahap = "geser"
    /\ kolom' = FoldLeft(GeserSatu, kolom, [i \in 1 .. n |-> i])
    /\ Lanjut("dorong")
    /\ UNCHANGED <<baris, seed, koneksi, lompat>>

\* A mutant: one pass.
BatasDorongSatu == 1

\* The loop ends when a pass changes nothing, or after as many passes as there are
\* shapes.
BatasDorong == n + 2

Dorong ==
    /\ tahap = "dorong"
    /\ kolom' = FoldLeft(DorongSatu, kolom, [i \in DOMAIN koneksi |-> i])
    /\ IF kolom' = kolom \/ sapuan + 1 = BatasDorong
       THEN Lanjut("unik")
       ELSE sapuan' = sapuan + 1 /\ UNCHANGED tahap
    /\ UNCHANGED <<baris, seed, koneksi, lompat>>

Unikkan ==
    /\ tahap = "unik"
    /\ kolom' = Unik(DenganAkhir(kolom))
    /\ Lanjut("lurus")
    /\ UNCHANGED <<baris, seed, koneksi, lompat>>

\* Straightened and compacted three times, with the geometry measured in between.
UlangLurus == 3

Luruskan ==
    /\ tahap = "lurus"
    /\ kolom' = Padat(Lurus(kolom))
    /\ IF sapuan + 1 = UlangLurus
       THEN Lanjut("selesai")
       ELSE sapuan' = sapuan + 1 /\ UNCHANGED tahap
    /\ UNCHANGED <<baris, seed, koneksi, lompat>>

\* A reset of the diagram asks for the next seed and lays it out again.
AturUlang ==
    /\ tahap = "selesai"
    /\ seed < MaxSeed
    /\ seed' = seed + 1
    /\ UNCHANGED baris
    /\ DariAwal

Next ==
    \/ Hubungkan \/ Peringkat \/ GeserCabang \/ Dorong
    \/ Unikkan \/ Luruskan \/ AturUlang
    \/ JadikanKeputusan \/ JadikanTugas \/ HapusBaris

Spec == Init /\ [][Next]_vars

-----------------------------------------------------------------------------
Jadi == tahap = "selesai"

\* The loop over the edges may only stop when nothing is left to push: it gives up
\* after as many passes as there are shapes, and it visits the edges in the order of
\* the routing, longest first, not in the order of the flow.
DorongTuntas ==
    tahap = "unik" =>
        \A i \in DOMAIN koneksi :
            LET e == koneksi[i]
            IN  Maju(e) => kolom[e.ke] >= kolom[e.dari] + lompat[i]

\* Two shapes never share a lane and a column: not when the columns of the lane were
\* made distinct, and not after the passes that pull shapes back to the left.
SatuPerKolom ==
    tahap \in {"lurus", "selesai"} =>
        \A x, y \in Simpul : x # y /\ Lajur(x) = Lajur(y) => kolom[x] # kolom[y]

\* In the finished diagram an edge to a later row of the same lane is read from left to
\* right, whatever the passes after the ranking moved.
ArahBaca ==
    Jadi =>
        \A e \in Tepi :
            Maju(e) /\ Lajur(e.dari) = Lajur(e.ke) => kolom[e.dari] < kolom[e.ke]
=============================================================================
