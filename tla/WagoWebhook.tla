----------------------------- MODULE WagoWebhook -----------------------------
(***************************************************************************)
(* The signed callbacks of the provider about the messages of Pengingat:   *)
(* a durable inbox, applied to the delivery it is about either when the    *)
(* callback arrives or by the worker once the schedule is committed.       *)
(***************************************************************************)
EXTENDS Pengingat

CONSTANTS
    Penerima,       \* callbacks being handled at the same time
    JarakTolak,     \* GENERIC_REJECTION_RETRY_DELAY_MS
    MaxPeristiwa    \* bound: events the provider reports

ASSUME PenerimaAssumption == Penerima \cap (Pekerja \cup {Kosong}) = {}
ASSUME JarakTolakAssumption == JarakTolak \in Nat

VARIABLES
    kotak,          \* WagoWebhookEvent: kotak[e], e = <<message, status>>
    olah            \* olah[p]: the events p is processing

vars == <<varsP, kotak, olah>>

Proses == Pekerja \cup Penerima

OlahKosong == [pc |-> "usai", pesan |-> Kosong, sisa |-> {}, e |-> Kosong, d |-> 0, status |-> Kosong]

Init ==
    /\ InitP
    /\ kotak = <<>>
    /\ olah = [p \in Proses |-> OlahKosong]

Hasil == {"ACCEPTED", "REJECTED"}
Kode == {"MESSAGE_REJECTED", "LAIN", Kosong}
Peristiwa == Kunci \X Hasil

Baris == [id : 0..MaxBaris, kirim : Nat, terakhir : 0..MaxJam, gagal : 0..(Len(Mundur) - 1),
          kunci : Pekerja \cup {Kosong}, sampai : Nat]
Kiriman == [kunci : Kunci, pesan : Kunci \cup {Kosong}, dikirim : 0..MaxJam,
            status : Hasil \cup {"PENDING"}, kode : Kode]
Lihatan == [id : 0..MaxBaris, terakhir : 0..MaxJam, gagal : 0..(Len(Mundur) - 1)]
Lokal == [pc : {"istirahat", "selaraskan", "cari", "klaim", "baca", "lepas", "kirim", "tunggu",
                "catat", "jadwalkan", "gagal", "rekon"},
          now : 0..MaxJam, perlu : BOOLEAN \cup {Kosong}, ada : (0..MaxBaris) \cup {Kosong},
          lihat : Lihatan, jawab : Kunci \cup {Kosong}, sent : 0..MaxJam,
          galat : Galat \cup {Kosong}]
Laporan == [kode : Kode, terima : 1..MaxJam, sudah : BOOLEAN]
Olahan == [pc : {"usai", "cocokkan", "rekon", "selesai", "transisi", "terbaru", "pengingat",
                 "percepat", "tandai"},
           pesan : Kunci \cup {Kosong}, sisa : SUBSET Peristiwa, e : Peristiwa \cup {Kosong},
           d : Nat, status : Hasil \cup {"PENDING", Kosong}]

TypeOK ==
    /\ jam \in 1..MaxJam
    /\ berlaku \in BOOLEAN
    /\ ubah \in Nat
    /\ rusak \in Nat
    /\ baris \in Baris
    /\ barisKe \in 0..MaxBaris
    /\ DOMAIN pesan \subseteq Kunci
    /\ pesan \in [DOMAIN pesan -> 1..MaxJam]
    /\ pengiriman \in Seq(Kiriman)
    /\ lok \in [Pekerja -> Lokal]
    /\ DOMAIN kotak \subseteq Peristiwa
    /\ kotak \in [DOMAIN kotak -> Laporan]
    /\ olah \in [Proses -> Olahan]

OlahKe(p, pc) == olah' = [olah EXCEPT ![p].pc = pc]
BelumDiolah(m) == {e \in DOMAIN kotak : e[1] = m /\ ~kotak[e].sudah}
PengirimanPesan(m) == {i \in DOMAIN pengiriman : pengiriman[i].pesan = m}

-----------------------------------------------------------------------------
(***************************************************************************)
(* ingest: insertIfNew, then the delivery is looked up.  A repetition of   *)
(* an event that is not processed yet reconciles its message.              *)
(***************************************************************************)
Terima(h, m, status) ==
    /\ olah[h].pc = "usai"
    /\ m \in DOMAIN pesan
    /\ LET e == <<m, status>> IN
       IF e \notin DOMAIN kotak
       THEN /\ Cardinality(DOMAIN kotak) < MaxPeristiwa
            /\ \E kode \in IF status = "REJECTED" THEN {"MESSAGE_REJECTED", "LAIN"} ELSE {Kosong} :
                  kotak' = Ditambah(kotak, e, [kode |-> kode, terima |-> jam, sudah |-> FALSE])
            /\ olah' = [olah EXCEPT ![h] = [OlahKosong EXCEPT !.pc = "cocokkan", !.pesan = m, !.e = e]]
       ELSE /\ ~kotak[e].sudah
            /\ UNCHANGED kotak
            /\ olah' = [olah EXCEPT ![h] = [OlahKosong EXCEPT !.pc = "rekon", !.pesan = m]]
    /\ UNCHANGED varsP

\* Mutant: an event without a delivery is taken as processed.
CocokkanHabis(p) ==
    /\ olah[p].pc = "cocokkan"
    /\ IF PengirimanPesan(olah[p].pesan) = {}
       THEN /\ kotak' = [kotak EXCEPT ![olah[p].e].sudah = TRUE]
            /\ olah' = [olah EXCEPT ![p] = OlahKosong]
       ELSE /\ UNCHANGED kotak
            /\ \E i \in PengirimanPesan(olah[p].pesan) :
                  olah' = [olah EXCEPT ![p].pc = "transisi", ![p].d = i, ![p].status = pengiriman[i].status]
    /\ UNCHANGED varsP

Cocokkan(p) ==
    /\ olah[p].pc = "cocokkan"
    /\ IF PengirimanPesan(olah[p].pesan) = {}
       THEN olah' = [olah EXCEPT ![p].pc = "selesai", ![p].sisa = {}]
       ELSE \E i \in PengirimanPesan(olah[p].pesan) :
               olah' = [olah EXCEPT ![p].pc = "transisi", ![p].d = i, ![p].status = pengiriman[i].status]
    /\ UNCHANGED <<varsP, kotak>>

(***************************************************************************)
(* reconcileTransportMessage, by a handler or by a worker that committed   *)
(* the schedule; the delivery may have no message id to reconcile.         *)
(***************************************************************************)
Rekonsiliasi(w) ==
    /\ lok[w].pc = "rekon"
    /\ olah[w].pc = "usai"
    /\ IF lok[w].jawab = Kosong
       THEN Usai(w) /\ UNCHANGED olah
       ELSE /\ Ke(w, "rekon")
            /\ olah' = [olah EXCEPT ![w] = [OlahKosong EXCEPT !.pc = "rekon", !.pesan = lok[w].jawab]]
    /\ UNCHANGED <<jam, berlaku, ubah, baris, barisKe, pesan, pengiriman, kotak, rusak>>

BacaKotak(p) ==
    /\ olah[p].pc = "rekon"
    /\ olah' = [olah EXCEPT ![p].pc = "selesai", ![p].sisa = BelumDiolah(olah[p].pesan)]
    /\ UNCHANGED <<varsP, kotak>>

Berikut(p) ==
    /\ olah[p].pc = "selesai"
    /\ \E e \in olah[p].sisa :
          olah' = [olah EXCEPT ![p].pc = "cocokkan", ![p].e = e, ![p].sisa = @ \ {e}]
    /\ UNCHANGED <<varsP, kotak>>

Selesai(p) ==
    /\ olah[p].pc = "selesai"
    /\ olah[p].sisa = {}
    /\ olah' = [olah EXCEPT ![p] = OlahKosong]
    /\ IF p \in Pekerja THEN Usai(p) ELSE UNCHANGED lok
    /\ UNCHANGED <<jam, berlaku, ubah, baris, barisKe, pesan, pengiriman, kotak, rusak>>

-----------------------------------------------------------------------------
(***************************************************************************)
(* processMatched, on the delivery as it was read.                         *)
(***************************************************************************)
LaporanOleh(p) == kotak[olah[p].e]
Ditetapkan(p, i) ==
    [pengiriman EXCEPT ![i].status = olah[p].e[2], ![i].kode = LaporanOleh(p).kode]

\* The effective delivery after the transition is d, with this status and code.
KeSetelahTransisi(p, d) ==
    OlahKe(p, IF /\ olah[p].e[2] = "REJECTED"
                 /\ d.status = "REJECTED"
                 /\ d.kode = "MESSAGE_REJECTED"
              THEN "terbaru" ELSE "tandai")

\* Mutant: the update does not ask that the delivery is still pending.
TransisiTanpaSyarat(p) ==
    /\ olah[p].pc = "transisi"
    /\ LET i == olah[p].d IN
       /\ pengiriman' = IF olah[p].status = "PENDING" THEN Ditetapkan(p, i) ELSE pengiriman
       /\ KeSetelahTransisi(p, pengiriman'[i])
    /\ UNCHANGED <<jam, berlaku, ubah, baris, barisKe, pesan, lok, kotak, rusak>>

\* markAccepted and markRejected apply to a pending delivery only.
Transisi(p) ==
    /\ olah[p].pc = "transisi"
    /\ LET i == olah[p].d IN
       /\ pengiriman' = IF olah[p].status = "PENDING" /\ pengiriman[i].status = "PENDING"
                        THEN Ditetapkan(p, i) ELSE pengiriman
       /\ KeSetelahTransisi(p, pengiriman'[i])
    /\ UNCHANGED <<jam, berlaku, ubah, baris, barisKe, pesan, lok, kotak, rusak>>

\* findLatestForIdentity, by submittedAt, then by creation.
Terbaru(i) ==
    \A j \in DOMAIN pengiriman :
        \/ pengiriman[j].dikirim < pengiriman[i].dikirim
        \/ pengiriman[j].dikirim = pengiriman[i].dikirim /\ j <= i

BacaTerbaru(p) ==
    /\ olah[p].pc = "terbaru"
    /\ OlahKe(p, IF Terbaru(olah[p].d) THEN "pengingat" ELSE "tandai")
    /\ UNCHANGED <<varsP, kotak>>

\* Mutant: a row claimed for its next message defers, too.
BelumTerjadwalBilaTerkunci(d) == baris.kunci # Kosong

\* The row is claimed and has not committed the schedule of delivery d.
BelumTerjadwal(d) == baris.kunci # Kosong /\ baris.terakhir < d.dikirim

\* A deferred event is left unprocessed.
BacaJadwal(p) ==
    /\ olah[p].pc = "pengingat"
    /\ LET d == pengiriman[olah[p].d] IN
       OlahKe(p, CASE baris.id # d.kunci[1] \/ ~berlaku -> "tandai"
                   [] BelumTerjadwal(d) -> "selesai"
                   [] OTHER -> "percepat")
    /\ UNCHANGED <<varsP, kotak>>

\* Mutant: the retry delay is not awaited.
PercepatSegera(p) ==
    /\ olah[p].pc = "percepat"
    /\ baris' = IF baris.id = pengiriman[olah[p].d].kunci[1] /\ baris.kirim > jam
                THEN [baris EXCEPT !.kirim = jam] ELSE baris
    /\ OlahKe(p, "tandai")
    /\ UNCHANGED <<jam, berlaku, ubah, barisKe, pesan, pengiriman, lok, kotak, rusak>>

\* accelerateNextSendAt, from the time the event was first received.
Percepat(p) ==
    /\ olah[p].pc = "percepat"
    /\ LET calon == LaporanOleh(p).terima + JarakTolak IN
       baris' = IF baris.id = pengiriman[olah[p].d].kunci[1] /\ baris.kirim > calon
                THEN [baris EXCEPT !.kirim = calon] ELSE baris
    /\ OlahKe(p, "tandai")
    /\ UNCHANGED <<jam, berlaku, ubah, barisKe, pesan, pengiriman, lok, kotak, rusak>>

Tandai(p) ==
    /\ olah[p].pc = "tandai"
    /\ kotak' = [kotak EXCEPT ![olah[p].e].sudah = TRUE]
    /\ OlahKe(p, "selesai")
    /\ UNCHANGED varsP

\* A handler fails or its instance stops; the provider may repeat the event.
Putus(h) ==
    /\ olah[h].pc # "usai"
    /\ Rusak
    /\ olah' = [olah EXCEPT ![h] = OlahKosong]
    /\ UNCHANGED <<jam, berlaku, ubah, baris, barisKe, pesan, pengiriman, lok, kotak>>

\* The worker of an interrupted cycle drops what it was reconciling, too.
Mogok(w) ==
    /\ Berhenti(w)
    /\ olah' = [olah EXCEPT ![w] = OlahKosong]
    /\ UNCHANGED kotak

Olah(p) ==
    \/ Cocokkan(p) \/ BacaKotak(p) \/ Berikut(p) \/ Selesai(p) \/ Transisi(p)
    \/ BacaTerbaru(p) \/ BacaJadwal(p) \/ Percepat(p) \/ Tandai(p)

Next ==
    \/ (Detik \/ UbahTugas) /\ UNCHANGED <<kotak, olah>>
    \/ \E w \in Pekerja :
          \/ Siklus(w) /\ UNCHANGED <<kotak, olah>>
          \/ Rekonsiliasi(w)
          \/ Mogok(w)
    \/ \E p \in Proses : Olah(p)
    \/ \E h \in Penerima :
          \/ Putus(h)
          \/ \E m \in DOMAIN pesan, s \in Hasil : Terima(h, m, s)

Spec == Init /\ [][Next]_vars

-----------------------------------------------------------------------------
(***************************************************************************)
(* Properties.                                                             *)
(***************************************************************************)

Penolakan == {<<e[1][1], kotak[e].terima>> : e \in {q \in DOMAIN kotak : q[2] = "REJECTED"}}

Berkala == INSTANCE PengirimanBerkala WITH tolak <- Penolakan

\* The messages of a reminder are spaced as PengirimanBerkala says, whatever
\* leases run out, answers are lost, callbacks come late or instances stop.
JarakAntarPesan == Berkala!Spec

\* lastSentAt of a reminder never goes back: an instance that lost its lease
\* and comes back late does not overwrite a later success.
JadwalMaju ==
    [][baris'.id = baris.id => baris'.terakhir >= baris.terakhir]_vars

\* The outcome of a delivery is decided once, by whichever of two
\* contradicting callbacks is applied first.
HasilTetap ==
    [][\A i \in DOMAIN pengiriman :
          pengiriman[i].status # "PENDING" =>
              /\ pengiriman'[i].status = pengiriman[i].status
              /\ pengiriman'[i].kode = pengiriman[i].kode]_vars

\* Part of the invariant of the proofs: the unique key of a submission leaves
\* no callback with two deliveries.
SatuPengirimanPerKunci ==
    \A i, j \in DOMAIN pengiriman : pengiriman[i].kunci = pengiriman[j].kunci => i = j

\* No callback is consumed unless it was matched to a decided delivery, and
\* no delivery is decided but by a callback about its message.
KotakSelaras ==
    /\ \A e \in DOMAIN kotak : kotak[e].sudah =>
          \E i \in PengirimanPesan(e[1]) : pengiriman[i].status # "PENDING"
    /\ \A i \in DOMAIN pengiriman : pengiriman[i].status # "PENDING" =>
          LET e == <<pengiriman[i].pesan, pengiriman[i].status>>
          IN  e \in DOMAIN kotak /\ kotak[e].kode = pengiriman[i].kode

\* When nothing fails and no lease runs out on an instance at work, no callback
\* about a recorded submission stays behind: whichever of the handler and the
\* worker looks second sees it.
TiadaTertinggal ==
    /\ rusak = 0 /\ ubah = 0
    /\ \A p \in Proses : olah[p].pc = "usai"
    /\ \A w \in Pekerja : lok[w].pc = "istirahat"
    => \A e \in DOMAIN kotak : PengirimanPesan(e[1]) # {} => kotak[e].sudah

\* The delivery webhook design (step 7 of its send flow): no rejection of the latest
\* submission is consumed against a schedule that is still to be committed.
PenolakanTakTertimpa ==
    \A e \in DOMAIN kotak :
        kotak[e].sudah /\ kotak[e].kode = "MESSAGE_REJECTED" =>
            \A i \in PengirimanPesan(e[1]) :
                /\ pengiriman[i].status = "REJECTED"
                /\ Terbaru(i)
                /\ baris.id = pengiriman[i].kunci[1]
                => baris.terakhir >= pengiriman[i].dikirim
=============================================================================
