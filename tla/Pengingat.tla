------------------------------ MODULE Pengingat ------------------------------
(***************************************************************************)
(* The WhatsApp reminder of one task: the row of PengingatWhatsApp for one *)
(* (submission, user, kind), which every server instance reconciles and    *)
(* works on periodically under a lease, and the provider it calls.         *)
(* Reminders of other tasks share nothing with it.  The provider is        *)
(* external: it accepts an idempotency key once and answers a repetition   *)
(* with DUPLICATE_MESSAGE.                                                 *)
(***************************************************************************)
EXTENDS Naturals, Sequences, FiniteSets

CONSTANTS
    Pekerja,        \* server instances, each ticking one cycle at a time
    Kosong,         \* null
    Sewa,           \* WHATSAPP_LOCK_LEASE_SECONDS
    Jarak,          \* WHATSAPP_REMINDER_INTERVAL_MINUTES
    Mundur,         \* TRANSIENT_BACKOFF_MS, a sequence
    MundurAtur,     \* CONFIGURATION_RETRY_MS
    MaxJam,         \* bound: last instant
    MaxBaris,       \* bound: rows created for the task
    MaxUbah,        \* bound: times the task opens or closes
    MaxPesan,       \* bound: messages the provider accepts
    MaxRusak        \* bound: calls refused, errors and stops

\* buildIdempotencyKey: the reminder and its lastSentAt.
Kunci == (1..MaxBaris) \X (0..MaxJam)

ASSUME KosongAssumption == Kosong \notin Pekerja \cup Kunci /\ Kosong \notin BOOLEAN
ASSUME JarakAssumption == Jarak \in Nat \ {0} /\ Sewa \in Nat \ {0}
ASSUME MundurAssumption ==
    Mundur \in Seq(Nat \ {0}) /\ Len(Mundur) > 0 /\ MundurAtur \in Nat \ {0}
ASSUME BatasAssumption == MaxJam \in Nat \ {0} /\ MaxBaris \in Nat

VARIABLES
    jam,            \* the time
    berlaku,        \* the task is open and the user is its recipient
    ubah,           \* times berlaku has changed
    baris,          \* the row
    barisKe,        \* rows created so far
    pesan,          \* pesan[k]: when the provider accepted key k
    rusak,          \* refusals, errors and stops so far
    pengiriman,     \* rows of PengirimanNotifikasiWhatsApp, as created
    lok             \* lok[w]: local state of the cycle of w

varsP == <<jam, berlaku, ubah, baris, barisKe, pesan, rusak, pengiriman, lok>>

\* Times start at 1: 0 is the null of lastSentAt and lockedUntil.
TanpaBaris == [id |-> 0, kirim |-> 0, terakhir |-> 0, gagal |-> 0, kunci |-> Kosong, sampai |-> 0]
BarisBaru(id, now) == [TanpaBaris EXCEPT !.id = id, !.kirim = now]

\* What a worker keeps of the row it claimed.
Terlihat(b) == [id |-> b.id, terakhir |-> b.terakhir, gagal |-> b.gagal]

LokKosong == [pc |-> "istirahat", now |-> 0, perlu |-> Kosong, ada |-> Kosong,
              lihat |-> Terlihat(TanpaBaris), jawab |-> Kosong, sent |-> 0, galat |-> Kosong]

Galat == {"BAD_RECIPIENT", "CONFIGURATION", "LAIN"}

InitP ==
    /\ jam = 1
    /\ berlaku = TRUE
    /\ ubah = 0
    /\ baris = TanpaBaris
    /\ barisKe = 0
    /\ pesan = <<>>
    /\ rusak = 0
    /\ pengiriman = <<>>
    /\ lok = [w \in Pekerja |-> LokKosong]

\* f with v at k, too.
Ditambah(f, k, v) == [x \in DOMAIN f \cup {k} |-> IF x = k THEN v ELSE f[x]]

Rusak == rusak < MaxRusak /\ rusak' = rusak + 1
Ke(w, pc) == lok' = [lok EXCEPT ![w].pc = pc]
Usai(w) == lok' = [lok EXCEPT ![w] = LokKosong]

-----------------------------------------------------------------------------
(***************************************************************************)
(* The environment: time, and the submission or the user changing so that  *)
(* the task closes or opens again.                                         *)
(***************************************************************************)
Detik ==
    /\ jam < MaxJam
    /\ jam' = jam + 1
    /\ UNCHANGED <<berlaku, ubah, baris, barisKe, pesan, pengiriman, lok, rusak>>

UbahTugas ==
    /\ ubah < MaxUbah
    /\ ubah' = ubah + 1
    /\ berlaku' = ~berlaku
    /\ UNCHANGED <<jam, baris, barisKe, pesan, pengiriman, lok, rusak>>

-----------------------------------------------------------------------------
(***************************************************************************)
(* reconcile: what should exist and what exists are read by two queries in *)
(* any order; then the missing row is created, the stale one deleted,      *)
(* whoever holds its lease.                                                *)
(***************************************************************************)
Mulai(w) ==
    /\ lok[w].pc = "istirahat"
    /\ \/ lok' = [lok EXCEPT ![w].pc = "selaraskan", ![w].now = jam, ![w].perlu = berlaku]
       \/ lok' = [lok EXCEPT ![w].pc = "selaraskan", ![w].now = jam, ![w].ada = baris.id]
    /\ UNCHANGED <<jam, berlaku, ubah, baris, barisKe, pesan, pengiriman, rusak>>

BacaTugas(w) ==
    /\ lok[w].pc = "selaraskan"
    /\ lok[w].perlu = Kosong
    /\ lok' = [lok EXCEPT ![w].perlu = berlaku]
    /\ UNCHANGED <<jam, berlaku, ubah, baris, barisKe, pesan, pengiriman, rusak>>

\* Only a task that is closed makes use of the row.
BacaPengingat(w) ==
    /\ lok[w].pc = "selaraskan"
    /\ lok[w].perlu = FALSE
    /\ lok[w].ada = Kosong
    /\ lok' = [lok EXCEPT ![w].ada = baris.id]
    /\ UNCHANGED <<jam, berlaku, ubah, baris, barisKe, pesan, pengiriman, rusak>>

BuatBaris(w) ==
    /\ lok[w].perlu = TRUE
    /\ IF baris.id = 0
       THEN /\ barisKe < MaxBaris
            /\ barisKe' = barisKe + 1
            /\ baris' = BarisBaru(barisKe + 1, lok[w].now)
       ELSE UNCHANGED <<baris, barisKe>>

HapusBaris(w) ==
    /\ lok[w].perlu = FALSE
    /\ lok[w].ada # Kosong
    /\ baris' = IF baris.id = lok[w].ada THEN TanpaBaris ELSE baris
    /\ UNCHANGED barisKe

Selaraskan(w) ==
    /\ lok[w].pc = "selaraskan"
    /\ BuatBaris(w) \/ HapusBaris(w)
    /\ lok' = [lok EXCEPT ![w] = [LokKosong EXCEPT !.pc = "cari"]]
    /\ UNCHANGED <<jam, berlaku, ubah, pesan, pengiriman, rusak>>

-----------------------------------------------------------------------------
(***************************************************************************)
(* processDue and processOne.  now is taken once for the whole cycle.      *)
(***************************************************************************)
JatuhTempo(now) ==
    /\ baris.id # 0
    /\ baris.kirim <= now
    /\ baris.sampai = 0 \/ baris.sampai < now

CariJatuhTempo(w) ==
    /\ lok[w].pc = "cari"
    /\ IF JatuhTempo(jam)
       THEN lok' = [lok EXCEPT ![w].pc = "klaim", ![w].now = jam, ![w].ada = baris.id]
       ELSE Usai(w)
    /\ UNCHANGED <<jam, berlaku, ubah, baris, barisKe, pesan, pengiriman, rusak>>

\* tryClaim; a fresh lock token per attempt is the instance that took it.
Klaim(w) ==
    /\ lok[w].pc = "klaim"
    /\ IF baris.id = lok[w].ada /\ JatuhTempo(lok[w].now)
       THEN /\ baris' = [baris EXCEPT !.kunci = w, !.sampai = lok[w].now + Sewa]
            /\ Ke(w, "baca")
       ELSE UNCHANGED baris /\ Usai(w)
    /\ UNCHANGED <<jam, berlaku, ubah, barisKe, pesan, pengiriman, rusak>>

Memegang(w, id) == baris.id = id /\ baris.kunci = w

\* findClaimed and isReminderStillEligible.
BacaKlaim(w) ==
    /\ lok[w].pc = "baca"
    /\ IF Memegang(w, lok[w].ada)
       THEN lok' = [lok EXCEPT ![w].pc = IF berlaku THEN "kirim" ELSE "lepas",
                               ![w].lihat = Terlihat(baris)]
       ELSE Usai(w)
    /\ UNCHANGED <<jam, berlaku, ubah, baris, barisKe, pesan, pengiriman, rusak>>

\* releaseClaim.
Lepas(w) ==
    /\ lok[w].pc = "lepas"
    /\ baris' = IF Memegang(w, lok[w].lihat.id)
                THEN [baris EXCEPT !.kunci = Kosong, !.sampai = 0] ELSE baris
    /\ Usai(w)
    /\ UNCHANGED <<jam, berlaku, ubah, barisKe, pesan, pengiriman, rusak>>

\* Mutant: every attempt has an idempotency key of its own.
KunciPerUpaya(w) == <<lok[w].lihat.id, jam>>

KunciKirim(w) == <<lok[w].lihat.id, lok[w].lihat.terakhir>>

-----------------------------------------------------------------------------
(***************************************************************************)
(* channel.send.  The provider accepts a new key or refuses the call; the  *)
(* answer comes later, with or without a message id, or never.             *)
(***************************************************************************)
Kirim(w) ==
    /\ lok[w].pc = "kirim"
    /\ LET k == KunciKirim(w) IN
       IF k \in DOMAIN pesan
       THEN UNCHANGED pesan /\ lok' = [lok EXCEPT ![w].pc = "tunggu"]
       ELSE /\ Cardinality(DOMAIN pesan) < MaxPesan
            /\ pesan' = Ditambah(pesan, k, jam)
            /\ lok' = [lok EXCEPT ![w].pc = "tunggu", ![w].jawab = k]
    /\ UNCHANGED <<jam, berlaku, ubah, baris, barisKe, pengiriman, rusak>>

Ditolak(w) ==
    /\ Rusak
    /\ lok[w].pc = "kirim"
    /\ \E g \in Galat : lok' = [lok EXCEPT ![w].pc = "gagal", ![w].galat = g]
    /\ UNCHANGED <<jam, berlaku, ubah, baris, barisKe, pesan, pengiriman>>

Jawaban(w) ==
    /\ lok[w].pc = "tunggu"
    /\ \E id \in {lok[w].jawab, Kosong} :
          lok' = [lok EXCEPT ![w].pc = "catat", ![w].jawab = id, ![w].sent = jam]
    /\ UNCHANGED <<jam, berlaku, ubah, baris, barisKe, pesan, pengiriman, rusak>>

\* A timeout of the call, or a failing recordSubmission or markSuccess.
Gangguan(w) ==
    /\ Rusak
    /\ lok[w].pc \in {"tunggu", "catat", "jadwalkan"}
    /\ lok' = [lok EXCEPT ![w].pc = "gagal", ![w].galat = "LAIN"]
    /\ UNCHANGED <<jam, berlaku, ubah, baris, barisKe, pesan, pengiriman>>

-----------------------------------------------------------------------------
(***************************************************************************)
(* recordSubmission reuses the delivery of the key, if there is one.       *)
(***************************************************************************)
PengirimanKunci(k) == {i \in DOMAIN pengiriman : pengiriman[i].kunci = k}

Catat(w) ==
    /\ lok[w].pc = "catat"
    /\ LET lama == PengirimanKunci(KunciKirim(w)) IN
       IF lama = {}
       THEN /\ pengiriman' = Append(pengiriman,
                   [kunci |-> KunciKirim(w), pesan |-> lok[w].jawab, dikirim |-> lok[w].sent,
                    status |-> "PENDING", kode |-> Kosong])
            /\ Ke(w, "jadwalkan")
       ELSE /\ UNCHANGED pengiriman
            /\ \E i \in lama :
                  lok' = [lok EXCEPT ![w].pc = "jadwalkan", ![w].jawab = pengiriman[i].pesan]
    /\ UNCHANGED <<jam, berlaku, ubah, baris, barisKe, pesan, rusak>>

Terjadwal(w) ==
    [baris EXCEPT !.terakhir = lok[w].sent, !.kirim = lok[w].sent + Jarak, !.gagal = 0,
                  !.kunci = Kosong, !.sampai = 0]

\* Mutant: the schedule is committed by whoever comes back, holder or not.
JadwalkanTanpaKunci(w) ==
    /\ lok[w].pc = "jadwalkan"
    /\ IF baris.id = lok[w].lihat.id
       THEN baris' = Terjadwal(w) /\ Ke(w, "rekon")
       ELSE UNCHANGED baris /\ Usai(w)
    /\ UNCHANGED <<jam, berlaku, ubah, barisKe, pesan, pengiriman, rusak>>

\* markSuccess; webhooks are reconciled only if it applied.
Jadwalkan(w) ==
    /\ lok[w].pc = "jadwalkan"
    /\ IF Memegang(w, lok[w].lihat.id)
       THEN baris' = Terjadwal(w) /\ Ke(w, "rekon")
       ELSE UNCHANGED baris /\ Usai(w)
    /\ UNCHANGED <<jam, berlaku, ubah, barisKe, pesan, pengiriman, rusak>>

\* The number of failures counts up to the last backoff.
KaliGagal(n) == IF n < Len(Mundur) THEN n ELSE Len(Mundur) - 1

\* nextAttemptAt counts from the start of the cycle.
UpayaBerikut(w) ==
    lok[w].now +
        CASE lok[w].galat = "BAD_RECIPIENT" -> Jarak
          [] lok[w].galat = "CONFIGURATION" -> MundurAtur
          [] lok[w].galat = "LAIN" -> Mundur[lok[w].lihat.gagal + 1]

\* markFailure.
Gagal(w) ==
    /\ lok[w].pc = "gagal"
    /\ baris' = IF Memegang(w, lok[w].lihat.id)
                THEN [baris EXCEPT !.kirim = UpayaBerikut(w), !.gagal = KaliGagal(@ + 1),
                                   !.kunci = Kosong, !.sampai = 0]
                ELSE baris
    /\ Usai(w)
    /\ UNCHANGED <<jam, berlaku, ubah, barisKe, pesan, pengiriman, rusak>>

(***************************************************************************)
(* The instance stops, or an error leaves processOne or reconcile: the     *)
(* cycle is over, the row stays as it is.                                  *)
(***************************************************************************)
Berhenti(w) ==
    /\ lok[w].pc # "istirahat"
    /\ Rusak
    /\ Usai(w)
    /\ UNCHANGED <<jam, berlaku, ubah, baris, barisKe, pesan, pengiriman>>

Siklus(w) ==
    \/ Mulai(w) \/ BacaTugas(w) \/ BacaPengingat(w) \/ Selaraskan(w)
    \/ CariJatuhTempo(w) \/ Klaim(w) \/ BacaKlaim(w) \/ Lepas(w)
    \/ Kirim(w) \/ Ditolak(w) \/ Jawaban(w) \/ Gangguan(w)
    \/ Catat(w) \/ Jadwalkan(w) \/ Gagal(w)
=============================================================================
