-------------------------- MODULE PengirimanBerkala --------------------------
(***************************************************************************)
(* What the reminders promise a recipient: for one reminder, a message     *)
(* comes no sooner than Jarak after each one before it, unless the         *)
(* provider reported at least JarakTolak ago that it had refused one.      *)
(***************************************************************************)
EXTENDS Naturals

CONSTANTS
    Jarak,          \* WHATSAPP_REMINDER_INTERVAL_MINUTES
    JarakTolak      \* GENERIC_REJECTION_RETRY_DELAY_MS

VARIABLES
    jam,            \* the time
    pesan,          \* pesan[<<r, n>>]: when message n of reminder r was sent
    tolak           \* <<r, t>>: a refusal of a message of r was reported at t

vars == <<jam, pesan, tolak>>

Init == jam = 1 /\ pesan = <<>> /\ tolak = {}

Boleh(r) ==
    \/ \E t \in tolak : t[1] = r /\ jam >= t[2] + JarakTolak
    \/ \A k \in DOMAIN pesan : k[1] = r => jam >= pesan[k] + Jarak

Kirim(k) ==
    /\ k \notin DOMAIN pesan
    /\ Boleh(k[1])
    /\ pesan' = [x \in DOMAIN pesan \cup {k} |-> IF x = k THEN jam ELSE pesan[x]]
    /\ UNCHANGED <<jam, tolak>>

Tolak(k) ==
    /\ tolak' = tolak \cup {<<k[1], jam>>}
    /\ UNCHANGED <<jam, pesan>>

Detik == jam' = jam + 1 /\ UNCHANGED <<pesan, tolak>>

Next ==
    \/ Detik
    \/ \E k \in (DOMAIN pesan') \ DOMAIN pesan : Kirim(k)
    \/ \E k \in DOMAIN pesan : Tolak(k)

Spec == Init /\ [][Next]_vars
=============================================================================
