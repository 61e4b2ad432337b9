------------------------------- MODULE Bundle -------------------------------
(***************************************************************************)
(* A backup bundle from the files it is made of to the restore that reads  *)
(* it: backup.py:553-607 hashes the files into a manifest and then reads   *)
(* them again into the payload, crypto.py seals the payload, the file lies *)
(* on a disk, and restore opens and validates what it then finds there.    *)
(*                                                                         *)
(* Cryptography is symbolic: a ciphertext is the record of what went into  *)
(* it and yields it to the same key, nonce and associated data only; a key *)
(* derived from a secret is the record of what it was derived from; what   *)
(* seal number n draws at random is n.  A file keeps its fields, each as   *)
(* written, unreadable (Bad), or that of another bundle.                   *)
(***************************************************************************)
EXTENDS Naturals, Sequences

CONSTANTS
    Secrets,        \* passphrases and recovery codes
    Texts,          \* what a file of the instance may hold
    MaxSeals,       \* bound: bundles written
    MaxRewrites,    \* bound: files rewritten by another process during a backup
    MaxDamage,      \* bound: how often the disk damages a bundle
    None, Bad

Seals == 1..MaxSeals
Parts == {"volume", "compose", "env"}
Snapshot == [Parts -> Texts]
Payload == [manifest: Snapshot, files: Snapshot]
Sealing == [payload: Payload, pass: Secrets, code: Secrets, skewed: BOOLEAN]

SlotTypes == {"passphrase", "recovery"}
\* Argon2 parameters: those of seal_bundle, ones argon2 takes, ones it refuses.
Costs == {"default", "other", "absurd"}
\* The length of a ciphertext: less than a tag, as sealed, longer.
Lengths == 0..2

Kek == [secret: Secrets, salt: Seals, cost: Costs]
WrappedDek == [kek: Kek, nonce: Seals, dek: Seals]
Slot == [type: SlotTypes \cup {Bad}, salt: Seals \cup {Bad}, nonce: Seals \cup {Bad},
         wrapped: WrappedDek \cup {Bad}]
Header == [format: {"supported", Bad}, cost: Costs \cup {Bad}, length: Lengths,
           nonce: Seals \cup {Bad}, slots: Seq(Slot) \cup {Bad}]
Ciphertext == [dek: Seals, nonce: Seals, plain: Payload, header: Header]
File == [frame: {"whole", Bad}, header: Header \cup {Bad}, length: Lengths,
         body: Ciphertext \cup {Bad}]

VARIABLES
    disk,       \* the files of the instance
    job,        \* the backup that is building a payload
    files,      \* the bundle files
    sealed,     \* history: what each was made of
    intact,     \* history: those the disk has not damaged
    rewrites, damages

vars == <<disk, job, files, sealed, intact, rewrites, damages>>

Steps == {"idle", "hash_env", "hash_compose", "add_compose", "add_env", "seal"}
NoFiles == [p \in Parts |-> None]
Job == [pc: Steps, pass: Secrets \cup {None}, code: Secrets \cup {None},
        manifest: [Parts -> Texts \cup {None}], files: [Parts -> Texts \cup {None}],
        skewed: BOOLEAN]
NoJob == [pc |-> "idle", pass |-> None, code |-> None, manifest |-> NoFiles,
          files |-> NoFiles, skewed |-> FALSE]

ASSUME BundleAssumption ==
    /\ MaxSeals \in Nat /\ MaxRewrites \in Nat /\ MaxDamage \in Nat
    /\ Bad \notin Seals /\ Bad \notin WrappedDek /\ Bad \notin Header
    /\ Bad \notin Ciphertext /\ Bad \notin Seq(Slot)
    /\ Bad \notin SlotTypes \cup Costs \cup {"supported", "whole"}
    /\ None \notin Secrets /\ None \notin Texts /\ None \notin SlotTypes
    /\ None \notin File /\ None \notin Sealing

TypeOK ==
    /\ disk \in Snapshot
    /\ job \in Job
    /\ files \in [Seals -> File \cup {None}]
    /\ sealed \in [Seals -> Sealing \cup {None}]
    /\ intact \subseteq Seals
    /\ rewrites \in 0..MaxRewrites /\ damages \in 0..MaxDamage

-----------------------------------------------------------------------------
(* seal_bundle.                                                            *)

WrapSlot(type, secret, n) ==
    [type |-> type, salt |-> n, nonce |-> n,
     wrapped |-> [kek |-> [secret |-> secret, salt |-> n, cost |-> "default"],
                  nonce |-> n, dek |-> n]]

SealedHeader(n, pass, code) ==
    [format |-> "supported", cost |-> "default", length |-> 1, nonce |-> n,
     slots |-> <<WrapSlot("passphrase", pass, n), WrapSlot("recovery", code, n)>>]

SealBundle(n, payload, pass, code) ==
    [frame |-> "whole", header |-> SealedHeader(n, pass, code), length |-> 1,
     body |-> [dek |-> n, nonce |-> n, plain |-> payload,
               header |-> SealedHeader(n, pass, code)]]

-----------------------------------------------------------------------------
(* open_bundle.                                                            *)

\* _parse_frame, _parse_header and the checks of open_bundle before its loop.
Parses(f) ==
    /\ f.frame = "whole" /\ f.header # Bad
    /\ f.header.format = "supported" /\ f.header.cost # Bad
    /\ f.header.slots # Bad /\ f.header.slots # <<>>
    /\ \A i \in DOMAIN f.header.slots : f.header.slots[i].type # Bad
    /\ f.header.length > 0 /\ f.header.length = f.length
    /\ f.header.nonce # Bad

WellFormed(slot) == slot.salt # Bad /\ slot.nonce # Bad /\ slot.wrapped # Bad

\* _unwrap_slot: the key derived from the secret opens the wrapped key.
Unwraps(slot, secret, cost) ==
    /\ slot.wrapped.kek = [secret |-> secret, salt |-> slot.salt, cost |-> cost]
    /\ slot.wrapped.nonce = slot.nonce

\* Fault: the header is not authenticated with the payload.
DecryptsUnbound(f, dek) ==
    /\ f.body # Bad
    /\ f.body.dek = dek /\ f.body.nonce = f.header.nonce

Decrypts(f, dek) ==
    /\ f.body # Bad
    /\ f.body.dek = dek /\ f.body.nonce = f.header.nonce /\ f.body.header = f.header

\* Fault: the first slot that does not open ends the search.
EndsLoopAtFirst(f, i, secret, want) ==
    LET slot == f.header.slots[i]
    IN  /\ i = 1
        /\ want \in {None, slot.type}
        /\ WellFormed(slot)
        /\ \/ f.header.cost = "absurd"
           \/ Unwraps(slot, secret, f.header.cost) /\ Decrypts(f, slot.wrapped.dek)

\* The slots at which the loop ends: the payload comes out, or argon2 raises an
\* error the loop does not catch.  At any other slot it goes on to the next.
EndsLoop(f, i, secret, want) ==
    LET slot == f.header.slots[i]
    IN  /\ want \in {None, slot.type}
        /\ WellFormed(slot)
        /\ \/ f.header.cost = "absurd"
           \/ Unwraps(slot, secret, f.header.cost) /\ Decrypts(f, slot.wrapped.dek)

Rejected(why) == [res |-> why, payload |-> None, slot |-> None]

OpenBundle(f, secret, want) ==
    LET ends == {i \in DOMAIN f.header.slots : EndsLoop(f, i, secret, want)}
        first == CHOOSE i \in ends : \A j \in ends : i =< j
    IN  IF ~Parses(f) THEN Rejected("format")
        ELSE IF ends = {} THEN Rejected("authentication")
        ELSE IF f.header.cost = "absurd" THEN Rejected("argon2")
        ELSE [res |-> "opened", payload |-> f.body.plain,
              slot |-> f.header.slots[first].type]

\* _validate_manifest: each file has the checksum and the size in the manifest.
Validates(payload) == \A p \in Parts : payload.files[p] = payload.manifest[p]

\* restore_instance up to its first effect.
Restores(f, secret) ==
    LET opened == OpenBundle(f, secret, None)
    IN  opened.res = "opened" /\ Validates(opened.payload)

-----------------------------------------------------------------------------
(* backup_instance, from the captured volume to the written bundle.        *)

Init ==
    /\ \E text \in Texts : disk = [p \in Parts |-> text]
    /\ job = NoJob
    /\ files = [n \in Seals |-> None]
    /\ sealed = [n \in Seals |-> None]
    /\ intact = {}
    /\ rewrites = 0 /\ damages = 0

\* The volume is captured into a directory of the backup's own, and so has one
\* content; the manifest reads .env first, then docker-compose.yml.
Begin(pass, code) ==
    /\ job.pc = "idle"
    /\ \E n \in Seals : files[n] = None
    /\ job' = [NoJob EXCEPT !.pc = "hash_env", !.pass = pass, !.code = code,
                            !.manifest["volume"] = disk["volume"],
                            !.files["volume"] = disk["volume"]]
    /\ UNCHANGED <<disk, files, sealed, intact, rewrites, damages>>

Hash(p, step, next) ==
    /\ job.pc = step
    /\ job' = [job EXCEPT !.pc = next, !.manifest[p] = disk[p]]
    /\ UNCHANGED <<disk, files, sealed, intact, rewrites, damages>>

\* Fault: the archive has no .env.
AddMissing(p, step, next) ==
    /\ job.pc = step
    /\ job' = IF p = "env" THEN [job EXCEPT !.pc = next]
              ELSE [job EXCEPT !.pc = next, !.files[p] = disk[p]]
    /\ UNCHANGED <<disk, files, sealed, intact, rewrites, damages>>

\* archive.add reads the file a second time.
Add(p, step, next) ==
    /\ job.pc = step
    /\ job' = [job EXCEPT !.pc = next, !.files[p] = disk[p]]
    /\ UNCHANGED <<disk, files, sealed, intact, rewrites, damages>>

WriteBundle(n) ==
    LET payload == [manifest |-> job.manifest, files |-> job.files]
    IN  /\ job.pc = "seal"
        /\ files[n] = None
        /\ files' = [files EXCEPT ![n] = SealBundle(n, payload, job.pass, job.code)]
        /\ sealed' = [sealed EXCEPT ![n] = [payload |-> payload, pass |-> job.pass,
                                            code |-> job.code, skewed |-> job.skewed]]
        /\ intact' = intact \cup {n}
        /\ job' = NoJob
        /\ UNCHANGED <<disk, rewrites, damages>>

\* Between its two readings of file p: hashed, but not archived.
Between(p) ==
    \/ p = "env" /\ job.pc \in {"hash_compose", "add_compose", "add_env"}
    \/ p = "compose" /\ job.pc = "add_compose"

\* `up` or `restore` in another terminal rewrites a file of the instance, n8n its
\* volume; of that the backup has its copy.
Rewrite(p, text) ==
    /\ rewrites < MaxRewrites
    /\ rewrites' = rewrites + 1
    /\ disk' = [disk EXCEPT ![p] = text]
    /\ job' = [job EXCEPT !.skewed = @ \/ Between(p)]
    /\ UNCHANGED <<files, sealed, intact, damages>>

-----------------------------------------------------------------------------
(* The disk.                                                               *)

OneOf(seq, x) == {[seq EXCEPT ![i] = x] : i \in DOMAIN seq}

DamagedSlot(slot) ==
    {[slot EXCEPT !.type = x] : x \in SlotTypes \cup {Bad}}
    \cup {[slot EXCEPT !.salt = x] : x \in Seals \cup {Bad}}
    \cup {[slot EXCEPT !.nonce = x] : x \in Seals \cup {Bad}}
    \cup {[slot EXCEPT !.wrapped = Bad]}

\* Slots lost, doubled, damaged, or those of another bundle.
DamagedSlots(s, other) ==
    {Bad, <<>>, other}
    \cup (UNION {OneOf(s, x) : x \in UNION {DamagedSlot(s[i]) : i \in DOMAIN s}})
    \cup (UNION {OneOf(s, other[i]) : i \in DOMAIN other})
    \cup {Tail(s)}

DamagedHeader(h, other) ==
    {[h EXCEPT !.format = Bad], other}
    \cup {[h EXCEPT !.cost = x] : x \in Costs \cup {Bad}}
    \cup {[h EXCEPT !.length = x] : x \in Lengths}
    \cup {[h EXCEPT !.nonce = x] : x \in Seals \cup {Bad}}
    \cup {[h EXCEPT !.slots = x] : x \in DamagedSlots(h.slots, other.slots)}

\* A file that ends early, goes on too long, or has a field changed.
Damaged(f, other) ==
    {[f EXCEPT !.frame = Bad], [f EXCEPT !.header = Bad]}
    \cup {[f EXCEPT !.length = x, !.body = Bad] : x \in Lengths}
    \cup {[f EXCEPT !.body = x] : x \in {Bad, other.body}}
    \cup {[f EXCEPT !.header = x] : x \in DamagedHeader(f.header, other.header)}

Readable(f) == f # None /\ f.header # Bad /\ f.header.slots \notin {Bad, <<>>}

Damage(n, m) ==
    /\ damages < MaxDamage
    /\ Readable(files[n]) /\ Readable(files[m])
    /\ damages' = damages + 1
    /\ files' \in {[files EXCEPT ![n] = f] : f \in Damaged(files[n], files[m])}
    /\ intact' = intact \ {n}
    /\ UNCHANGED <<disk, job, sealed, rewrites>>

Next ==
    \/ \E pass, code \in Secrets : Begin(pass, code)
    \/ Hash("env", "hash_env", "hash_compose")
    \/ Hash("compose", "hash_compose", "add_compose")
    \/ Add("compose", "add_compose", "add_env")
    \/ Add("env", "add_env", "seal")
    \/ \E n \in Seals : WriteBundle(n)
    \/ \E p \in Parts, text \in Texts : Rewrite(p, text)
    \/ \E n, m \in Seals : Damage(n, m)

Spec == Init /\ [][Next]_vars
-----------------------------------------------------------------------------
(* Properties.                                                             *)

\* Whatever has become of a bundle file, a payload that open_bundle returns is
\* one that was sealed, whole, and the secret is the one that was sealed for the
\* slot it reports and the caller asked for (crypto.py:117-126): no damage and no
\* mixture of two bundles yields another payload or another kind of secret.
OpensFaithfully ==
    \A n \in Seals, secret \in Secrets, want \in SlotTypes \cup {None} :
        files[n] # None =>
            LET o == OpenBundle(files[n], secret, want)
            IN  o.res = "opened" =>
                  \E m \in Seals :
                    /\ sealed[m] # None
                    /\ o.payload = sealed[m].payload
                    /\ \/ o.slot = "passphrase" /\ secret = sealed[m].pass
                       \/ o.slot = "recovery" /\ secret = sealed[m].code
                    /\ want \in {None, o.slot}

\* A bundle the disk has kept opens with either of its two secrets, and restore
\* accepts it unless another process rewrote a file between the backup's two readings
\* of that very file (backup.py:562 and 574-577); a rewrite before it is hashed or
\* after it is archived is harmless.
IntactRestores ==
    \A n \in intact :
        \A secret \in {sealed[n].pass, sealed[n].code} :
            /\ OpenBundle(files[n], secret, None).payload = sealed[n].payload
            /\ ~sealed[n].skewed => Restores(files[n], secret)
=============================================================================
