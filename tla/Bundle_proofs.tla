---------------------------- MODULE Bundle_proofs ----------------------------
(***************************************************************************)
(* Proofs about Bundle, for any number of bundles, secrets, rewrites and   *)
(* damages: types, that what opens is what was sealed, and that what the   *)
(* disk has kept can be restored.                                          *)
(***************************************************************************)
EXTENDS Bundle, TLAPS

\* Bundle n as seal_bundle made it, and the ciphertext in it.
Original(n) == SealBundle(n, sealed[n].payload, sealed[n].pass, sealed[n].code)

\* A backup finds a file unchanged at its second reading, unless it was rewritten
\* since the first.
JobOK ==
    /\ job.pc # "idle" =>
          /\ job.pass \in Secrets /\ job.code \in Secrets
          /\ job.manifest["volume"] \in Texts
          /\ job.files["volume"] = job.manifest["volume"]
    /\ job.pc \in {"hash_compose", "add_compose", "add_env", "seal"} =>
          job.manifest["env"] \in Texts
    /\ Between("env") /\ ~job.skewed => job.manifest["env"] = disk["env"]
    /\ job.pc \in {"add_compose", "add_env", "seal"} => job.manifest["compose"] \in Texts
    /\ Between("compose") /\ ~job.skewed => job.manifest["compose"] = disk["compose"]
    /\ job.pc \in {"add_env", "seal"} =>
          /\ job.files["compose"] \in Texts
          /\ ~job.skewed => job.files["compose"] = job.manifest["compose"]
    /\ job.pc = "seal" =>
          /\ job.files["env"] \in Texts
          /\ ~job.skewed => job.files["env"] = job.manifest["env"]

\* Damage makes no ciphertext: those in the files were sealed.
BodiesSealed ==
    \A n \in Seals : files[n] # None =>
        \/ files[n].body = Bad
        \/ \E m \in Seals : sealed[m] # None /\ files[n].body = Original(m).body

BundleInv ==
    /\ TypeOK
    /\ JobOK
    /\ \A n \in Seals : files[n] = None <=> sealed[n] = None
    /\ \A n \in Seals : sealed[n] # None /\ ~sealed[n].skewed => Validates(sealed[n].payload)
    /\ \A n \in intact : sealed[n] # None /\ files[n] = Original(n)
    /\ BodiesSealed

-----------------------------------------------------------------------------
(* Types.                                                                  *)

LEMMA SealType ==
    ASSUME NEW n \in Seals, NEW payload \in Payload, NEW pass \in Secrets,
           NEW code \in Secrets
    PROVE  SealBundle(n, payload, pass, code) \in File
<1>1. /\ WrapSlot("passphrase", pass, n) \in Slot
      /\ WrapSlot("recovery", code, n) \in Slot
    BY DEF WrapSlot, Slot, WrappedDek, Kek, SlotTypes, Costs
<1>2. SealedHeader(n, pass, code) \in Header
    BY <1>1 DEF SealedHeader, Header, Costs, Lengths
<1> QED BY <1>2 DEF SealBundle, File, Ciphertext, Lengths

LEMMA DamagedSlotType ==
    ASSUME NEW slot \in Slot, NEW x \in DamagedSlot(slot)
    PROVE  x \in Slot
BY DEF DamagedSlot, Slot

LEMMA DamagedSlotsType ==
    ASSUME NEW s \in Seq(Slot), s # <<>>, NEW t \in Seq(Slot), NEW x \in DamagedSlots(s, t)
    PROVE  x \in Seq(Slot) \cup {Bad}
<1>1. ASSUME NEW y \in Slot, NEW z \in OneOf(s, y) PROVE z \in Seq(Slot)
    BY <1>1 DEF OneOf
<1>2. ASSUME NEW i \in DOMAIN s, NEW y \in DamagedSlot(s[i]) PROVE y \in Slot
    BY <1>2, DamagedSlotType
<1>3. ASSUME NEW i \in DOMAIN t PROVE t[i] \in Slot
    BY <1>3
<1>4. Tail(s) \in Seq(Slot)
    OBVIOUS
<1>5. CASE \E i \in DOMAIN s : \E y \in DamagedSlot(s[i]) : x \in OneOf(s, y)
    BY <1>1, <1>2, <1>5
<1>6. CASE \E i \in DOMAIN t : x \in OneOf(s, t[i])
    <2>1. PICK i \in DOMAIN t : x \in OneOf(s, t[i])
        BY <1>6
    <2> QED BY <1>1, <1>3, <2>1
<1>7. CASE x \in {Bad, <<>>, t} \cup {Tail(s)}
    <2>1. <<>> \in Seq(Slot)
        OBVIOUS
    <2> QED BY <1>4, <1>7, <2>1, Zenon
<1> DEFINE Damages == UNION {OneOf(s, y) : y \in UNION {DamagedSlot(s[i]) : i \in DOMAIN s}}
           Swaps == UNION {OneOf(s, t[i]) : i \in DOMAIN t}
<1>8. x \in Swaps => \E i \in DOMAIN t : x \in OneOf(s, t[i])
    BY Zenon
<1>9. x \in Damages => \E i \in DOMAIN s : \E y \in DamagedSlot(s[i]) : x \in OneOf(s, y)
    BY Zenon
<1>10. DamagedSlots(s, t) = {Bad, <<>>, t} \cup Damages \cup Swaps \cup {Tail(s)}
    BY Zenon DEF DamagedSlots
<1> HIDE DEF Damages, Swaps
<1>11. \/ x \in {Bad, <<>>, t} \cup {Tail(s)} \/ x \in Damages \/ x \in Swaps
    BY <1>10
<1> QED BY <1>5, <1>6, <1>7, <1>8, <1>9, <1>11

LEMMA DamagedHeaderType ==
    ASSUME NEW h \in Header, NEW g \in Header,
           h.slots \notin {Bad, <<>>}, g.slots \notin {Bad, <<>>},
           NEW x \in DamagedHeader(h, g)
    PROVE  x \in Header
<1>1. ASSUME NEW s \in DamagedSlots(h.slots, g.slots) PROVE s \in Seq(Slot) \cup {Bad}
    BY <1>1, DamagedSlotsType DEF Header
<1> QED BY <1>1 DEF DamagedHeader, Header

LEMMA DamagedType ==
    ASSUME NEW f \in File, NEW g \in File, Readable(f), Readable(g),
           NEW x \in Damaged(f, g)
    PROVE  x \in File /\ x.body \in {Bad, f.body, g.body}
<1>1. ASSUME NEW h \in DamagedHeader(f.header, g.header) PROVE h \in Header
    BY <1>1, DamagedHeaderType DEF Readable, File
<1> QED BY <1>1 DEF Damaged, File

-----------------------------------------------------------------------------
(* The invariant.                                                          *)

LEMMA InitInv == Init => BundleInv
BY BundleAssumption
   DEF Init, BundleInv, TypeOK, JobOK, Between, BodiesSealed, NoJob, NoFiles, Job, Steps, Snapshot

LEMMA StepInv == BundleInv /\ [Next]_vars => BundleInv'
<1> SUFFICES ASSUME BundleInv, [Next]_vars PROVE BundleInv'
    OBVIOUS
<1>0. TypeOK /\ JobOK /\ BodiesSealed
    BY DEF BundleInv
<1>1. CASE UNCHANGED vars
    BY <1>1 DEF vars, BundleInv, TypeOK, JobOK, Between, BodiesSealed, Original
<1> DEFINE StoresKept == UNCHANGED <<files, sealed, intact, damages>>
<1>2. ASSUME StoresKept, disk' \in Snapshot, job' \in Job, rewrites' \in 0..MaxRewrites, JobOK'
      PROVE  BundleInv'
    BY <1>2 DEF BundleInv, TypeOK, BodiesSealed, Original
<1>3. ASSUME NEW pass \in Secrets, NEW code \in Secrets, Begin(pass, code)
      PROVE  BundleInv'
    <2>1. JobOK' /\ job' \in Job
        BY <1>0, <1>3 DEF Begin, JobOK, Between, TypeOK, NoJob, NoFiles, Job, Steps, Snapshot, Parts
    <2> QED BY <1>0, <1>2, <1>3, <2>1 DEF Begin, TypeOK
<1>4. CASE Hash("env", "hash_env", "hash_compose")
    <2>1. job.pc = "hash_env" /\ disk' = disk /\ StoresKept /\ UNCHANGED rewrites
          /\ job' = [job EXCEPT !.pc = "hash_compose", !.manifest["env"] = disk["env"]]
        BY <1>4 DEF Hash
    <2>2. job \in Job /\ disk["env"] \in Texts
        BY <1>0 DEF TypeOK, Snapshot, Parts
    <2>3. job' \in Job
        BY <2>1, <2>2 DEF Job, Steps
    <2>4. /\ job'.pc = "hash_compose" /\ job'.manifest["env"] = disk["env"]
          /\ job'.pass = job.pass /\ job'.code = job.code /\ job'.skewed = job.skewed
          /\ job'.files = job.files
        BY <2>1, <2>2 DEF Job, Parts
    <2>5. \A q \in Parts : q # "env" => job'.manifest[q] = job.manifest[q]
        BY <2>1, <2>2 DEF Job
    <2>6. JobOK'
        BY <1>0, <2>1, <2>2, <2>4, <2>5 DEF JobOK, Between, Parts
    <2> QED BY <1>0, <1>2, <2>1, <2>3, <2>6 DEF TypeOK
<1>5. CASE Hash("compose", "hash_compose", "add_compose")
    <2>1. job.pc = "hash_compose" /\ disk' = disk /\ StoresKept /\ UNCHANGED rewrites
          /\ job' = [job EXCEPT !.pc = "add_compose", !.manifest["compose"] = disk["compose"]]
        BY <1>5 DEF Hash
    <2>2. job \in Job /\ disk["compose"] \in Texts
        BY <1>0 DEF TypeOK, Snapshot, Parts
    <2>3. job' \in Job
        BY <2>1, <2>2 DEF Job, Steps
    <2>4. /\ job'.pc = "add_compose" /\ job'.manifest["compose"] = disk["compose"]
          /\ job'.pass = job.pass /\ job'.code = job.code /\ job'.skewed = job.skewed
          /\ job'.files = job.files
        BY <2>1, <2>2 DEF Job, Parts
    <2>5. \A q \in Parts : q # "compose" => job'.manifest[q] = job.manifest[q]
        BY <2>1, <2>2 DEF Job
    <2>6. JobOK'
        BY <1>0, <2>1, <2>2, <2>4, <2>5 DEF JobOK, Between, Parts
    <2> QED BY <1>0, <1>2, <2>1, <2>3, <2>6 DEF TypeOK
<1>6. CASE Add("compose", "add_compose", "add_env")
    <2>1. job.pc = "add_compose" /\ disk' = disk /\ StoresKept /\ UNCHANGED rewrites
          /\ job' = [job EXCEPT !.pc = "add_env", !.files["compose"] = disk["compose"]]
        BY <1>6 DEF Add
    <2>2. job \in Job /\ disk["compose"] \in Texts
        BY <1>0 DEF TypeOK, Snapshot, Parts
    <2>3. job' \in Job
        BY <2>1, <2>2 DEF Job, Steps
    <2>4. /\ job'.pc = "add_env" /\ job'.files["compose"] = disk["compose"]
          /\ job'.pass = job.pass /\ job'.code = job.code /\ job'.skewed = job.skewed
          /\ job'.manifest = job.manifest
        BY <2>1, <2>2 DEF Job, Parts
    <2>5. \A q \in Parts : q # "compose" => job'.files[q] = job.files[q]
        BY <2>1, <2>2 DEF Job
    <2>6. JobOK'
        BY <1>0, <2>1, <2>2, <2>4, <2>5 DEF JobOK, Between, Parts
    <2> QED BY <1>0, <1>2, <2>1, <2>3, <2>6 DEF TypeOK
<1>7. CASE Add("env", "add_env", "seal")
    <2>1. job.pc = "add_env" /\ disk' = disk /\ StoresKept /\ UNCHANGED rewrites
          /\ job' = [job EXCEPT !.pc = "seal", !.files["env"] = disk["env"]]
        BY <1>7 DEF Add
    <2>2. job \in Job /\ disk["env"] \in Texts
        BY <1>0 DEF TypeOK, Snapshot, Parts
    <2>3. job' \in Job
        BY <2>1, <2>2 DEF Job, Steps
    <2>4. /\ job'.pc = "seal" /\ job'.files["env"] = disk["env"]
          /\ job'.pass = job.pass /\ job'.code = job.code /\ job'.skewed = job.skewed
          /\ job'.manifest = job.manifest
        BY <2>1, <2>2 DEF Job, Parts
    <2>5. \A q \in Parts : q # "env" => job'.files[q] = job.files[q]
        BY <2>1, <2>2 DEF Job
    <2>6. JobOK'
        BY <1>0, <2>1, <2>2, <2>4, <2>5 DEF JobOK, Between, Parts
    <2> QED BY <1>0, <1>2, <2>1, <2>3, <2>6 DEF TypeOK
<1>8. ASSUME NEW p \in Parts, NEW text \in Texts, Rewrite(p, text)
      PROVE  BundleInv'
    <2>1. JobOK' /\ job' \in Job
        BY <1>0, <1>8 DEF Rewrite, JobOK, Between, TypeOK, Job, Snapshot, Parts
    <2>2. disk' \in Snapshot /\ rewrites' \in 0..MaxRewrites
        BY <1>0, <1>8, BundleAssumption DEF Rewrite, TypeOK, Snapshot
    <2> QED BY <1>2, <1>8, <2>1, <2>2 DEF Rewrite
<1>9. ASSUME NEW n \in Seals, WriteBundle(n)
      PROVE  BundleInv'
    <2> DEFINE payload == [manifest |-> job.manifest, files |-> job.files]
    <2>1. /\ job.pass \in Secrets /\ job.code \in Secrets
          /\ payload \in Payload
          /\ ~job.skewed => Validates(payload)
        BY <1>0, <1>9 DEF WriteBundle, JobOK, TypeOK, Job, Payload, Snapshot, Parts, Validates
    <2>2. /\ files' = [files EXCEPT ![n] = SealBundle(n, payload, job.pass, job.code)]
          /\ sealed' = [sealed EXCEPT ![n] = [payload |-> payload, pass |-> job.pass,
                                              code |-> job.code, skewed |-> job.skewed]]
          /\ intact' = intact \cup {n} /\ files[n] = None
          /\ UNCHANGED <<disk, rewrites, damages>> /\ job' = NoJob
        BY <1>9 DEF WriteBundle
    <2>3. SealBundle(n, payload, job.pass, job.code) \in File
        BY <2>1, SealType
    <2>4. sealed'[n] \in Sealing /\ sealed'[n] # None /\ files'[n] # None
        BY <1>0, <2>1, <2>2, <2>3, BundleAssumption DEF TypeOK, Sealing, Job
    <2>5. TypeOK'
        BY <1>0, <2>2, <2>3, <2>4 DEF TypeOK, Job, NoJob, NoFiles, Steps
    <2>6. JobOK'
        BY <2>2 DEF JobOK, Between, NoJob
    <2>7. files'[n] = Original(n)'
        BY <1>0, <2>2 DEF TypeOK, Original
    <2>8. ASSUME NEW m \in Seals, m # n
          PROVE  files'[m] = files[m] /\ sealed'[m] = sealed[m] /\ Original(m)' = Original(m)
        BY <1>0, <2>2, <2>8 DEF TypeOK, Original
    <2>9. BodiesSealed'
        <3> SUFFICES ASSUME NEW m \in Seals, files'[m] # None, files'[m].body # Bad
                     PROVE  \E k \in Seals : sealed'[k] # None /\ files'[m].body = Original(k)'.body
            BY DEF BodiesSealed
        <3>1. CASE m = n
            BY <2>4, <2>7, <3>1
        <3>2. CASE m # n
            <4>1. PICK k \in Seals : sealed[k] # None /\ files[m].body = Original(k).body
                BY <1>0, <2>8, <3>2 DEF BodiesSealed
            <4>2. k # n
                BY <2>2, <4>1 DEF BundleInv
            <4> QED BY <2>8, <3>2, <4>1, <4>2
        <3> QED BY <3>1, <3>2
    <2>10. \A m \in Seals : files'[m] = None <=> sealed'[m] = None
        BY <2>4, <2>8 DEF BundleInv
    <2>11. \A m \in Seals : sealed'[m] # None /\ ~sealed'[m].skewed => Validates(sealed'[m].payload)
        <3>1. sealed'[n].payload = payload /\ sealed'[n].skewed = job.skewed
            BY <1>0, <2>2 DEF TypeOK
        <3> QED BY <2>1, <2>8, <3>1 DEF BundleInv
    <2>12. \A m \in intact' : sealed'[m] # None /\ files'[m] = Original(m)'
        BY <1>0, <2>2, <2>4, <2>7, <2>8 DEF BundleInv, TypeOK
    <2> QED BY <2>5, <2>6, <2>9, <2>10, <2>11, <2>12 DEF BundleInv
<1>10. ASSUME NEW n \in Seals, NEW m \in Seals, Damage(n, m)
      PROVE  BundleInv'
    <2>1. /\ Readable(files[n]) /\ Readable(files[m])
          /\ files[n] \in File /\ files[m] \in File
        BY <1>0, <1>10 DEF Damage, TypeOK, Readable
    <2>2. PICK f \in Damaged(files[n], files[m]) : files' = [files EXCEPT ![n] = f]
        BY <1>10 DEF Damage
    <2>3. f \in File /\ f.body \in {Bad, files[n].body, files[m].body} /\ f # None
        BY <2>1, <2>2, DamagedType, BundleAssumption
    <2>4. UNCHANGED <<disk, job, sealed, rewrites>> /\ intact' = intact \ {n}
        BY <1>10 DEF Damage
    <2>5. damages' \in 0..MaxDamage
        BY <1>0, <1>10, BundleAssumption DEF Damage, TypeOK
    <2>6. TypeOK'
        BY <1>0, <2>2, <2>3, <2>4, <2>5 DEF TypeOK
    <2>7. BodiesSealed'
        BY <1>0, <2>1, <2>2, <2>3, <2>4 DEF BodiesSealed, TypeOK, Original, Readable
    <2>8. JobOK'
        BY <1>0, <2>4 DEF JobOK, Between
    <2>9. \A k \in Seals : files'[k] = None <=> sealed'[k] = None
        BY <1>0, <2>1, <2>2, <2>3, <2>4 DEF BundleInv, TypeOK, Readable
    <2>10. \A k \in intact' : sealed'[k] # None /\ files'[k] = Original(k)'
        BY <1>0, <2>2, <2>4 DEF BundleInv, TypeOK, Original
    <2> QED BY <2>4, <2>6, <2>7, <2>8, <2>9, <2>10 DEF BundleInv
<1> QED BY <1>1, <1>3, <1>4, <1>5, <1>6, <1>7, <1>8, <1>9, <1>10 DEF Next

\* The invariant of every reachable state.
LEMMA Reachable == Spec => []BundleInv
BY InitInv, StepInv, PTL DEF Spec

-----------------------------------------------------------------------------
(* What opens.                                                             *)

\* Every state of a backup, a bundle file and its damage is of its type.
THEOREM TypeCorrect == Spec => []TypeOK
<1>1. BundleInv => TypeOK
    BY DEF BundleInv
<1> QED BY <1>1, Reachable, PTL

LEMMA OpensFaithfullyInv == BundleInv => OpensFaithfully
<1> SUFFICES ASSUME BundleInv, NEW n \in Seals, NEW secret \in Secrets,
                    NEW want \in SlotTypes \cup {None}, files[n] # None,
                    OpenBundle(files[n], secret, want).res = "opened"
             PROVE  LET o == OpenBundle(files[n], secret, want)
                    IN  \E m \in Seals :
                          /\ sealed[m] # None
                          /\ o.payload = sealed[m].payload
                          /\ \/ o.slot = "passphrase" /\ secret = sealed[m].pass
                             \/ o.slot = "recovery" /\ secret = sealed[m].code
                          /\ want \in {None, o.slot}
    BY DEF OpensFaithfully
<1> DEFINE f == files[n]
           ends == {i \in DOMAIN f.header.slots : EndsLoop(f, i, secret, want)}
           first == CHOOSE i \in ends : \A j \in ends : i =< j
           o == OpenBundle(f, secret, want)
<1>1. /\ ends # {} /\ f.header.cost # "absurd"
      /\ o = [res |-> "opened", payload |-> f.body.plain, slot |-> f.header.slots[first].type]
    BY DEF OpenBundle, Rejected
<1>2. PICK i \in ends : TRUE
    BY <1>1
<1>3. f.body # Bad /\ f.body.header = f.header
    BY <1>1, <1>2 DEF EndsLoop, Decrypts
<1>4. PICK m \in Seals : sealed[m] # None /\ f.body = Original(m).body
    BY <1>3 DEF BundleInv, BodiesSealed
<1> DEFINE w1 == WrapSlot("passphrase", sealed[m].pass, m)
           w2 == WrapSlot("recovery", sealed[m].code, m)
<1>5. f.body.plain = sealed[m].payload /\ f.header.slots = <<w1, w2>>
    BY <1>3, <1>4 DEF Original, SealBundle, SealedHeader
<1> HIDE DEF w1, w2
<1>6. ends \subseteq {1, 2} /\ f.header.slots[1] = w1 /\ f.header.slots[2] = w2
    BY <1>5
<1>7. first \in ends
    <2>1. \E j \in ends : \A k \in ends : j =< k
        <3>1. CASE 1 \in ends
            BY <1>6, <3>1
        <3>2. CASE 1 \notin ends
            BY <1>1, <1>6, <3>2
        <3> QED BY <3>1, <3>2
    <2> QED BY <2>1
<1>8. EndsLoop(f, first, secret, want)
    BY <1>7
<1> HIDE DEF f, ends, first
<1>9. CASE first = 1
    <2>1. EndsLoop(f, 1, secret, want) /\ o.slot = w1.type
        BY <1>1, <1>6, <1>8, <1>9
    <2>2. secret = sealed[m].pass /\ want \in {None, "passphrase"} /\ w1.type = "passphrase"
        BY <1>1, <1>6, <2>1 DEF EndsLoop, Unwraps, WrapSlot, w1
    <2>3. o.payload = sealed[m].payload /\ o.slot = "passphrase"
        BY <1>1, <1>5, <2>1, <2>2
    <2> QED BY <1>4, <2>2, <2>3 DEF f
<1>10. CASE first = 2
    <2>1. EndsLoop(f, 2, secret, want) /\ o.slot = w2.type
        BY <1>1, <1>6, <1>8, <1>10
    <2>2. secret = sealed[m].code /\ want \in {None, "recovery"} /\ w2.type = "recovery"
        BY <1>1, <1>6, <2>1 DEF EndsLoop, Unwraps, WrapSlot, w2
    <2>3. o.payload = sealed[m].payload /\ o.slot = "recovery"
        BY <1>1, <1>5, <2>1, <2>2
    <2> QED BY <1>4, <2>2, <2>3 DEF f
<1> QED BY <1>6, <1>7, <1>9, <1>10 DEF f

\* For any number of bundles, however often the disk damages and mixes them: a
\* payload that opens was sealed, as a whole, under that secret in that slot.
THEOREM DamageNeverOpens == Spec => []OpensFaithfully
BY OpensFaithfullyInv, Reachable, PTL

LEMMA IntactRestoresInv == BundleInv => IntactRestores
<1> SUFFICES ASSUME BundleInv, NEW n \in intact,
                    NEW secret \in {sealed[n].pass, sealed[n].code}
             PROVE  /\ OpenBundle(files[n], secret, None).payload = sealed[n].payload
                    /\ ~sealed[n].skewed => Restores(files[n], secret)
    BY DEF IntactRestores
<1> DEFINE f == files[n]
           w1 == WrapSlot("passphrase", sealed[n].pass, n)
           w2 == WrapSlot("recovery", sealed[n].code, n)
           ends == {i \in DOMAIN f.header.slots : EndsLoop(f, i, secret, None)}
<1>1. n \in Seals /\ sealed[n] # None /\ f = Original(n)
    BY DEF BundleInv, TypeOK
<1>2. /\ f.frame = "whole" /\ f.length = 1
      /\ f.header = SealedHeader(n, sealed[n].pass, sealed[n].code)
      /\ f.body = [dek |-> n, nonce |-> n, plain |-> sealed[n].payload, header |-> f.header]
    BY <1>1 DEF Original, SealBundle
<1>3. /\ f.header.format = "supported" /\ f.header.cost = "default"
      /\ f.header.length = 1 /\ f.header.nonce = n /\ f.header.slots = <<w1, w2>>
    BY <1>2 DEF SealedHeader
<1>4. sealed[n] \in Sealing /\ f \in File
    BY <1>1 DEF BundleInv, TypeOK
<1>5. f.header # Bad /\ f.body # Bad /\ f.header.slots # Bad
    <2>1. SealBundle(n, sealed[n].payload, sealed[n].pass, sealed[n].code) \in File
        BY <1>1, <1>4, SealType DEF Sealing
    <2>2. w1 \in Slot /\ w2 \in Slot
        BY <1>1, <1>4 DEF WrapSlot, Slot, WrappedDek, Kek, SlotTypes, Costs, Sealing
    <2>3. <<w1, w2>> \in Seq(Slot)
        BY <2>2
    <2>4. f.header \in Header
        BY <1>2, <1>1, <2>3 DEF SealedHeader, Header, Costs, Lengths
    <2>5. f.body \in Ciphertext
        BY <1>1, <1>2, <1>4, <2>4 DEF Ciphertext, Sealing
    <2> QED BY <1>3, <2>3, <2>4, <2>5, BundleAssumption
<1>6. /\ w1.type = "passphrase" /\ w2.type = "recovery"
      /\ WellFormed(w1) /\ WellFormed(w2)
      /\ w1.wrapped.dek = n /\ w2.wrapped.dek = n
    BY <1>1, BundleAssumption, <1>4 DEF WrapSlot, WellFormed, Sealing, WrappedDek, Kek, Costs
<1>7. Parses(f)
    <2>1. f.header.nonce # Bad
        BY <1>1, <1>3, BundleAssumption
    <2>2. f.header.format = "supported" /\ f.header.cost # Bad
        BY <1>3, BundleAssumption DEF Costs
    <2>3. f.header.slots # <<>>
        BY <1>3
    <2>4. \A i \in DOMAIN f.header.slots : f.header.slots[i].type # Bad
        <3> HIDE DEF w1, w2
        <3>1. f.header.slots[1] = w1 /\ f.header.slots[2] = w2 /\ DOMAIN f.header.slots = {1, 2}
            BY <1>3
        <3> QED BY <1>6, <3>1, BundleAssumption DEF SlotTypes
    <2> QED BY <1>2, <1>3, <1>5, <2>1, <2>2, <2>3, <2>4 DEF Parses
<1>8. Decrypts(f, n)
    BY <1>2, <1>3, <1>5 DEF Decrypts
<1>9. \/ Unwraps(w1, secret, "default")
      \/ Unwraps(w2, secret, "default")
    BY DEF Unwraps, WrapSlot
<1> HIDE DEF w1, w2
<1>10. f.header.slots[1] = w1 /\ f.header.slots[2] = w2 /\ DOMAIN f.header.slots = {1, 2}
    BY <1>3
<1> HIDE DEF f
<1>11. ends # {}
    BY <1>3, <1>6, <1>8, <1>9, <1>10 DEF EndsLoop
<1>12. /\ OpenBundle(f, secret, None).res = "opened"
       /\ OpenBundle(f, secret, None).payload = f.body.plain
    BY <1>3, <1>7, <1>11 DEF OpenBundle
<1>13. f.body.plain = sealed[n].payload
    BY <1>2
<1> QED BY <1>1, <1>12, <1>13 DEF Restores, f, BundleInv

\* For any number of bundles: one the disk has kept opens with both its secrets,
\* and restore accepts it when no other process rewrote its files during the backup.
THEOREM KeptBundlesRestore == Spec => []IntactRestores
BY IntactRestoresInv, Reachable, PTL
=============================================================================
