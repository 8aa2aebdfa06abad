---------------------------- MODULE GatewayProofs ----------------------------
(***************************************************************************)
(* Proof that all processes that serve have the same keys, the stored and   *)
(* published ones, for any number of processes, keys and crashes and        *)
(* whatever requests are answered meanwhile.                                *)
(***************************************************************************)
EXTENDS Gateway, TLAPS

\* The secret is there with both keys or not at all, and nothing else is published.
StoredInv ==
    /\ secret.exists <=> secret.access # 0
    /\ secret.exists <=> secret.refresh # 0
    /\ published # 0 => published = secret.access

HasStored(p) ==
    /\ secret.exists
    /\ procs[p].access = secret.access /\ procs[p].refresh = secret.refresh

(***************************************************************************)
(* A process that read the secret before it was there knows nothing of it;  *)
(* its creation fails if the secret is there by then.  One that read it     *)
(* there, or created it, has the keys in it, which nobody changes.          *)
(***************************************************************************)
ProcessInv(p) ==
    /\ At(p, "write keys") /\ procs[p].found =>
          HasStored(p) /\ procs[p].old.access # 0 /\ procs[p].old.refresh # 0
    /\ At(p, "write keys") /\ ~procs[p].found =>
          /\ procs[p].old.access = 0 /\ procs[p].old.refresh = 0
          /\ procs[p].access # 0 /\ procs[p].refresh # 0
    /\ procs[p].step \in {"read public", "write public", "serve"} => HasStored(p)
    /\ procs[p].step = "serve" => published = procs[p].access
    /\ Serving(p) => HasStored(p) /\ published = procs[p].access

KeysInv ==
    /\ StartupTypeOK
    /\ whole => StoredInv /\ \A p \in Procs : ProcessInv(p)

\* What a process does to the keys: the other processes keep theirs.
Step(p) == Advance(p) \/ Crash(p)

\* What reading a process gives, field by field.
LEMMA DownTyped == Down \in Process /\ Down.old \in Secret
<1>1. 0 \in Keys /\ 1 \in Roles
    BY StartupAssumption DEF Keys, Roles
<1>2. QED
    BY <1>1 DEF Down, Process, Secret

\* A process that moves leaves every other one as it is.
LEMMA Moves ==
    ASSUME procs \in [Procs -> Process], NEW p \in Procs, NEW process \in Process, Move(p, process)
    PROVE  /\ procs' \in [Procs -> Process]
           /\ procs'[p] = process
           /\ \A q \in Procs : q # p => procs'[q] = procs[q]
BY DEF Move

\* The processes start with the secret as an earlier version left it.
LEMMA KeysStart == Init => KeysInv
<1> SUFFICES ASSUME Init PROVE KeysInv
    OBVIOUS
<1>1. {0, 1, 2} \subseteq Keys /\ 0 \in 0 .. MaxCrashes
    BY StartupAssumption DEF Keys
<1>s. \/ secret = [exists |-> FALSE, access |-> 0, refresh |-> 0]
      \/ secret = [exists |-> TRUE, access |-> 1, refresh |-> 2]
      \/ secret = [exists |-> TRUE, access |-> 1, refresh |-> 0]
    BY DEF Init, StartupInit
<1>2. secret \in Secret /\ published \in Keys
  <2>1. secret \in Secret
    <3>1. \A exists \in BOOLEAN, access, refresh \in Keys :
              [exists |-> exists, access |-> access, refresh |-> refresh] \in Secret
      BY DEF Secret
    <3>2. 0 \in Keys /\ 1 \in Keys /\ 2 \in Keys
      BY <1>1
    <3>3. QED
      BY <1>s, <3>1, <3>2
  <2>2. published = 0 \/ published = secret.access
    BY DEF Init, StartupInit
  <2>3. QED
    BY <1>1, <2>1, <2>2 DEF Secret
<1>3. procs \in [Procs -> Process]
    BY DownTyped DEF Init, StartupInit
<1>4. generated \in Keys /\ whole \in BOOLEAN /\ crashes \in 0 .. MaxCrashes /\ roles \subseteq Roles
    BY <1>1 DEF Init, StartupInit
<1>5. ASSUME whole PROVE StoredInv /\ \A p \in Procs : ProcessInv(p)
  <2>1. secret.exists => secret.access # 0 /\ secret.refresh # 0
    BY <1>5 DEF Init, StartupInit
  <2>2. published = 0 \/ published = secret.access
    BY DEF Init, StartupInit
  <2>3. StoredInv
    BY <1>s, <2>1, <2>2 DEF StoredInv
  <2>4. ASSUME NEW p \in Procs PROVE ProcessInv(p)
    <3>1. procs[p].step = "down"
      BY <2>4 DEF Init, StartupInit, Down
    <3>2. QED
      BY <3>1 DEF ProcessInv, At, Serving
  <2>5. QED
    BY <2>3, <2>4
<1>6. QED
    BY <1>2, <1>3, <1>4, <1>5 DEF KeysInv, StartupTypeOK

\* Every step keeps the types, and moves no other process.
LEMMA Stepped ==
    ASSUME StartupTypeOK, NEW p \in Procs, Step(p)
    PROVE  StartupTypeOK' /\ \A q \in Procs : q # p => procs'[q] = procs[q]
<1> DEFINE Goal == StartupTypeOK' /\ \A q \in Procs : q # p => procs'[q] = procs[q]
<1>0. /\ procs \in [Procs -> Process] /\ procs[p] \in Process
      /\ secret \in Secret /\ published \in Keys /\ generated \in Keys /\ roles \subseteq Roles
      /\ whole \in BOOLEAN /\ crashes \in 0 .. MaxCrashes
    BY DEF StartupTypeOK
\* It remains to show of each step what it makes of the process, and of what it writes.
<1>1. ASSUME NEW process \in Process, Move(p, process),
             secret' \in Secret, published' \in Keys, generated' \in Keys, roles' \subseteq Roles,
             whole' = whole, crashes' \in 0 .. MaxCrashes
      PROVE  Goal
    BY <1>0, <1>1, Moves DEF StartupTypeOK
<1>2. CASE Boot(p)
  <2>1. [Down EXCEPT !.step = "read keys"] \in Process
    BY DownTyped DEF Process
  <2>2. QED
    BY <1>0, <1>1, <1>2, <2>1 DEF Boot
<1>3. CASE ReadKeys(p)
  <2> DEFINE access  == IF secret.access # 0 THEN secret.access ELSE generated + 1
             fresh   == IF secret.access # 0 THEN generated ELSE generated + 1
             refresh == IF secret.refresh # 0 THEN secret.refresh ELSE fresh + 1
             last    == IF secret.refresh # 0 THEN fresh ELSE fresh + 1
             next    == [procs[p] EXCEPT !.step = "write keys", !.old = secret, !.found = secret.exists,
                                         !.access = access, !.refresh = refresh]
  <2>1. /\ last <= MaxKey /\ Move(p, next) /\ generated' = last
        /\ UNCHANGED <<secret, published, roles, whole, crashes>>
    BY <1>3 DEF ReadKeys
  <2>2. access \in Keys /\ refresh \in Keys /\ last \in Keys
    BY <1>0, <2>1, StartupAssumption DEF Secret, Keys
  <2>3. next \in Process
    <3> HIDE DEF access, refresh, last
    <3> QED
      BY <1>0, <2>2 DEF Process, Secret
  <2> HIDE DEF next, last
  <2>4. QED
    BY <1>0, <1>1, <2>1, <2>2, <2>3
<1>4. CASE WriteKeys(p)
  <2>1. Merged(p) \in Secret
    BY <1>0 DEF Merged, Secret, Process
  <2>2. [procs[p] EXCEPT !.step = "read public", !.old = Down.old, !.found = FALSE] \in Process
    BY <1>0, DownTyped DEF Process
  <2>3. QED
    BY <1>0, <1>1, <1>4, <2>1, <2>2, DownTyped DEF WriteKeys, Exit
<1>5. CASE ReadPublic(p)
  <2>1. [procs[p] EXCEPT !.step = "write public", !.found = published # 0] \in Process
    BY <1>0 DEF Process
  <2>2. QED
    BY <1>0, <1>1, <1>5, <2>1 DEF ReadPublic
<1>6. CASE WritePublic(p)
  <2>1. [procs[p] EXCEPT !.step = "serve", !.found = FALSE] \in Process /\ procs[p].access \in Keys
    BY <1>0 DEF Process
  <2>2. QED
    BY <1>0, <1>1, <1>6, <2>1, DownTyped DEF WritePublic, Exit
<1>7. CASE Listen(p)
  <2>1. [procs[p] EXCEPT !.step = "read role"] \in Process
    BY <1>0 DEF Process
  <2>2. QED
    BY <1>0, <1>1, <1>7, <2>1 DEF Listen
<1>8. CASE ReadRole(p)
  <2>1. ASSUME NEW found \in BOOLEAN
        PROVE  [procs[p] EXCEPT !.step = "write role", !.found = found] \in Process
    BY <1>0 DEF Process
  <2>2. (procs[p].role \in roles) \in BOOLEAN
    OBVIOUS
  <2>3. [procs[p] EXCEPT !.step = "write role", !.found = procs[p].role \in roles] \in Process
    BY <2>1, <2>2
  <2>4. QED
    BY <1>0, <1>1, <1>8, <2>3 DEF ReadRole
<1>9. CASE WriteRole(p)
  <2> DEFINE role == procs[p].role
             next == IF role < 4
                     THEN [procs[p] EXCEPT !.step = "read role", !.found = FALSE, !.role = role + 1]
                     ELSE [procs[p] EXCEPT !.step = "manage", !.found = FALSE]
  <2>1. role \in Roles
    BY <1>0 DEF Process
  <2>2. next \in Process
    <3>1. role < 4 => role + 1 \in Roles
      BY <2>1 DEF Roles
    <3>2. QED
      BY <1>0, <3>1 DEF Process
  <2>3. \/ roles' = roles \cup {role} /\ Move(p, next)
        \/ Exit(p) /\ UNCHANGED roles
    BY <1>9 DEF WriteRole
  <2>4. UNCHANGED <<secret, published, generated, whole, crashes>>
    BY <1>9 DEF WriteRole
  <2> HIDE DEF role, next
  <2>5. QED
    BY <1>0, <1>1, <2>1, <2>2, <2>3, <2>4, DownTyped DEF Exit
<1>10. CASE Crash(p)
  <2>1. crashes' \in 0 .. MaxCrashes
    BY <1>0, <1>10, StartupAssumption DEF Crash
  <2>2. QED
    BY <1>0, <1>1, <1>10, <2>1, DownTyped DEF Crash, Exit
<1>11. QED
    BY <1>2, <1>3, <1>4, <1>5, <1>6, <1>7, <1>8, <1>9, <1>10 DEF Step, Advance

(***************************************************************************)
(* The secret is written once: whoever finds it there writes it back as it  *)
(* is, and whoever did not find it fails if it is there by then.            *)
(***************************************************************************)
LEMMA SecretWrittenOnce ==
    ASSUME KeysInv, whole, NEW p \in Procs, Step(p)
    PROVE  /\ secret.exists => secret' = secret
           /\ StoredInv'
<1>0. ProcessInv(p) /\ StoredInv /\ secret \in Secret /\ procs[p] \in Process
    BY DEF KeysInv, StartupTypeOK
<1>1. CASE WriteKeys(p) /\ procs[p].found
  <2>1. secret' = secret
    <3>1. \/ secret' = Merged(p)
          \/ secret' = secret
      BY <1>1 DEF WriteKeys
    <3>2. /\ secret.exists = TRUE
          /\ procs[p].old.access # 0 /\ procs[p].old.refresh # 0
      BY <1>0, <1>1 DEF WriteKeys, ProcessInv, HasStored, Secret
    <3>3. secret = [exists |-> secret.exists, access |-> secret.access, refresh |-> secret.refresh]
      BY <1>0 DEF Secret
    <3>4. Merged(p) = secret
      BY <3>2, <3>3 DEF Merged
    <3>5. QED
      BY <3>1, <3>4
  <2>2. QED
    BY <1>0, <1>1, <2>1 DEF WriteKeys, StoredInv
<1>2. CASE WriteKeys(p) /\ ~procs[p].found
  <2>1. CASE secret.exists
    BY <1>0, <1>2, <2>1 DEF WriteKeys, StoredInv
  <2>2. CASE ~secret.exists
    <3>1. secret' = Merged(p) /\ published' = published
      BY <1>2, <2>2 DEF WriteKeys
    <3>2. Merged(p) = [exists |-> TRUE, access |-> procs[p].access, refresh |-> procs[p].refresh]
      BY <1>0, <1>2 DEF Merged, WriteKeys, ProcessInv
    <3>3. /\ secret'.exists = TRUE
          /\ secret'.access = procs[p].access /\ secret'.refresh = procs[p].refresh
      BY <3>1, <3>2
    <3>4. procs[p].access # 0 /\ procs[p].refresh # 0
      BY <1>0, <1>2 DEF WriteKeys, ProcessInv
    <3>5. published = 0
      BY <1>0, <2>2 DEF StoredInv
    <3>6. QED
      BY <2>2, <3>1, <3>3, <3>4, <3>5 DEF StoredInv
  <2>3. QED
    BY <2>1, <2>2
<1>3. CASE WritePublic(p)
  <2>1. procs[p].access = secret.access
    BY <1>0, <1>3 DEF WritePublic, ProcessInv, At, HasStored
  <2>2. secret' = secret /\ (published' = published \/ published' = secret.access)
    BY <1>3, <2>1 DEF WritePublic
  <2>3. QED
    BY <1>0, <2>2 DEF StoredInv
<1>4. CASE Boot(p) \/ ReadKeys(p) \/ ReadPublic(p) \/ Listen(p) \/ ReadRole(p) \/ WriteRole(p) \/ Crash(p)
  <2>1. UNCHANGED <<secret, published>>
    BY <1>4 DEF Boot, ReadKeys, ReadPublic, Listen, ReadRole, WriteRole, Crash
  <2>2. QED
    BY <1>0, <2>1 DEF StoredInv
<1>5. QED
    BY <1>1, <1>2, <1>3, <1>4 DEF Step, Advance

\* What is published is the stored key, so publishing it again changes nothing for the others.
LEMMA PublishedStays ==
    ASSUME KeysInv, whole, NEW p \in Procs, Step(p), NEW q \in Procs, q # p,
           HasStored(q), published = procs[q].access
    PROVE  published' = published
<1>0. ProcessInv(p)
    BY DEF KeysInv
<1>1. CASE WritePublic(p)
    BY <1>0, <1>1 DEF WritePublic, ProcessInv, At, HasStored
<1>2. CASE ~WritePublic(p)
    BY <1>2 DEF Step, Advance, Boot, ReadKeys, WriteKeys, ReadPublic, Listen, ReadRole, WriteRole, Crash
<1>3. QED
    BY <1>1, <1>2

\* A process that waits or serves is not disturbed by the step of another.
LEMMA OthersInv ==
    ASSUME KeysInv, whole, NEW p \in Procs, Step(p), NEW q \in Procs, q # p
    PROVE  ProcessInv(q)'
<1>1. ProcessInv(q)
    BY DEF KeysInv
<1>2. procs'[q] = procs[q]
    BY Stepped DEF KeysInv
<1>3. HasStored(q) => HasStored(q)'
    BY <1>2, SecretWrittenOnce DEF HasStored
<1>4. HasStored(q) /\ published = procs[q].access => published' = procs'[q].access
    BY <1>2, PublishedStays
<1>5. QED
    BY <1>1, <1>2, <1>3, <1>4 DEF ProcessInv, At, Serving

\* A process that is down, or only about to read the keys, claims nothing.
LEMMA Unclaimed ==
    ASSUME NEW p \in Procs, procs'[p].step \in {"down", "read keys"}
    PROVE  ProcessInv(p)'
BY DEF ProcessInv, At, Serving

\* A process that goes on with its keys where they are stored, and published if it serves.
LEMMA Claimed ==
    ASSUME NEW p \in Procs, HasStored(p), secret' = secret, procs' \in [Procs -> Process],
           procs'[p].access = procs[p].access, procs'[p].refresh = procs[p].refresh,
           procs'[p].step \in {"read public", "write public"} \/ published' = procs[p].access,
           procs'[p].step # "write keys"
    PROVE  ProcessInv(p)'
BY DEF ProcessInv, At, Serving, HasStored, Process

\* A process that moves goes on with the stored keys, or starts again.
LEMMA OwnInv ==
    ASSUME KeysInv, whole, NEW p \in Procs, Step(p)
    PROVE  ProcessInv(p)'
<1>0. /\ ProcessInv(p) /\ StoredInv
      /\ procs \in [Procs -> Process] /\ procs[p] \in Process /\ procs' \in [Procs -> Process]
      /\ secret \in Secret /\ published \in Keys /\ generated \in Keys
      /\ secret.exists => secret' = secret
    BY SecretWrittenOnce, Stepped DEF KeysInv, StartupTypeOK
<1>1. ASSUME NEW process, Move(p, process) PROVE procs'[p] = process
    BY <1>0, <1>1 DEF Move
<1>2. Exit(p) => ProcessInv(p)'
  <2>1. Down.step = "down"
    BY DEF Down
  <2>2. QED
    BY <1>1, <2>1, Unclaimed DEF Exit
<1>3. CASE Boot(p) \/ Crash(p)
  <2>1. [Down EXCEPT !.step = "read keys"].step = "read keys"
    BY DEF Down
  <2>2. Boot(p) => ProcessInv(p)'
    BY <1>1, <2>1, Unclaimed DEF Boot
  <2>3. QED
    BY <1>2, <1>3, <2>2 DEF Crash
<1>4. CASE ReadKeys(p)
  <2> DEFINE access  == IF secret.access # 0 THEN secret.access ELSE generated + 1
             fresh   == IF secret.access # 0 THEN generated ELSE generated + 1
             refresh == IF secret.refresh # 0 THEN secret.refresh ELSE fresh + 1
             next    == [procs[p] EXCEPT !.step = "write keys", !.old = secret, !.found = secret.exists,
                                         !.access = access, !.refresh = refresh]
  <2>1. procs'[p] = next /\ secret' = secret
    BY <1>1, <1>4 DEF ReadKeys
  <2>2. /\ procs'[p].step = "write keys" /\ procs'[p].old = secret /\ procs'[p].found = secret.exists
        /\ procs'[p].access = access /\ procs'[p].refresh = refresh
    <3> HIDE DEF access, refresh
    <3> QED
      BY <1>0, <2>1 DEF Process
  <2>3. CASE secret.exists
    <3>1. secret.access # 0 /\ secret.refresh # 0
      BY <1>0, <2>3 DEF StoredInv
    <3>2. access = secret.access /\ refresh = secret.refresh
      BY <3>1
    <3> HIDE DEF access, refresh
    <3>3. QED
      BY <2>1, <2>2, <2>3, <3>1, <3>2 DEF ProcessInv, HasStored, At, Serving
  <2>4. CASE ~secret.exists
    <3>1. secret.access = 0 /\ secret.refresh = 0
      BY <1>0, <2>4 DEF StoredInv
    <3>2. access # 0 /\ refresh # 0
      BY <1>0, <3>1, StartupAssumption DEF Keys
    <3> HIDE DEF access, refresh
    <3>3. QED
      BY <2>1, <2>2, <2>4, <3>1, <3>2 DEF ProcessInv, HasStored, At, Serving
  <2>5. QED
    BY <2>3, <2>4
<1>5. CASE WriteKeys(p)
  <2>1. CASE ~procs[p].found /\ secret.exists
    BY <1>2, <1>5, <2>1 DEF WriteKeys
  <2>2. CASE procs[p].found \/ ~secret.exists
    <3> DEFINE next == [procs[p] EXCEPT !.step = "read public", !.old = Down.old, !.found = FALSE]
    <3>1. procs'[p] = next /\ secret' = Merged(p)
      BY <1>1, <1>5, <2>2 DEF WriteKeys
    <3>2. /\ procs'[p].step = "read public"
          /\ procs'[p].access = procs[p].access /\ procs'[p].refresh = procs[p].refresh
      BY <1>0, <3>1 DEF Process
    <3>3. /\ Merged(p).exists = TRUE
          /\ Merged(p).access = procs[p].access /\ Merged(p).refresh = procs[p].refresh
      BY <1>0, <1>5 DEF Merged, ProcessInv, WriteKeys, HasStored
    <3> HIDE DEF next
    <3>4. HasStored(p)'
      BY <3>1, <3>2, <3>3 DEF HasStored
    <3>5. QED
      BY <3>2, <3>4 DEF ProcessInv, At, Serving
  <2>3. QED
    BY <2>1, <2>2
<1>6. CASE ReadPublic(p)
  <2>1. procs'[p] = [procs[p] EXCEPT !.step = "write public", !.found = published # 0] /\ secret' = secret
    BY <1>1, <1>6 DEF ReadPublic
  <2>2. procs'[p].step = "write public" /\ procs'[p].access = procs[p].access /\ procs'[p].refresh = procs[p].refresh
    BY <1>0, <2>1 DEF Process
  <2>3. HasStored(p)
    BY <1>0, <1>6 DEF ReadPublic, ProcessInv, At
  <2>4. QED
    BY <1>0, <2>1, <2>2, <2>3, Claimed
<1>7. CASE WritePublic(p)
  <2>1. CASE ~procs[p].found /\ published # 0
    BY <1>2, <1>7, <2>1 DEF WritePublic
  <2>2. CASE procs[p].found \/ published = 0
    <3>1. procs'[p] = [procs[p] EXCEPT !.step = "serve", !.found = FALSE]
          /\ secret' = secret /\ published' = procs[p].access
      BY <1>1, <1>7, <2>2 DEF WritePublic
    <3>2. procs'[p].step = "serve" /\ procs'[p].access = procs[p].access /\ procs'[p].refresh = procs[p].refresh
      BY <1>0, <3>1 DEF Process
    <3>3. HasStored(p)
      BY <1>0, <1>7 DEF WritePublic, ProcessInv, At
    <3>4. QED
      BY <1>0, <3>1, <3>2, <3>3, Claimed
  <2>3. QED
    BY <2>1, <2>2
<1>8. CASE Listen(p) \/ ReadRole(p)
  <2>1. HasStored(p) /\ published = procs[p].access /\ UNCHANGED <<secret, published>>
    BY <1>0, <1>8 DEF Listen, ReadRole, ProcessInv, At, Serving
  <2>2. \/ procs'[p] = [procs[p] EXCEPT !.step = "read role"]
        \/ procs'[p] = [procs[p] EXCEPT !.step = "write role", !.found = procs[p].role \in roles]
    BY <1>1, <1>8 DEF Listen, ReadRole
  <2>3. /\ procs'[p].step # "write keys"
        /\ procs'[p].access = procs[p].access /\ procs'[p].refresh = procs[p].refresh
    BY <1>0, <2>2 DEF Process
  <2>4. QED
    BY <1>0, <2>1, <2>3, Claimed
<1>9. CASE WriteRole(p)
  <2>1. HasStored(p) /\ published = procs[p].access /\ UNCHANGED <<secret, published>>
    BY <1>0, <1>9 DEF WriteRole, ProcessInv, At, Serving
  <2> DEFINE role == procs[p].role
             next == IF role < 4
                     THEN [procs[p] EXCEPT !.step = "read role", !.found = FALSE, !.role = role + 1]
                     ELSE [procs[p] EXCEPT !.step = "manage", !.found = FALSE]
  <2>2. Move(p, next) \/ Exit(p)
    BY <1>9 DEF WriteRole
  <2>3. next.step # "write keys" /\ next.access = procs[p].access /\ next.refresh = procs[p].refresh
    BY <1>0 DEF Process
  <2> HIDE DEF next
  <2>4. CASE Move(p, next)
    <3>1. procs'[p] = next
      BY <1>1, <2>4
    <3>2. QED
      BY <1>0, <2>1, <2>3, <3>1, Claimed
  <2>5. QED
    BY <1>2, <2>2, <2>4
<1>10. QED
    BY <1>3, <1>4, <1>5, <1>6, <1>7, <1>8, <1>9 DEF Step, Advance

\* Requests, rights and copies do not touch what start-up keeps.
LEMMA KeysKept == KeysInv /\ [Next]_vars => KeysInv'
<1> SUFFICES ASSUME KeysInv, [Next]_vars PROVE KeysInv'
    OBVIOUS
<1>1. CASE UNCHANGED startupVars
    BY <1>1 DEF startupVars, KeysInv, StartupTypeOK, StoredInv, ProcessInv, HasStored, At, Serving
<1>2. ASSUME NEW p \in Procs, Step(p) PROVE KeysInv'
  <2>1. StartupTypeOK'
    BY <1>2, Stepped DEF KeysInv
  <2>2. whole' = whole
    BY <1>2 DEF Step, Advance, Boot, ReadKeys, WriteKeys, ReadPublic, WritePublic, Listen,
                ReadRole, WriteRole, Crash
  <2>3. ASSUME whole PROVE StoredInv' /\ \A q \in Procs : ProcessInv(q)'
    BY <1>2, <2>3, SecretWrittenOnce, OthersInv, OwnInv
  <2>4. QED
    BY <2>1, <2>2, <2>3 DEF KeysInv
<1>3. QED
    BY <1>1, <1>2 DEF Next, vars, Step

(***************************************************************************)
(* KeysAgree for every number of processes: whoever serves signs and        *)
(* verifies with the stored and published keys.                             *)
(***************************************************************************)
THEOREM ProcessesAgree == Spec => []KeysAgree
<1>1. KeysInv => KeysAgree
    BY DEF KeysInv, ProcessInv, HasStored, KeysAgree
<1>2. QED
    BY <1>1, KeysStart, KeysKept, PTL DEF Spec
=============================================================================
