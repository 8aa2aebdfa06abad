------------------------------- MODULE Startup -------------------------------
(***************************************************************************)
(* How processes of dockyards-backend start, several at once when a new     *)
(* version is rolled out: they get or generate the keys that sign tokens,   *)
(* publish the public key, serve requests, write the global cluster roles   *)
(* and start their controllers, and with them the informers.  They work     *)
(* with a client that has no cache, and exit at the first error; whatever   *)
(* started them starts them again.                                          *)
(*                                                                         *)
(* CreateOrPatch reads an object and then creates it, which fails if it is  *)
(* there by then, or merges what it changed into it, without a lock.        *)
(***************************************************************************)
EXTENDS Naturals

CONSTANTS
    Procs,
    MaxKey,      \* bound: keys that are generated
    MaxCrashes   \* bound: processes that end without an error of their own

ASSUME StartupAssumption == MaxKey \in Nat \ {0, 1} /\ MaxCrashes \in Nat

VARIABLES
    secret,     \* Secret dockyards-backend-jwt
    published,  \* key whose public half is in the ConfigMap dockyards-backend-jwt
    roles,      \* global cluster roles there are
    procs,
    generated,  \* keys generated so far
    whole,      \* the secret has never been there with a key missing
    crashes

startupVars == <<secret, published, roles, procs, generated, whole, crashes>>

\* Keys are numbers; 0 stands for no key.
Keys == 0 .. MaxKey
Secret == [exists: BOOLEAN, access: Keys, refresh: Keys]

\* aggregate, reader, user, super user: in this order
Roles == 1 .. 4

Process == [step: {"down", "read keys", "write keys", "read public", "write public", "serve",
                   "read role", "write role", "manage"},
            old: Secret,                \* the secret as it was read
            access: Keys, refresh: Keys,
            found: BOOLEAN,             \* the object that was read last exists
            role: Roles]
Down == [step |-> "down", old |-> [exists |-> FALSE, access |-> 0, refresh |-> 0],
         access |-> 0, refresh |-> 0, found |-> FALSE, role |-> 1]

StartupTypeOK ==
    /\ secret \in Secret /\ published \in Keys /\ roles \subseteq Roles
    /\ procs \in [Procs -> Process]
    /\ generated \in Keys /\ whole \in BOOLEAN /\ crashes \in 0 .. MaxCrashes

\* A secret from before may hold both keys, or lack the one or the other.
StartupInit ==
    /\ secret \in {[exists |-> FALSE, access |-> 0, refresh |-> 0],
                   [exists |-> TRUE, access |-> 1, refresh |-> 2],
                   [exists |-> TRUE, access |-> 1, refresh |-> 0]}
    /\ published \in {0, secret.access}
    /\ roles = {} /\ procs = [p \in Procs |-> Down]
    /\ generated = IF secret.exists THEN 2 ELSE 0
    /\ whole = (secret.exists => secret.access # 0 /\ secret.refresh # 0)
    /\ crashes = 0

At(p, step) == procs[p].step = step
Move(p, process) == procs' = [procs EXCEPT ![p] = process]
Exit(p) == Move(p, Down)

Boot(p) ==
    /\ At(p, "down")
    /\ Move(p, [Down EXCEPT !.step = "read keys"])
    /\ UNCHANGED <<secret, published, roles, generated, whole, crashes>>

-----------------------------------------------------------------------------
(* GetOrGenerateKeys *)

\* The secret is read, and a key that is missing is generated.
ReadKeys(p) ==
    LET access  == IF secret.access # 0 THEN secret.access ELSE generated + 1
        fresh   == IF secret.access # 0 THEN generated ELSE generated + 1
        refresh == IF secret.refresh # 0 THEN secret.refresh ELSE fresh + 1
        last    == IF secret.refresh # 0 THEN fresh ELSE fresh + 1
    IN
    /\ At(p, "read keys") /\ last <= MaxKey
    /\ Move(p, [procs[p] EXCEPT !.step = "write keys", !.old = secret, !.found = secret.exists,
                                !.access = access, !.refresh = refresh])
    /\ generated' = last
    /\ UNCHANGED <<secret, published, roles, whole, crashes>>

\* Mutant: the secret is written whether it was created by now or not.
WriteKeys_Overwrite(p) ==
    /\ At(p, "write keys")
    /\ secret' = [exists |-> TRUE, access |-> procs[p].access, refresh |-> procs[p].refresh]
    /\ Move(p, [procs[p] EXCEPT !.step = "read public"])
    /\ UNCHANGED <<published, roles, generated, whole, crashes>>

\* The keys that were generated are merged into the secret, the others left as they are.
Merged(p) ==
    [exists |-> TRUE,
     access |-> IF procs[p].old.access = 0 THEN procs[p].access ELSE secret.access,
     refresh |-> IF procs[p].old.refresh = 0 THEN procs[p].refresh ELSE secret.refresh]

WriteKeys(p) ==
    /\ At(p, "write keys")
    /\ \/ /\ procs[p].found \/ ~secret.exists
          /\ secret' = Merged(p)
          /\ Move(p, [procs[p] EXCEPT !.step = "read public", !.old = Down.old, !.found = FALSE])
       \/ /\ ~procs[p].found /\ secret.exists
          /\ Exit(p) /\ UNCHANGED secret
    /\ UNCHANGED <<published, roles, generated, whole, crashes>>

ReadPublic(p) ==
    /\ At(p, "read public")
    /\ Move(p, [procs[p] EXCEPT !.step = "write public", !.found = published # 0])
    /\ UNCHANGED <<secret, published, roles, generated, whole, crashes>>

\* Mutant: a public key that is published stays.
WritePublic_Keep(p) ==
    /\ At(p, "write public")
    /\ published' = IF published = 0 THEN procs[p].refresh ELSE published
    /\ Move(p, [procs[p] EXCEPT !.step = "serve"])
    /\ UNCHANGED <<secret, roles, generated, whole, crashes>>

WritePublic(p) ==
    /\ At(p, "write public")
    /\ \/ /\ procs[p].found \/ published = 0
          /\ published' = procs[p].access
          /\ Move(p, [procs[p] EXCEPT !.step = "serve", !.found = FALSE])
       \/ /\ ~procs[p].found /\ published # 0
          /\ Exit(p) /\ UNCHANGED published
    /\ UNCHANGED <<secret, roles, generated, whole, crashes>>

-----------------------------------------------------------------------------
(* The rest of main: servers first, then roles, then controllers *)

\* The servers listen; the controllers are set up and not started.
Listen(p) ==
    /\ At(p, "serve")
    /\ Move(p, [procs[p] EXCEPT !.step = "read role"])
    /\ UNCHANGED <<secret, published, roles, generated, whole, crashes>>

ReadRole(p) ==
    /\ At(p, "read role")
    /\ Move(p, [procs[p] EXCEPT !.step = "write role", !.found = procs[p].role \in roles])
    /\ UNCHANGED <<secret, published, roles, generated, whole, crashes>>

\* Mutant: the index runs past the last role.
WriteRole_Past(p) ==
    /\ At(p, "write role")
    /\ roles' = roles \cup {procs[p].role}
    /\ Move(p, IF procs[p].role <= 4
               THEN [procs[p] EXCEPT !.step = "read role", !.found = FALSE, !.role = @ + 1]
               ELSE [procs[p] EXCEPT !.step = "manage", !.found = FALSE])
    /\ UNCHANGED <<secret, published, generated, whole, crashes>>

\* One after the other; the manager is started after the last.
WriteRole(p) ==
    LET role == procs[p].role IN
    /\ At(p, "write role")
    /\ \/ /\ procs[p].found \/ role \notin roles
          /\ roles' = roles \cup {role}
          /\ Move(p, IF role < 4 THEN [procs[p] EXCEPT !.step = "read role", !.found = FALSE, !.role = role + 1]
                     ELSE [procs[p] EXCEPT !.step = "manage", !.found = FALSE])
       \/ /\ ~procs[p].found /\ role \in roles
          /\ Exit(p) /\ UNCHANGED roles
    /\ UNCHANGED <<secret, published, generated, whole, crashes>>

\* The process ends, or one of its calls fails.
Crash(p) ==
    /\ ~At(p, "down") /\ crashes < MaxCrashes
    /\ crashes' = crashes + 1
    /\ Exit(p)
    /\ UNCHANGED <<secret, published, roles, generated, whole>>

\* A process makes its next step towards serving and managing.
Advance(p) ==
    \/ Boot(p) \/ ReadKeys(p) \/ WriteKeys(p) \/ ReadPublic(p) \/ WritePublic(p) \/ Listen(p)
    \/ ReadRole(p) \/ WriteRole(p)

-----------------------------------------------------------------------------
(* Properties *)

Serving(p) == procs[p].step \in {"read role", "write role", "manage"}
Managing(p) == At(p, "manage")

(***************************************************************************)
(* Every process that serves has the keys that are stored and published,    *)
(* also when the first ones start at once, so that each, and whoever        *)
(* verifies with the published key, accepts the tokens of the other.        *)
(* Not so if a secret is there without one of its keys: then both may merge *)
(* in a key of their own.                                                   *)
(***************************************************************************)
KeysAgree ==
    \A p \in Procs :
        Serving(p) /\ whole =>
            /\ procs[p].access = secret.access /\ procs[p].refresh = secret.refresh
            /\ published = procs[p].access

=============================================================================
