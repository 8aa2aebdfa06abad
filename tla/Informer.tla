------------------------------ MODULE Informer ------------------------------
(***************************************************************************)
(* The client every handler, webhook and controller of dockyards-backend   *)
(* uses (mgr.GetClient() in main.go): writes go to the API server, reads    *)
(* are answered from a local copy that a watch keeps up to date.  One       *)
(* instance of this module stands for one kind of object.  The watch        *)
(* delivers the versions of the store in order, after any delay, and        *)
(* watches of different kinds are independent of each other.               *)
(***************************************************************************)
EXTENDS Naturals, Sequences

CONSTANT MaxLag  \* bound: versions the local copy may be behind the store

VARIABLES
    store,   \* what the API server holds
    cache,   \* what a Get or a List returns
    watch    \* versions written and not yet delivered, oldest first

(***************************************************************************)
(* A write of version s.  A patch that changes nothing makes no version.    *)
(***************************************************************************)
Write(s) ==
    /\ store' = s
    /\ UNCHANGED cache
    /\ \/ s = store /\ UNCHANGED watch
       \/ s # store /\ Len(watch) < MaxLag /\ watch' = Append(watch, s)

Deliver ==
    /\ watch # << >>
    /\ cache' = Head(watch)
    /\ watch' = Tail(watch)
    /\ UNCHANGED store

(***************************************************************************)
(* A process that starts lists the objects before it serves anything.       *)
(***************************************************************************)
Relist ==
    /\ cache' = store
    /\ watch' = << >>
    /\ UNCHANGED store

=============================================================================
