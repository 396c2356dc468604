---------------------------- MODULE ExclusiveLock ----------------------------
(***************************************************************************)
(* What a caller of withCapacityRegistryLock relies on: one process at a    *)
(* time is inside, and what a process published inside, when it is told     *)
(* that its operation succeeded, is part of every later document.           *)
(***************************************************************************)
EXTENDS FiniteSets

CONSTANTS
    Process,
    Nobody,
    Earlier     \* what is in the document to begin with

VARIABLES
    owner,     \* the process inside, or Nobody
    document   \* the operations whose effect a reader sees

lockVars == <<owner, document>>

FreeInit ==
    /\ owner = Nobody
    /\ document = Earlier

Enter(p) ==
    /\ owner = Nobody
    /\ owner' = p
    /\ UNCHANGED document

\* Only the process inside publishes, and it adds to what is there.
Publish(p) ==
    /\ owner = p
    /\ document' = document \union {p}
    /\ UNCHANGED owner

\* The process leaves, or dies: nobody else ends its turn.
Leave(p) ==
    /\ owner = p
    /\ owner' = Nobody
    /\ UNCHANGED document

NextOwner == \E p \in Process : Enter(p) \/ Publish(p) \/ Leave(p)

Exclusive == FreeInit /\ [][NextOwner]_lockVars
==============================================================================
