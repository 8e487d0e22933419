---------------------------- MODULE ConnRegistry ----------------------------
(***************************************************************************)
(* What the connection registry of the socket tracer promises to the       *)
(* reader of its control events, stated without probes, staging or        *)
(* descriptors (spec.md 3 and 4.3, ConnId in socket-tracer-common).        *)
(*                                                                         *)
(* A connection is known by its ConnId, whose tsid is read from a          *)
(* monotonic clock when the connection is registered.  The registry maps a *)
(* key to the id of the connection registered under it.  Registering      *)
(* under a key that is taken displaces the old id.  An id leaves the      *)
(* registry when it is retired or displaced, and it never comes back.     *)
(* The control stream may announce a registration (Open) and may report a *)
(* retirement (Close).  Each report is about the id registered or retired *)
(* in that very step.                                                      *)
(***************************************************************************)
EXTENDS Naturals, Sequences, TLC

CONSTANTS
    Keys,    \* where a connection can be registered
    Ids      \* connection ids: records with a tsid field

VARIABLES
    registry,   \* Keys -> Ids, partial: the live connections
    minted,     \* the tsid of the latest registration
    reported    \* the control stream: a sequence of [type, id]

vars == <<registry, minted, reported>>

Report(type, id) == [type |-> type, id |-> id]

Init ==
    /\ registry = <<>>
    /\ minted = 0
    /\ reported = <<>>

\* A connection with a fresh id is registered under k, announced or not.
Register(k, id) ==
    /\ id.tsid > minted
    /\ registry' = (k :> id) @@ registry
    /\ minted' = id.tsid
    /\ reported' \in {reported, Append(reported, Report("Open", id))}

\* The connection under k is retired, reported closed or not.
Retire(k) ==
    /\ k \in DOMAIN registry
    /\ registry' = [x \in DOMAIN registry \ {k} |-> registry[x]]
    /\ UNCHANGED minted
    /\ reported' \in {reported, Append(reported, Report("Close", registry[k]))}

Next ==
    \/ \E k \in Keys, id \in Ids : Register(k, id)
    \/ \E k \in Keys : Retire(k)

Spec == Init /\ [][Next]_vars
=============================================================================
