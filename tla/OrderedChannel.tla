--------------------------- MODULE OrderedChannel ---------------------------
(***************************************************************************)
(* What a session promises the server about the frames it is given: they   *)
(* reach the wire in the order in which they were given, without gaps, and *)
(* a stream that the server closes has carried every frame it was given    *)
(* before the close was asked for.  A stream that is cut carries a prefix. *)
(***************************************************************************)
EXTENDS Naturals, Sequences

CONSTANTS Frames, NotAsked

VARIABLES
    given,   \* frames given, in order
    wire,    \* frames that are on the wire
    due,     \* how many were given when the close was asked for
    stream   \* "open", "closed" by the server, or "cut"

chVars == <<given, wire, due, stream>>

ChInit ==
    /\ given = <<>> /\ wire = <<>>
    /\ due = NotAsked
    /\ stream = "open"

Give(f) ==
    /\ given' = Append(given, f)
    /\ UNCHANGED <<wire, due, stream>>

AskClose ==
    /\ due = NotAsked
    /\ due' = Len(given)
    /\ UNCHANGED <<given, wire, stream>>

Transmit ==
    /\ stream = "open" /\ Len(wire) < Len(given)
    /\ wire' = Append(wire, given[Len(wire) + 1])
    /\ UNCHANGED <<given, due, stream>>

CloseFlushed ==
    /\ stream = "open" /\ due # NotAsked /\ Len(wire) >= due
    /\ stream' = "closed"
    /\ UNCHANGED <<given, wire, due>>

Cut ==
    /\ stream = "open"
    /\ stream' = "cut"
    /\ UNCHANGED <<given, wire, due>>

ChNext ==
    \/ \E f \in Frames : Give(f)
    \/ AskClose \/ Transmit \/ CloseFlushed \/ Cut

ChSpec == ChInit /\ [][ChNext]_chVars
=============================================================================
