---------------------------- MODULE EventMirror ----------------------------
(***************************************************************************)
(* What a client that is refreshed with update() promises of the events of *)
(* one kind: it holds exactly the events of the blocks it has covered, and *)
(* the range it has covered only grows, never beyond the chain's head.     *)
(* How it is done (read the head, query a window, sort, append) is left to *)
(* the client's own module, which implements this one.                     *)
(***************************************************************************)
EXTENDS Integers

CONSTANT FirstBlock         \* where the mirrored history begins

VARIABLES
  events,     \* the chain: a set of records with the block of each event
  head,       \* the last block mined
  mirror,     \* the events the client holds
  horizon     \* the last block the client has covered

vars == <<events, head, mirror, horizon>>

(* The history between the first block and block b.                        *)
UpTo(b) == {e \in events : FirstBlock <= e.block /\ e.block <= b}

Init ==
  /\ events = {}
  /\ head \in Nat
  /\ mirror = {}
  /\ horizon < FirstBlock

(* Blocks that are mined are final: a new event is in a later block.       *)
Emit ==
  /\ events \subseteq events'
  /\ \A e \in events' \ events : e.block > head
  /\ UNCHANGED <<head, mirror, horizon>>

MineBlock == head' = head + 1 /\ UNCHANGED <<events, mirror, horizon>>

Refresh ==
  \E b \in horizon..head :
    /\ mirror' = UpTo(b)
    /\ horizon' = b
    /\ UNCHANGED <<events, head>>

Next == Emit \/ MineBlock \/ Refresh

Spec == Init /\ [][Next]_vars

=============================================================================
