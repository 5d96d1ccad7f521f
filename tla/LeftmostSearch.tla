--------------------------- MODULE LeftmostSearch ---------------------------
(***************************************************************************)
(* What the two block searches of src/utils/SpokeUtils.ts promise their    *)
(* callers, whatever midpoints they probe and however many: a question     *)
(* with a monotone answer is asked of the blocks of a chain ("has the      *)
(* counter passed the deposit ID by this block", "is the relay filled at   *)
(* this block"), and the search works on an interval that always holds the *)
(* leftmost block whose answer is yes.  An interval is handed over once,   *)
(* only ever gets narrower, and is final once the search has ended.        *)
(*                                                                         *)
(* DepositIdSearch (getBlockRangeForDepositId) and FillBlockSearch         *)
(* (findFillBlock) are shown to implement this specification.              *)
(***************************************************************************)
EXTENDS Integers

CONSTANT Blocks          \* the blocks of the chain the question is asked of

VARIABLES
  holds,                 \* [Blocks -> BOOLEAN], the answer as of each block
  lo, hi,                \* the interval under search
  status                 \* "idle", "searching", "ended" or "refused"

vars == <<holds, lo, hi, status>>

(* The leftmost block whose answer is yes lies in l..h.                    *)
Brackets(l, h) ==
  /\ l <= h
  /\ h \in Blocks /\ holds[h]
  /\ \A b \in Blocks : holds[b] => l <= b

Init == status = "idle"

(* The arguments, or what the first lookups say, rule the search out.      *)
Refuse ==
  /\ status \in {"idle", "searching"}
  /\ status' = "refused"
  /\ UNCHANGED holds

Begin ==
  /\ status = "idle"
  /\ status' = "searching"
  /\ UNCHANGED holds
  /\ Brackets(lo', hi')

Narrow ==
  /\ status = "searching"
  /\ status' \in {"searching", "ended"}
  /\ UNCHANGED holds
  /\ lo <= lo' /\ hi' <= hi
  /\ Brackets(lo', hi')

Next == Refuse \/ Begin \/ Narrow

Spec == Init /\ [][Next]_vars

=============================================================================
