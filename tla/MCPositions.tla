----------------------------- MODULE MCPositions -----------------------------
(***************************************************************************)
(* One trade that stands: an instance for TLC of PositionExits, where the  *)
(* requests are interchangeable; of FeeSettlement, what becomes of the     *)
(* fees that profitable exits leave; of PositionLadder, the stop and the   *)
(* targets of the row; and of RestingStops, the stop that rests at the     *)
(* exchange.  They share no state: a behaviour is of one part.             *)
(***************************************************************************)
EXTENDS PositionExits, FeeSettlement, PositionLadder, RestingStops, TLC

VARIABLE part

Symmetric == Permutations(Requests) \cup Permutations(Entries) \cup Permutations(Checkouts)

(* Orders with an entry in the middle of the prices, one risk unit wide,   *)
(* with the ladders of one, two and three targets; and market orders that  *)
(* were filled on their stop and beyond it.                                *)
MCPrices == 0..6

Placing(d, targets) ==
  LET sign == IF d = "LONG" THEN 1 ELSE -1
      entry == 3 - sign
  IN  [direction |-> d, entry |-> entry, stop |-> entry - sign,
       tp |-> [l \in Levels |-> IF l \in targets THEN entry + sign * l ELSE Unset]]

MCSetups ==
  {Placing(d, t) : d \in {"LONG", "SHORT"}, t \in {{1}, {1, 2}, {1, 2, 3}}}
    \cup {[Placing("LONG", {1, 2, 3}) EXCEPT !.entry = fill] : fill \in {0, 1}}

(* One state to stand still in is enough.                                  *)
AtHome ==
  /\ tradeRow.is_test => part = "exits"
  /\ part # "ladder" =>
       /\ order = [direction |-> "LONG", activation |-> 0, mode |-> "fixed", account |-> "paper"]
       /\ row = Placed(Placing("LONG", {1}), "PENDING")
  /\ part # "stops" => broker = "paper"

PositionsInit ==
  /\ part \in {"exits", "fees", "ladder", "stops"}
  /\ ExitsInit /\ FeeInit /\ Init /\ StopsInit /\ AtHome

PositionsNext ==
  /\ UNCHANGED part
  /\ \/ part = "exits" /\ ExitsNext /\ UNCHANGED <<feeVars, vars, stopVars>>
     \/ part = "fees" /\ FeeNext /\ UNCHANGED <<exitsVars, vars, stopVars>>
     \/ part = "ladder" /\ Next /\ UNCHANGED <<exitsVars, feeVars, stopVars>>
     \/ part = "stops" /\ StopsNext /\ UNCHANGED <<exitsVars, feeVars, vars>>

PositionsSpec == PositionsInit /\ [][PositionsNext]_<<part, exitsVars, feeVars, vars, stopVars>>
=============================================================================
