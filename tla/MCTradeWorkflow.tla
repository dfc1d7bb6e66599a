-------------------------- MODULE MCTradeWorkflow --------------------------
EXTENDS TradeWorkflow, TLC
(* Events are interchangeable, and so are the handlers that serve          *)
(* decisions and those that do not.                                        *)
Symmetry == Permutations(Event) \cup Permutations(Approver)
            \cup Permutations(Handler \ Approver)
=============================================================================
