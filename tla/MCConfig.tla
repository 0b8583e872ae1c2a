------------------------------ MODULE MCConfig ------------------------------
(* A small instance of Config for TLC. *)
EXTENDS Config, TLC

MCStamps == 1 .. 3

\* A table of every kind, what leaves most of it out, and one whose pointer and
\* keyboard are no tables.
Whole1 == [n \in Names |-> "x"]
Parts2 == ("keyboard" :> "y") @@ ("startup" :> "y") @@ ("pointer" :> "y")
          @@ ("mouse" :> "y") @@ ("commands" :> "y") @@ ("binds" :> "y")
Wrong3 == ("keyboard" :> "bad") @@ ("pointer" :> Wrong) @@ ("general" :> Wrong)

MCTexts == {Whole1, Parts2, Wrong3}
MCCompiles == {"x", "y"}
=============================================================================
