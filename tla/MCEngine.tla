------------------------------ MODULE MCEngine ------------------------------
(* Instances of the engine for TLC. *)
EXTENDS EngineProperties

CONSTANT MaxLines  (* lines the command prints at most *)

NoScope == [s \in {} |-> 0]
On(s, scope) == [t \in {s} |-> scope]
Both(out, err) == [t \in Streams |-> IF t = "stdout" THEN out ELSE err]

(* A scope that declares every kind of rule, with and without a limit. *)
Full    == [rules |-> {"group", "keep", "replace", "skip"}, max |-> 1, print |-> 1]
Plain   == [rules |-> {"replace", "skip"}, max |-> 0, print |-> 0]
Capped  == [rules |-> {"keep", "replace"}, max |-> 1, print |-> 1]
Section == [rules |-> {"boundary", "skip"}, max |-> 0, print |-> 0]

SplitCases ==
  {[passthrough |-> FALSE, scope |-> Both(Capped, Plain), footer |-> 1],
   [passthrough |-> FALSE, scope |-> Both(Section, Full), footer |-> 0],
   [passthrough |-> FALSE, scope |-> On("stderr", Full), footer |-> 1],
   [passthrough |-> FALSE, scope |-> On("stdout", Capped), footer |-> 0]}

SharedCases ==
  {[passthrough |-> FALSE, scope |-> On("combined", Full), footer |-> 0],
   [passthrough |-> FALSE, scope |-> On("combined", Plain), footer |-> 1],
   [passthrough |-> FALSE, scope |-> On("combined", Section), footer |-> 0]}

OpenCases ==
  {[passthrough |-> TRUE, scope |-> NoScope, footer |-> 0],
   [passthrough |-> FALSE, scope |-> NoScope, footer |-> 1]}

AllCases == SplitCases \union SharedCases \union OpenCases

MCNext ==
  /\ ~exited
  /\ \/ \E s \in Streams, size \in Sizes : next < MaxLines /\ Consume(s, size)
     \/ \E code \in ExitCodes : Exit(code)

MCSpec == EngineInit /\ [][MCNext]_engineVars

=============================================================================
