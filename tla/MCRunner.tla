------------------------------ MODULE MCRunner ------------------------------
(* Instances of one filtered execution for TLC. *)
EXTENDS Runner

NoScope == [s \in {} |-> 0]
On(s, scope) == [t \in {s} |-> scope]

Plain  == [rules |-> {"skip"}, max |-> 0, print |-> 0]
Groups == [rules |-> {"group"}, max |-> 0, print |-> 0]

FewCases ==
  {[passthrough |-> FALSE, scope |-> [t \in Streams |-> Plain], footer |-> 0],
   [passthrough |-> FALSE, scope |-> On("stdout", Plain), footer |-> 1],
   [passthrough |-> FALSE, scope |-> On("combined", Groups), footer |-> 0],
   [passthrough |-> TRUE, scope |-> NoScope, footer |-> 0]}

SplitOnly == {c \in FewCases : c.passthrough \/ DOMAIN c.scope = Streams}

=============================================================================
