---------------------------- MODULE MCWorkspaces ----------------------------
EXTENDS Workspaces

Build(ms, failed) ==
  [recorded |-> TRUE, ms |-> ms, sources |-> <<[dir |-> 1, ms |-> ms, failed |-> failed]>>]

(* A run of the first command, one that failed, grew and passed through,   *)
(* one of the second command.                                              *)
MCShapes ==
  <<[command |-> 1, tool |-> "t1", filter |-> "f", raw |-> 5, kept |-> 1, failed |-> FALSE,
     passthrough |-> TRUE, duration |-> 2, build |-> Build(1, FALSE)],
    [command |-> 2, tool |-> "t1", filter |-> "f", raw |-> 1, kept |-> 3, failed |-> TRUE,
     passthrough |-> TRUE, duration |-> 1, build |-> Build(3, TRUE)],
    [command |-> 2, tool |-> "t2", filter |-> "t2", raw |-> 2, kept |-> 2, failed |-> FALSE,
     passthrough |-> TRUE, duration |-> 1, build |-> [recorded |-> FALSE, ms |-> 0, sources |-> <<>>]]>>

Everything == [tool |-> "", failed |-> FALSE, since |-> 0, period |-> "", format |-> "text"]
Recent == [tool |-> "t1", failed |-> FALSE, since |-> 1, period |-> "week", format |-> "text"]
Failures == [tool |-> "", failed |-> TRUE, since |-> 0, period |-> "week", format |-> "data"]

(* Without --global it is the project that counts.                         *)
All == [cwd |-> "r1", global |-> TRUE]
Below == [cwd |-> "r1/s", global |-> TRUE]
Local == [cwd |-> "r1/s", global |-> FALSE]
MCCalls == {All, Below, Local}

Ask(command, calls, opts) == {c @@ [command |-> command, opts |-> opts] : c \in calls}
MCRequests ==
  UNION {Ask("performance", {Below}, Everything), Ask("history", {Below, Local}, Everything),
         Ask("gain", {Below}, Recent), Ask("gain", {Below}, Failures)}

MCCalendar == [day |-> 1, week |-> 2, month |-> 3]
MCRootOf == [s \in Subs |-> "r1"]
=============================================================================
