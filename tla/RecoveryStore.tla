--------------------------- MODULE RecoveryStore ---------------------------
(***************************************************************************)
(* The failure recovery artifacts of one user (internal/recovery).  A      *)
(* failed run stores its output as a directory of three files and then     *)
(* rotates: it removes what is older than seven days or beyond the twenty  *)
(* newest.  Listing rotates as well; a purge removes everything.  The      *)
(* mutex of the package excludes goroutines of one process, nothing        *)
(* excludes other processes: each step of theirs may fall between two      *)
(* steps of this one.  An artifact is written file by file and removed     *)
(* file by file, in any order, and either may be cut short.                *)
(*                                                                         *)
(* Artifacts are numbered in the order of their names, which begin with    *)
(* the time.  Which runs store one and which lines it gets is in Runner.   *)
(***************************************************************************)
EXTENDS Integers, FiniteSets

CONSTANTS
  Procs,         \* processes
  MaxArtifacts,  \* artifacts that rotation keeps
  MaxAge,        \* age above which rotation removes them
  MaxStores,     \* bound: artifacts created
  MaxOthers,     \* bound: lists and purges started
  MaxTime,       \* bound on the clock
  MaxIncidents   \* bound: failing file operations and killed processes, together

ASSUME RecoveryAssumption ==
  IsFiniteSet(Procs)
  /\ MaxArtifacts \in Nat /\ MaxAge \in Nat /\ MaxStores \in Nat /\ MaxOthers \in Nat
  /\ MaxTime \in Nat /\ MaxIncidents \in Nat

Ids == 1..MaxStores
Parts == {"command", "stdout", "stderr"}

VARIABLES
  art,       \* per artifact: whether its directory is there, its files, its time
  now,
  made, others, incidents,  \* counters of the bounds
  pc, job,   \* of each process: where it is, and "store", "undo", "list" or "purge"
  mine,      \* the artifact it stores; 0 for none
  entries,   \* the artifacts it has listed and still to look at
  kept,      \* those that rotation has found young enough, with their time
  target,    \* the artifact it is removing; 0 for none
  names,     \* the files of that which it has read and still to unlink
  listed,    \* the artifacts its list has found
  left,      \* history: artifacts whose store was killed or could not clean up
  cut,       \* history: artifacts whose removal was killed or has failed half way
  touched    \* history: per process, artifacts changed by others since it started

artVars == <<art, left, cut, touched>>
procVars == <<pc, job, mine, entries, kept, target, names, listed>>
countVars == <<made, others, incidents>>
vars == <<artVars, now, countVars, procVars>>

There == {x \in Ids : art[x].there}
Whole(x) == art[x].there /\ art[x].parts = Parts
Nothing == [there |-> FALSE, parts |-> {}, time |-> 0]
Incident == incidents < MaxIncidents /\ incidents' = incidents + 1
Lowest(S) == CHOOSE x \in S : \A y \in S : x <= y

Init ==
  /\ art = [x \in Ids |-> Nothing] /\ now = 0
  /\ made = 0 /\ others = 0 /\ incidents = 0
  /\ pc = [p \in Procs |-> "idle"] /\ job = [p \in Procs |-> "list"]
  /\ mine = [p \in Procs |-> 0] /\ entries = [p \in Procs |-> {}]
  /\ kept = [p \in Procs |-> {}] /\ target = [p \in Procs |-> 0]
  /\ names = [p \in Procs |-> {}] /\ listed = [p \in Procs |-> {}]
  /\ left = {} /\ cut = {} /\ touched = [p \in Procs |-> {}]

Tick ==
  /\ now < MaxTime
  /\ now' = now + 1
  /\ UNCHANGED <<artVars, countVars, procVars>>

Goto(p, label) == pc' = [pc EXCEPT ![p] = label]

\* A change of an artifact, under the eyes of every other process at work.
Change(p, x, content) ==
  /\ art' = [art EXCEPT ![x] = content]
  /\ touched' = [q \in Procs |-> IF pc'[q] = "idle" THEN {}
                                 ELSE IF q # p THEN touched[q] \cup {x} ELSE touched[q]]

End(p) ==
  /\ Goto(p, "idle")
  /\ job' = [job EXCEPT ![p] = "list"]
  /\ mine' = [mine EXCEPT ![p] = 0]
  /\ entries' = [entries EXCEPT ![p] = {}]
  /\ kept' = [kept EXCEPT ![p] = {}]
  /\ target' = [target EXCEPT ![p] = 0]
  /\ names' = [names EXCEPT ![p] = {}]
  /\ listed' = [listed EXCEPT ![p] = {}]

EndUntouched(p) == End(p) /\ touched' = [touched EXCEPT ![p] = {}]

\* Mutant: a store that fails leaves what it has written.
FailNextLeaving(p) == EndUntouched(p) /\ UNCHANGED left

\* What follows an error: a store removes what it has written, and if that fails it
\* stays; a list or a purge ends.
FailNext(p) ==
  IF job[p] = "store"
  THEN /\ Goto(p, "removeAll")
       /\ job' = [job EXCEPT ![p] = "undo"]
       /\ target' = [target EXCEPT ![p] = mine[p]]
       /\ entries' = [entries EXCEPT ![p] = {}] /\ kept' = [kept EXCEPT ![p] = {}]
       /\ names' = [names EXCEPT ![p] = {}]
       /\ UNCHANGED <<left, mine, listed, touched>>
  ELSE EndUntouched(p) /\ left' = left \cup ({mine[p]} \ {0})

-----------------------------------------------------------------------------
(* Storing.                                                                *)

\* The directory of an artifact of a name of its own.
Mkdir(p) ==
  /\ pc[p] = "idle" /\ made < MaxStores
  /\ made' = made + 1
  /\ Goto(p, "command")
  /\ Change(p, made + 1, [there |-> TRUE, parts |-> {}, time |-> now])
  /\ job' = [job EXCEPT ![p] = "store"]
  /\ mine' = [mine EXCEPT ![p] = made + 1]
  /\ UNCHANGED <<left, cut, now, others, incidents, entries, kept, target, names, listed>>

\* The next file of it; writing fails when the directory has been removed.
After(part) ==
  CASE part = "command" -> "stdout" [] part = "stdout" -> "stderr" [] OTHER -> "readDir"

WritePart(p) ==
  /\ pc[p] \in Parts
  /\ LET x == mine[p] IN
     \/ /\ art[x].there
        /\ Goto(p, After(pc[p]))
        /\ Change(p, x, [art[x] EXCEPT !.parts = @ \cup {pc[p]}, !.time = now])
        /\ UNCHANGED <<left, incidents, job, mine, entries, kept, target, names, listed>>
     \/ /\ \/ ~art[x].there /\ UNCHANGED incidents
           \/ art[x].there /\ Incident
        /\ FailNext(p) /\ UNCHANGED art
  /\ UNCHANGED <<cut, now, made, others>>

\* The directory is there: the artifact is reported as stored.
Stat(p) ==
  /\ pc[p] = "stat"
  /\ EndUntouched(p)
  /\ UNCHANGED <<art, left, cut, now, countVars>>

-----------------------------------------------------------------------------
(* Rotating and purging.                                                   *)

StartOther(p, what) ==
  /\ pc[p] = "idle" /\ others < MaxOthers
  /\ others' = others + 1
  /\ job' = [job EXCEPT ![p] = what]
  /\ Goto(p, "readDir")
  /\ UNCHANGED <<artVars, now, made, incidents, mine, entries, kept, target, names, listed>>

ReadDir(p) ==
  /\ pc[p] = "readDir"
  /\ entries' = [entries EXCEPT ![p] = There]
  /\ Goto(p, IF job[p] = "purge" THEN "purge" ELSE "inspect")
  /\ UNCHANGED <<artVars, now, countVars, job, mine, kept, target, names, listed>>

\* The next entry is looked at: it is gone, or too old, or kept for now.  A list
\* whose error says that something does not exist ends as if there were no artifacts.
Inspect(p) ==
  /\ pc[p] = "inspect" /\ entries[p] # {}
  /\ LET x == Lowest(entries[p]) IN
     \/ /\ ~art[x].there
        /\ IF job[p] = "list"
           THEN /\ Goto(p, "listed") /\ entries' = [entries EXCEPT ![p] = {}]
                /\ kept' = [kept EXCEPT ![p] = {}]
                /\ UNCHANGED <<left, job, mine, target, names, listed, touched>>
           ELSE FailNext(p)
     \/ /\ art[x].there
        /\ entries' = [entries EXCEPT ![p] = @ \ {x}]
        /\ IF art[x].time + MaxAge < now
           THEN Goto(p, "removeAll") /\ target' = [target EXCEPT ![p] = x] /\ UNCHANGED kept
           ELSE kept' = [kept EXCEPT ![p] = @ \cup {[id |-> x, time |-> art[x].time]}]
                /\ UNCHANGED <<pc, target>>
        /\ UNCHANGED <<left, job, mine, names, listed, touched>>
  /\ UNCHANGED <<art, cut, now, countVars>>

\* The newest come first; of the same time, the later name.
Newer(a, b) == a.time > b.time \/ (a.time = b.time /\ a.id > b.id)

\* Mutant: one artifact too many.
OverflowingLate(S) == {a \in S : Cardinality({b \in S : Newer(b, a)}) > MaxArtifacts}

Overflowing(S) == {a \in S : Cardinality({b \in S : Newer(b, a)}) >= MaxArtifacts}

Overflow(p) ==
  /\ pc[p] = "inspect" /\ entries[p] = {}
  /\ IF Overflowing(kept[p]) = {}
     THEN /\ kept' = [kept EXCEPT ![p] = {}]
          /\ Goto(p, IF job[p] = "list" THEN "readAgain" ELSE "stat")
          /\ UNCHANGED target
     ELSE LET a == CHOOSE a \in Overflowing(kept[p]) :
                     \A b \in Overflowing(kept[p]) : ~Newer(b, a) IN
          /\ kept' = [kept EXCEPT ![p] = @ \ {a}]
          /\ target' = [target EXCEPT ![p] = a.id]
          /\ Goto(p, "removeAll")
  /\ UNCHANGED <<artVars, now, countVars, job, mine, entries, names, listed>>

Purge(p) ==
  /\ pc[p] = "purge"
  /\ IF entries[p] = {} THEN EndUntouched(p)
     ELSE /\ target' = [target EXCEPT ![p] = Lowest(entries[p])]
          /\ entries' = [entries EXCEPT ![p] = @ \ {Lowest(entries[p])}]
          /\ Goto(p, "removeAll")
          /\ UNCHANGED <<job, mine, kept, names, listed, touched>>
  /\ UNCHANGED <<art, left, cut, now, countVars>>

\* os.RemoveAll is done: a rotation or a purge goes on with the next entry, a store
\* that has undone its work ends.
Removed(p) ==
  IF job[p] = "undo" THEN End(p)
  ELSE /\ target' = [target EXCEPT ![p] = 0]
       /\ Goto(p, IF job[p] = "purge" THEN "purge" ELSE "inspect")
       /\ names' = [names EXCEPT ![p] = {}]
       /\ UNCHANGED <<job, mine, entries, kept, listed>>

\* It tries an empty directory first, and reads the names of the files in another ...
RemoveAll(p) ==
  /\ pc[p] = "removeAll"
  /\ LET x == target[p] IN
     \/ /\ art[x].parts = {}
        /\ Removed(p) /\ Change(p, x, Nothing)
        /\ UNCHANGED <<left, incidents>>
     \/ /\ art[x].parts # {}
        /\ names' = [names EXCEPT ![p] = art[x].parts]
        /\ Goto(p, "unlink")
        /\ UNCHANGED <<art, left, touched, incidents, job, mine, entries, kept, target, listed>>
     \/ Incident /\ FailNext(p) /\ UNCHANGED art
  /\ UNCHANGED <<cut, now, made, others>>

\* ... removes those that are still there in the order of the directory, going on when
\* one cannot be removed ...
Unlink(p) ==
  /\ pc[p] = "unlink" /\ UNCHANGED pc
  /\ LET x == target[p] IN
     \E part \in names[p] \intersect art[x].parts :
       /\ names' = [names EXCEPT ![p] = @ \ {part}]
       /\ \/ Change(p, x, [art[x] EXCEPT !.parts = @ \ {part}, !.time = now]) /\ UNCHANGED incidents
          \/ Incident /\ UNCHANGED <<art, touched>>
  /\ UNCHANGED <<left, cut, now, made, others, job, mine, entries, kept, target, listed>>

\* ... and then the directory, which fails when a file is in it.
RemoveDir(p) ==
  /\ pc[p] = "unlink" /\ names[p] \intersect art[target[p]].parts = {}
  /\ LET x == target[p] IN
     \/ /\ art[x].parts = {}
        /\ Removed(p) /\ Change(p, x, Nothing)
        /\ UNCHANGED <<left, cut>>
     \/ art[x].parts # {} /\ FailNext(p) /\ cut' = cut \cup {x} /\ UNCHANGED art
  /\ UNCHANGED <<now, countVars>>

-----------------------------------------------------------------------------
(* Listing.                                                                *)

ReadAgain(p) ==
  /\ pc[p] = "readAgain"
  /\ entries' = [entries EXCEPT ![p] = There]
  /\ Goto(p, "look")
  /\ UNCHANGED <<artVars, now, countVars, job, mine, kept, target, names, listed>>

\* An artifact without a readable command.yaml is skipped; one that disappears
\* is an error.
Look(p) ==
  /\ pc[p] = "look"
  /\ IF entries[p] = {}
     THEN /\ Goto(p, "listed")
          /\ UNCHANGED <<job, mine, entries, kept, target, names, listed, touched>>
     ELSE LET x == Lowest(entries[p]) IN
       IF ~art[x].there THEN EndUntouched(p)
       ELSE /\ entries' = [entries EXCEPT ![p] = @ \ {x}]
            /\ listed' = IF "command" \notin art[x].parts THEN listed
                         ELSE [listed EXCEPT ![p] = @ \cup {x}]
            /\ UNCHANGED <<pc, job, mine, kept, target, names, touched>>
  /\ UNCHANGED <<art, left, cut, now, countVars>>

Shown(p) ==
  /\ pc[p] = "listed"
  /\ EndUntouched(p)
  /\ UNCHANGED <<art, left, cut, now, countVars>>

\* A process is killed where it is.
Crash(p) ==
  /\ pc[p] # "idle" /\ Incident
  /\ left' = left \cup ({mine[p]} \ {0})
  /\ cut' = IF pc[p] = "unlink" THEN cut \cup {target[p]} ELSE cut
  /\ EndUntouched(p)
  /\ UNCHANGED <<art, now, made, others>>

Step(p) ==
  \/ Mkdir(p) \/ WritePart(p) \/ Stat(p)
  \/ (\E what \in {"list", "purge"} : StartOther(p, what))
  \/ ReadDir(p) \/ Inspect(p) \/ Overflow(p) \/ Purge(p)
  \/ RemoveAll(p) \/ Unlink(p) \/ RemoveDir(p)
  \/ ReadAgain(p) \/ Look(p) \/ Shown(p) \/ Crash(p)

Next == Tick \/ \E p \in Procs : Step(p)

Spec == Init /\ [][Next]_vars

-----------------------------------------------------------------------------
(* Properties.                                                             *)

\* However stores, lists and purges of several processes interleave, more than
\* the documented number of artifacts are there only while a store runs or after
\* one was killed; and a store or a list that no other process has disturbed
\* leaves no more, whatever was killed before.
Storing(p) == job[p] \in {"store", "undo"}
Bounded ==
  /\ Cardinality(There) <=
       MaxArtifacts + Cardinality({p \in Procs : Storing(p)}) + Cardinality(left \cap There)
  /\ \A p \in Procs : pc[p] \in {"stat", "readAgain"} /\ touched[p] = {} =>
       Cardinality(There) <= MaxArtifacts

\* A list shows no part of an artifact for the whole, unless its store was killed
\* or still runs, its removal runs or was cut short, or another process has changed
\* it since the list began; and if none was changed at all, it shows every whole
\* artifact.
ListIsFaithful ==
  \A p \in Procs : pc[p] = "listed" =>
    /\ \A x \in listed[p] :
         \/ Whole(x)
         \/ x \in left \union cut \union touched[p]
         \/ \E q \in Procs : x \in {mine[q], target[q]}
    /\ touched[p] = {} => \A x \in Ids : Whole(x) => x \in listed[p]
=============================================================================
