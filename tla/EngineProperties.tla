-------------------------- MODULE EngineProperties --------------------------
(***************************************************************************)
(* What the ordered engine promises its caller, as invariants and action   *)
(* properties of Engine.                                                   *)
(***************************************************************************)
EXTENDS Engine

Ids(entries)   == {e.seq : e \in entries}
Shown(entries) == UNION {e.text.shows : e \in entries}

(* The bytes of the entries, each known by its entry and its place there,  *)
(* and how many there are.                                                 *)
BytesIn(entries) == UNION {{e} \X (1..e.text.size) : e \in entries}
Bytes(entries)   == Cardinality(BytesIn(entries))

(* A line that is in hand verbatim. *)
Verbatim(e) == e = Line(e.seq, e.stream, e.text.size)

EngineTypeOK ==
  /\ FilterTypeOK
  /\ raw \in SUBSET Entry /\ buffer \in SUBSET Entry /\ recovery \in SUBSET Entry
  /\ rawBytes \in Nat /\ next \in Nat /\ exitCode \in Nat
  /\ held \in [Streams -> Nat]
  /\ passthrough \in BOOLEAN /\ exited \in BOOLEAN
  /\ returned \in [Callers -> SUBSET Entry]
  /\ received \in SUBSET Entry /\ released \in SUBSET Entry
  /\ kept \in SUBSET Nat

-----------------------------------------------------------------------------
(* Safety *)

(* A line the engine was given is never lost while filtering goes on: it   *)
(* was handed back or the engine still has it verbatim, never both         *)
(* (rawEntries and the Emit branch of applyStream).                        *)
NothingLost ==
  ~passthrough /\ ~exited => /\ raw \union released = received
                             /\ raw \intersect released = {}

(* Whichever way filtering is given up (the limit, a result that is not    *)
(* shorter, entries of both streams under one combined text), the callers  *)
(* have been handed exactly what the command printed, byte for byte.       *)
GivingUpIsVerbatim == passthrough => released = received

(* When the command is over each line it printed was handed back verbatim  *)
(* or is in the recovery entries.                                          *)
EverythingRecoverable == exited => received \subseteq released \union recovery

(* What is retained while filtering goes on never exceeds the limit, and   *)
(* giving up drops it all (the memory bound of CandidateBufferLimit).      *)
RetainedIsBounded ==
  /\ ~passthrough /\ BufferLimit > 0 => rawBytes <= BufferLimit
  /\ passthrough /\ ~exited => raw = {} /\ buffer = {}

(* What is not printed is announced.  Unless a group has something to      *)
(* show, a line the filter answered keep for is in the output, and lines   *)
(* dropped because of max are owned up to: the output has the omission     *)
(* text of the scope, next to what the scope kept, unless it is verbatim.  *)
HasGroups == \E c \in ScopeNames : collected[c] # {}
KeptIsShown == exited /\ ~HasGroups => kept \subseteq Shown(released)
OmissionIsAnnounced ==
  \A c \in ScopeNames :
    exited /\ ~passthrough /\ ~HasGroups /\ hidden[c] > 0 /\ activeCase.scope[c].print > 0
      => \E e \in returned["main"] : "omitted" \in e.text.adds
ReaderIsTold == KeptIsShown /\ OmissionIsAnnounced

(* Text about a line goes to the stream the line was printed on; only a    *)
(* combined scope with groups may move it.                                 *)
StreamIsKept ==
  \/ "combined" \in ScopeNames /\ collected["combined"] # {}
  \/ \A e \in released, l \in received :
       l.seq \in e.text.shows => e.stream = l.stream

-----------------------------------------------------------------------------
(* Action properties *)

(* A line is handed back at most once: an answer to a line holds nothing   *)
(* handed back before, and neither does the answer to Exit, whose entries  *)
(* share no line with each other either.                                   *)
HandedBackOnce ==
  [][/\ \A l \in received' \ received : returned'[l.stream] \intersect released = {}
     /\ exited' # exited =>
          /\ Shown(returned'["main"]) \intersect Shown(released) = {}
          /\ \A d, e \in returned'["main"] : d # e => d.text.shows \intersect e.text.shows = {}
    ]_engineVars

(* Giving up is final: no filtered text is handed back afterwards.         *)
GivingUpIsFinal ==
  [][passthrough => /\ passthrough'
                    /\ \A e \in released' \ released : Verbatim(e)]_engineVars
=============================================================================
