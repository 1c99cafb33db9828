------------------------------ MODULE Upgrade ------------------------------
(***************************************************************************)
(* `cmdshape upgrade` (internal/lifecycle/upgrade.go) beside everything    *)
(* that runs meanwhile: a release is downloaded, verified and installed,   *)
(* then the installed binary runs `repair --yes` as a child, under the     *)
(* lock of HomeFilters.  On Unix the new binary is renamed over the old    *)
(* one; on Windows the old one is first renamed aside and, when the        *)
(* installation fails, renamed back.                                       *)
(***************************************************************************)
EXTENDS HomeFilters

CONSTANTS
  Platforms,    \* the operating systems: "unix", "windows"
  MayRace       \* whether an upgrade may start while another one runs

ASSUME UpgradeAssumption ==
  Platforms \subseteq {"unix", "windows"} /\ MayRace \in BOOLEAN

VARIABLES
  platform,
  asset,     \* of each process: the release it was asked for, and what it has staged
  backup,    \* of each process: the binary it has moved aside, or Absent
  doomed     \* of each process: the removal of its backup is scheduled

upgradeVars == <<platform, asset, backup, doomed>>
vars == <<homeVars, upgradeVars>>

\* A release as it arrives: whether the archive has the published checksum, how
\* many binaries it holds, and the version they print.
Archives == [sum : BOOLEAN, entries : 0..2, prints : Versions]
NoAsset == [tag |-> 1, prints |-> 1]

TypeOK ==
  /\ HomeTypeOK
  /\ platform \in Platforms
  /\ asset \in [Procs -> [tag : Versions, prints : Versions]]
  /\ backup \in [Procs -> Versions \cup {Absent}]
  /\ doomed \in [Procs -> BOOLEAN]
  /\ \A p \in Procs : pc[p] \in
       {"idle", "acquire", "stat", "takeover", "again", "release", "staged", "aside",
        "undo", "restore", "installed", "repair", "repaired", "scheduled"}
       \cup Adding \cup Rewriting

Init ==
  /\ HomeInit
  /\ platform \in Platforms
  /\ asset = [p \in Procs |-> NoAsset]
  /\ backup = [p \in Procs |-> Absent]
  /\ doomed = [p \in Procs |-> FALSE]

Upgrading(p) == kind[p] = "upgrade" /\ pc[p] # "idle"

\* The process is over, its download is removed.
Exit(p) == End(p) /\ asset' = [asset EXCEPT ![p] = NoAsset]

Rest == <<lockVars, home, mapFile, wiped, deleted, settled, edits>>

\* Checksum, archive and printed version are what was published and asked for.
Verified(archive, tag) ==
  archive.sum /\ archive.entries = 1 /\ archive.prints = tag

\* A release is resolved, downloaded to a directory of the process and verified.
\* An older one than the running binary is refused, and so is one that does not
\* verify.
StartUpgrade(p) ==
  /\ pc[p] = "idle" /\ exe # Absent /\ starts < MaxStarts /\ "upgrade" \in Kinds
  /\ MayRace \/ \A q \in Procs : ~Upgrading(q)
  /\ \E tag \in exe..MaxVersion, archive \in Archives :
       /\ Verified(archive, tag)
       /\ asset' = [asset EXCEPT ![p] = [tag |-> tag, prints |-> archive.prints]]
  /\ starts' = starts + 1
  /\ kind' = [kind EXCEPT ![p] = "upgrade"]
  /\ version' = [version EXCEPT ![p] = exe]
  /\ Goto(p, "staged")
  /\ UNCHANGED <<Rest, exe, todo, seen, failed, faults, crashes, others,
                 platform, backup, doomed>>

\* Unix: a temporary copy is renamed over the binary.
Replace(p) ==
  /\ pc[p] = "staged" /\ platform = "unix"
  /\ exe' = asset[p].prints
  /\ Goto(p, "installed")
  /\ UNCHANGED <<Rest, Locals, starts, faults, crashes, others,
                 platform, asset, backup, doomed>>

\* The copy fails, and nothing has changed; or the directory cannot be synced,
\* or the mode not be set, after the rename: the error ends the upgrade, with the
\* new binary installed and no repair.
ReplaceFails(p) ==
  /\ platform = "unix" /\ Incident
  /\ \/ pc[p] = "staged" /\ exe' \in {exe, asset[p].prints}
     \/ pc[p] = "installed" /\ UNCHANGED exe
  /\ faults' = faults + 1
  /\ Exit(p)
  /\ UNCHANGED <<Rest, starts, crashes, platform, backup, doomed>>

\* Windows: the running binary is renamed to a backup of its own name.
MoveAside(p) ==
  /\ pc[p] = "staged" /\ platform = "windows" /\ exe # Absent
  /\ backup' = [backup EXCEPT ![p] = exe]
  /\ doomed' = [doomed EXCEPT ![p] = FALSE]
  /\ exe' = Absent
  /\ Goto(p, "aside")
  /\ UNCHANGED <<Rest, Locals, starts, faults, crashes, others, platform, asset>>

\* The rename fails, or another upgrade has just moved the binary.
MoveAsideFails(p) ==
  /\ pc[p] = "staged" /\ platform = "windows"
  /\ \/ exe = Absent /\ UNCHANGED faults
     \/ Incident /\ faults' = faults + 1
  /\ Exit(p)
  /\ UNCHANGED <<Rest, exe, starts, crashes, platform, backup, doomed>>

Place(p) ==
  /\ pc[p] = "aside"
  /\ exe' = asset[p].prints
  /\ Goto(p, "installed")
  /\ UNCHANGED <<Rest, Locals, starts, faults, crashes, others,
                 platform, asset, backup, doomed>>

\* Mutant: no rollback.
PlaceFailsForGood(p) ==
  /\ pc[p] = "aside" /\ Incident
  /\ faults' = faults + 1
  /\ Exit(p)
  /\ UNCHANGED <<Rest, exe, starts, crashes, platform, backup, doomed>>

PlaceFails(p) ==
  /\ pc[p] = "aside" /\ Incident
  /\ faults' = faults + 1
  /\ Goto(p, "undo")
  /\ UNCHANGED <<Rest, exe, Locals, starts, crashes, others,
                 platform, asset, backup, doomed>>

\* The rollback: whatever is in place is removed, if that works, and the backup
\* renamed back, if that works.
RemovePartial(p) ==
  /\ pc[p] = "undo"
  /\ \/ exe' = Absent /\ UNCHANGED faults
     \/ Incident /\ faults' = faults + 1 /\ UNCHANGED exe
  /\ Goto(p, "restore")
  /\ UNCHANGED <<Rest, Locals, starts, crashes, others,
                 platform, asset, backup, doomed>>

Restore(p) ==
  /\ pc[p] = "restore"
  /\ \/ exe' = backup[p] /\ backup' = [backup EXCEPT ![p] = Absent] /\ UNCHANGED faults
     \/ Incident /\ faults' = faults + 1 /\ UNCHANGED <<exe, backup>>
  /\ Exit(p)
  /\ UNCHANGED <<Rest, starts, crashes, platform, doomed>>

\* The child is the binary that is installed by now, and it runs `repair --yes`;
\* if there is none, the repair has failed.
RunRepair(p) ==
  /\ pc[p] = "installed"
  /\ IF exe = Absent
     THEN Goto(p, "repaired") /\ failed' = [failed EXCEPT ![p] = TRUE] /\ UNCHANGED version
     ELSE Goto(p, "acquire") /\ version' = [version EXCEPT ![p] = exe] /\ UNCHANGED failed
  /\ UNCHANGED <<Rest, exe, kind, todo, seen, starts, faults, crashes, others,
                 platform, asset, backup, doomed>>

\* The removal of the backup is scheduled, also when the repair has failed.
ScheduleRemove(p) ==
  /\ pc[p] = "repaired"
  /\ \/ backup[p] = Absent /\ UNCHANGED <<doomed, failed, faults>>
     \/ /\ backup[p] # Absent
        /\ doomed' = [doomed EXCEPT ![p] = TRUE] /\ UNCHANGED <<failed, faults>>
     \/ /\ backup[p] # Absent /\ Incident /\ faults' = faults + 1
        /\ failed' = [failed EXCEPT ![p] = TRUE] /\ UNCHANGED doomed
  /\ Goto(p, "scheduled")
  /\ UNCHANGED <<Rest, exe, kind, version, todo, seen, starts, crashes, others,
                 platform, asset, backup>>

\* The child is killed: its lock stays, the upgrade goes on with its failure.
ChildCrashes(p) ==
  /\ kind[p] = "upgrade" /\ Incident
  /\ pc[p] \in {"acquire", "stat", "takeover", "again", "release"} \cup Rewriting
  /\ crashes' = crashes + 1
  /\ Goto(p, "repaired")
  /\ failed' = [failed EXCEPT ![p] = TRUE]
  /\ UNCHANGED <<Rest, exe, kind, version, todo, seen, starts, faults, others,
                 platform, asset, backup, doomed>>

Report(p) ==
  /\ pc[p] = "scheduled"
  /\ Exit(p)
  /\ UNCHANGED <<Rest, exe, starts, faults, crashes, platform, backup, doomed>>

\* The detached script deletes the backup, some time or never.
ScriptDeletes(p) ==
  /\ doomed[p] /\ backup[p] # Absent
  /\ backup' = [backup EXCEPT ![p] = Absent]
  /\ doomed' = [doomed EXCEPT ![p] = FALSE]
  /\ UNCHANGED <<homeVars, platform, asset>>

UpgradeStep(p) ==
  \/ StartUpgrade(p) \/ Replace(p) \/ ReplaceFails(p)
  \/ MoveAside(p) \/ MoveAsideFails(p) \/ Place(p) \/ PlaceFails(p)
  \/ RemovePartial(p) \/ Restore(p)
  \/ RunRepair(p) \/ ChildCrashes(p) \/ ScheduleRemove(p) \/ Report(p) \/ ScriptDeletes(p)

Next ==
  \/ \E p \in Procs : UpgradeStep(p)
  \/ \E p \in Procs : HomeStep(p) /\ UNCHANGED upgradeVars
  \/ EnvironmentStep /\ UNCHANGED upgradeVars

Spec == Init /\ [][Next]_vars

-----------------------------------------------------------------------------
(* Properties.                                                             *)

\* However an installation ends, and whatever crashes, a complete binary is in
\* its place or, on Windows, in a backup beside it; and unless two things go
\* wrong or a process is killed, it is in its place when the upgrades are over.
BinarySurvives ==
  /\ exe # Absent \/ \E p \in Procs : backup[p] # Absent
  /\ faults < 2 /\ crashes = 0 /\ (\A p \in Procs : pc[p] = "idle") => exe # Absent

\* An upgrade that is about to report success has left what it was asked for:
\* the installed binary, and the home filters written by that binary, except
\* those that others have changed since.
UpgradeIsEffective ==
  \A p \in Procs : pc[p] = "scheduled" /\ ~failed[p] =>
    /\ exe = asset[p].tag
    /\ \A x \in Shipped[asset[p].tag] \ others[p] : home[x] = asset[p].tag

\* No upgrade puts an older binary in the place of a newer one: what is installed
\* is compared with the binary it replaces, on Windows with the one set aside.
NoDowngrade ==
  [][exe' # exe /\ exe' # Absent =>
       /\ exe # Absent => exe' >= exe
       /\ \A p \in Procs : pc[p] = "aside" /\ pc'[p] # "aside" => exe' >= backup[p]]_vars
=============================================================================
