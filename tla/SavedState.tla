------------------------------ MODULE SavedState ------------------------------
(***************************************************************************)
(* What the printer keeps on disk.  configfile.py reads the configuration: *)
(* the user's part with its includes, and below a header the options that  *)
(* SAVE_CONFIG wrote, which lose against the user's.  Modules set options  *)
(* and drop sections in memory; SAVE_CONFIG writes a new file beside the   *)
(* old one, moves the old one away and the new one in its place, and       *)
(* restarts (SAVE_CONFIG_QD of this repository syncs the disk and does     *)
(* not).  save_variables.py rewrites its file in place.  The process may   *)
(* end, or the power fail, between any two steps on the disk; renames      *)
(* reach it in order, data only with a sync.  Option values are 0 (absent),*)
(* 1 or 2.                                                                 *)
(***************************************************************************)
EXTENDS Naturals, FiniteSets

CONSTANTS
  Sections,   \* the options of each section, a function
  Names,      \* the variables
  MaxSets, MaxSaves, MaxEdits, MaxFaults

VARIABLES what, disk, host, incl, saved, store, count   \* what is looked at: "config" or "variables"

vars == <<what, disk, host, incl, saved, store, count>>

Options == UNION {Sections[x] : x \in DOMAIN Sections}
Nothing == [o \in Options |-> 0]
Missing == [kind |-> "missing", reg |-> Nothing, auto |-> Nothing, junk |-> FALSE]
Partial == [Missing EXCEPT !.kind = "partial"]

\* Left of two parts of the file wins (options of the other are commented out).
_strip_duplicates(data, config) == [o \in Options |-> IF config[o] # 0 THEN 0 ELSE data[o]]
Overlay(first, second) == [o \in Options |-> IF first[o] # 0 THEN first[o] ELSE second[o]]
\* A block with anything else below the header is ignored: all of it is part of the regular file, as comments.
_find_autosave_data(file) == IF file.junk THEN Nothing ELSE file.auto

\* What a start makes of the file: the options that the modules get, and the block kept for the next save.
Down == [up |-> FALSE, auto |-> Nothing, base |-> Nothing, pending |-> [o \in Options |-> "no"], flag |-> FALSE,
         eff |-> Nothing, step |-> "idle"]
read_main_config ==
  /\ ~host.up
  /\ disk.main.kind = "file"
  /\ LET regular == Overlay(disk.main.reg, incl)
         auto == _strip_duplicates(_find_autosave_data(disk.main), regular) IN
     host' = [Down EXCEPT !.up = TRUE, !.auto = auto, !.base = auto, !.eff = Overlay(regular, auto)]
  /\ UNCHANGED <<what, disk, incl, saved, store, count>>

Idle == what = "config" /\ host.up /\ host.step = "idle"

SectionOf(o) == CHOOSE x \in DOMAIN Sections : o \in Sections[x]
IsThere(auto, x) == \E o \in Sections[x] : auto[o] # 0

\* Mutant: the other options set in the section are forgotten.
Noted_alone(o, v) ==
  [p \in Options |-> IF p = o THEN v ELSE IF p \in Sections[SectionOf(o)] THEN "no" ELSE host.pending[p]]
\* A section that was noted as dropped starts anew with the option set.
Noted(o, v) ==
  [p \in Options |-> IF p = o THEN v
                     ELSE IF p \in Sections[SectionOf(o)] /\ host.pending[p] = "dropped" THEN "no"
                     ELSE host.pending[p]]

set ==
  /\ Idle
  /\ count.sets < MaxSets
  /\ \E o \in Options :
       host' = [host EXCEPT !.auto[o] = 2, !.pending = Noted(o, "set"), !.flag = TRUE]
  /\ count' = [count EXCEPT !.sets = @ + 1]
  /\ UNCHANGED <<what, disk, incl, saved, store>>

remove_section ==
  /\ Idle
  /\ count.sets < MaxSets
  /\ \E x \in DOMAIN Sections :
       /\ IsThere(host.auto, x)
       /\ host' = [host EXCEPT !.auto = [o \in Options |-> IF o \in Sections[x] THEN 0 ELSE @[o]],
                               !.pending = [o \in Options |-> IF o \in Sections[x] THEN "dropped" ELSE @[o]],
                               !.flag = TRUE]
  /\ count' = [count EXCEPT !.sets = @ + 1]
  /\ UNCHANGED <<what, disk, incl, saved, store>>

\* Mutant: the options saved are not commented out in the user's part.
SavedFile_twice == [disk.main EXCEPT !.auto = host.auto]
\* The file to be written: the user's part without what is saved, and the saved block below it.
SavedFile == [disk.main EXCEPT !.reg = _strip_duplicates(@, host.auto), !.auto = host.auto]
_disallow_include_conflicts == \A o \in Options : host.auto[o] # 0 => incl[o] = 0

\* Mutant: the file is written in place.
SaveOpens_in_place ==
  /\ host' = [host EXCEPT !.step = "moved"]
  /\ disk' = [disk EXCEPT !.temp = SavedFile, !.main = Partial, !.unsynced = TRUE]
SaveOpens ==
  /\ host' = [host EXCEPT !.step = "opened"]
  /\ disk' = [disk EXCEPT !.temp = Partial, !.unsynced = TRUE]

cmd_SAVE_CONFIG ==
  /\ Idle
  /\ count.saves < MaxSaves
  /\ host.auto # Nothing
  /\ disk.main.kind = "file"
  /\ _disallow_include_conflicts
  /\ SaveOpens
  /\ count' = [count EXCEPT !.saves = @ + 1]
  /\ UNCHANGED <<what, incl, saved, store>>

SaveWrites ==
  /\ host.step = "opened"
  /\ disk' = [disk EXCEPT !.temp = SavedFile]
  /\ host' = [host EXCEPT !.step = "written"]
  /\ UNCHANGED <<what, incl, saved, store, count>>

SaveMovesOld ==
  /\ host.step = "written"
  /\ disk' = [disk EXCEPT !.backup = @ \cup {disk.main}, !.main = Missing]
  /\ host' = [host EXCEPT !.step = "moved"]
  /\ UNCHANGED <<what, incl, saved, store, count>>

\* SAVE_CONFIG asks for a restart, SAVE_CONFIG_QD syncs and goes on with the items still noted.
SaveMovesNew ==
  /\ host.step = "moved"
  /\ \/ host' = Down /\ disk' = [disk EXCEPT !.main = disk.temp, !.temp = Missing]
     \/ /\ host' = [host EXCEPT !.step = "idle"]
        /\ disk' = [disk EXCEPT !.main = disk.temp, !.temp = Missing, !.unsynced = FALSE]
  /\ saved' = host.auto
  /\ UNCHANGED <<what, incl, store, count>>

\* A full disk: the command ends with an error wherever it is.
SaveFails ==
  /\ host.step \in {"opened", "written", "moved"}
  /\ count.faults < MaxFaults
  /\ host' = [host EXCEPT !.step = "idle"]
  /\ count' = [count EXCEPT !.faults = @ + 1]
  /\ UNCHANGED <<what, disk, incl, saved, store>>

\* The user edits the file or an include while the printer runs; what was saved says nothing about the next start.
Edit ==
  /\ count.edits < MaxEdits
  /\ what = "config"
  /\ host.step = "idle"
  /\ disk.main.kind = "file"
  /\ \/ \E o \in Options, v \in 0..1 : disk' = [disk EXCEPT !.main.reg[o] = v] /\ UNCHANGED incl
     \/ \E o \in Options : incl' = [incl EXCEPT ![o] = 1 - @] /\ UNCHANGED disk
     \/ disk' = [disk EXCEPT !.main.junk = TRUE] /\ UNCHANGED incl
  /\ saved' = Nothing
  /\ count' = [count EXCEPT !.edits = @ + 1]
  /\ UNCHANGED <<what, host, store>>

\* The variables that have a value: in the file (none while it is rewritten), in memory, and stored so far.
Loaded(file) == [store EXCEPT !.file = file, !.mem = file, !.rewrite = {}]

\* Mutant: the file gets the new variable only.
cmd_SAVE_VARIABLE_alone(n) == {n}
\* The file is written anew from memory, or by a module from what it reads there.
cmd_SAVE_VARIABLE(n) == store.mem \cup {n}
save_variable(n) == store.file \cup {n}

StoreOpens ==
  /\ host.up
  /\ what = "variables"
  /\ store.rewrite = {}
  /\ \E n \in Names \ store.mem : \E new \in {cmd_SAVE_VARIABLE(n), save_variable(n)} :
       store' = [store EXCEPT !.file = {}, !.rewrite = new]
  /\ UNCHANGED <<what, disk, host, incl, saved, count>>

loadVariables ==
  /\ store.rewrite # {}
  /\ store' = [Loaded(store.rewrite) EXCEPT !.stored = @ \cup store.rewrite]
  /\ UNCHANGED <<what, disk, host, incl, saved, count>>

\* A full disk leaves the file short and memory as it is.
StoreFails ==
  /\ store.rewrite # {}
  /\ count.faults < MaxFaults
  /\ store' = [store EXCEPT !.rewrite = {}, !.cut = TRUE]
  /\ count' = [count EXCEPT !.faults = @ + 1]
  /\ UNCHANGED <<what, disk, host, incl, saved>>

\* The process ends, or the power fails: then data that was not synced is gone.
Crash ==
  /\ count.faults < MaxFaults
  /\ host.up
  /\ host' = Down
  /\ \E power \in BOOLEAN :
       LET lost == power /\ disk.unsynced IN
       disk' = [disk EXCEPT !.temp = IF lost /\ @.kind = "file" THEN Partial ELSE @,
                            !.main = IF lost /\ disk.temp.kind = "missing" THEN Partial ELSE @,
                            !.unsynced = FALSE]
  /\ store' = [Loaded(store.file) EXCEPT !.cut = @ \/ store.rewrite # {}]
  /\ count' = [count EXCEPT !.faults = @ + 1]
  /\ UNCHANGED <<what, incl, saved>>

\* The file is created empty if there is none. Every option of allVariables starts without a value in it.
StoreStart == [file |-> {}, mem |-> {}, rewrite |-> {}, stored |-> {}, cut |-> FALSE]

Init ==
  /\ what \in {"config", "variables"}
  /\ \E reg \in {[Nothing EXCEPT ![o] = 1] : o \in Options}, auto \in {Nothing, [o \in Options |-> 1]} :
       disk = [main |-> [kind |-> "file", reg |-> reg, auto |-> auto, junk |-> FALSE], temp |-> Missing,
               backup |-> {}, unsynced |-> FALSE]
  /\ host = Down
  /\ incl = Nothing
  /\ saved = Nothing
  /\ store = StoreStart
  /\ count = [sets |-> 0, saves |-> 0, edits |-> 0, faults |-> 0]

Next ==
  \/ read_main_config \/ set \/ remove_section \/ Edit \/ Crash
  \/ cmd_SAVE_CONFIG \/ SaveWrites \/ SaveMovesOld \/ SaveMovesNew \/ SaveFails
  \/ StoreOpens \/ loadVariables \/ StoreFails

Spec == Init /\ [][Next]_vars

(***************************************************************************)
(* Properties                                                              *)
(***************************************************************************)

\* Whatever is cut short, a whole configuration is on disk, under its own name or a dated one (cmd_SAVE_CONFIG).
ConfigIsSomewhere == disk.main.kind = "file" \/ disk.backup # {}

\* The next start gives the modules what was saved, if nobody edited a file since, and nothing but the saved block
\* is below the header (_strip_duplicates, _disallow_include_conflicts, read_main_config).
SavedIsRead ==
  host.up /\ ~host.flag /\ ~disk.main.junk => \A o \in Options : saved[o] # 0 => host.eff[o] = saved[o]

\* What the status lists as pending has every option that differs from what was read (set, remove_section).
PendingIsTrue ==
  host.up => \A o \in Options : host.auto[o] \notin {0, host.base[o]} => host.pending[o] = "set"

\* A variable that was stored is in memory ever after, restarts included, unless a rewrite of the file was cut
\* short (cmd_SAVE_VARIABLE, save_variable, loadVariables).
VariablesAreKept == store.cut \/ store.stored \subseteq store.mem

(***************************************************************************)
(* What a step keeps.                                                      *)
(***************************************************************************)

Values == [Options -> 0..2]
Files == [kind : {"file", "missing", "partial"}, reg : Values, auto : Values, junk : BOOLEAN]
Disks == [main : Files, temp : Files, backup : SUBSET Files, unsynced : BOOLEAN]
Hosts == [up : BOOLEAN, auto : Values, base : Values, pending : [Options -> {"no", "set", "dropped"}], flag : BOOLEAN,
          eff : Values, step : {"idle", "opened", "written", "moved"}]
Stores == [file : SUBSET Names, mem : SUBSET Names, rewrite : SUBSET Names, stored : SUBSET Names, cut : BOOLEAN]

TypeOK == disk \in Disks /\ host \in Hosts /\ incl \in [Options -> 0..1] /\ saved \in Values /\ store \in Stores

\* A command that saves is run by a printer that is up, and what it writes beside the old file loses no option.
SaveIsWhole ==
  /\ host.step # "idle" => host.up /\ host.auto # Nothing /\ \A o \in Options : host.auto[o] # 0 => incl[o] = 0
  /\ host.step \in {"opened", "written"} => disk.main.kind = "file"
  /\ host.step \in {"written", "moved"} =>
       disk.temp.auto = host.auto /\ \A o \in Options : host.auto[o] # 0 => disk.temp.reg[o] = 0
  /\ host.step = "moved" \/ (disk.unsynced /\ disk.temp.kind = "missing") => disk.backup # {}

\* A whole file has what was saved, and nothing else says otherwise.
FileHasSaved ==
  disk.main.kind = "file" =>
    \A o \in Options : saved[o] # 0 => disk.main.auto[o] = saved[o] /\ disk.main.reg[o] = 0 /\ incl[o] = 0

\* What a printer that changed nothing would save is what its modules got.
UnchangedIsRead ==
  host.up /\ ~host.flag =>
    /\ \A o \in Options : host.auto[o] # 0 => host.eff[o] = host.auto[o]
    /\ (\A o \in Options : saved[o] # 0 => host.eff[o] = saved[o]) \/ (host.auto = Nothing /\ disk.main.junk)

DroppedAreGone == host.up => \A o \in Options : host.pending[o] = "dropped" => host.auto[o] = 0

\* Until a rewrite is cut short, file and rewrite have what was stored.
StoredIsThere == store.cut \/ store.stored \subseteq (IF store.rewrite = {} THEN store.file ELSE store.rewrite)

IInv ==
  /\ TypeOK /\ SaveIsWhole /\ FileHasSaved /\ UnchangedIsRead /\ DroppedAreGone /\ StoredIsThere
  /\ ConfigIsSomewhere /\ PendingIsTrue /\ VariablesAreKept
=============================================================================
