----------------------------- MODULE ProjectFile -----------------------------
(***************************************************************************)
(* scenario.json under calls of project.edit (src/src/mcp/project_loop.py  *)
(* and project_loop_storage.py): a call loads the file, makes its change   *)
(* on a copy and, when that differs, writes the whole file over the old    *)
(* one.  There is no lock and no temporary file, and the HTTP server runs  *)
(* its calls in threads, beside those of other servers.                    *)
(*                                                                         *)
(* What an edit makes of a scenario is in ProjectEdit.  Dry runs write     *)
(* nothing and are left out, and so are edits of notes.                    *)
(*                                                                         *)
(* A definition named X_..., next to a definition X, is a slip in X that   *)
(* one of the properties catches; Next uses none of them.                  *)
(***************************************************************************)
EXTENDS ProjectEdit

CONSTANTS
    Calls,          \* each makes one edit
    Edits,          \* the arguments that calls may have
    Original        \* the scenario at the start

ASSUME EditsAreEdits == \A e \in Edits : IsEdit(e)
ASSUME OriginalIsAScenario == Original \in Scenario /\ IdsDiffer(Original.flow)

VARIABLES
    file,       \* scenario.json: Empty, Mixed, or a version
    calls       \* calls[c]: how far call c is, and with what

vars == <<file, calls>>

-----------------------------------------------------------------------------
Empty == [kind |-> "empty"]     \* opened for writing, nothing written yet
Mixed == [kind |-> "mixed"]     \* one text and the rest of a longer one

(* made: the calls whose edits the version has been through. *)
Version(s, made) == [kind |-> "version", scenario |-> s, made |-> made]

Readable == file.kind = "version"

New == [at |-> "new", edit |-> None, base |-> Empty, version |-> Empty,
        seen |-> {}, beside |-> {}]

Those(state) == {c \in Calls : calls[c].at = state}

Init == /\ file = Version(Original, {})
        /\ calls = [c \in Calls |-> New]

Read_Once == Version(Original, {})

(* _read_json_object *)
Read == file

(* The edit is made on what was read; the file is not read again. *)
Load(c, e) ==
    /\ calls[c].at = "new" /\ Readable
    /\ \E s \in EditProject(Read.scenario, e) :
          /\ s # Read.scenario
          /\ calls' = [calls EXCEPT ![c] =
                 [New EXCEPT !.at = "loaded", !.edit = e, !.base = Read,
                             !.version = Version(s, Read.made \cup {c}),
                             !.seen = Those("answered")]]
    /\ UNCHANGED file

(* The file is no JSON, the edit raises, or it changes nothing. *)
Refuse(c, e) ==
    /\ calls[c].at = "new"
    /\ Readable => EditProject(Read.scenario, e) \subseteq {Read.scenario}
    /\ calls' = [calls EXCEPT ![c] = [New EXCEPT !.at = "refused"]]
    /\ UNCHANGED file

(* write_text opens the file, which empties it, *)
OpenFile(c) ==
    /\ calls[c].at = "loaded"
    /\ file' = Empty
    /\ calls' = [calls EXCEPT ![c].at = "open", ![c].beside = Those("open")]

Texts_NotEmptied(v) == {v, Mixed}

(* writes from its beginning, where the end of a longer text may remain    *)
(* that another call wrote since,                                          *)
Texts(v) == IF file = Empty THEN {v} ELSE {v, Mixed}

(* and answers "updated". *)
Write(c) ==
    /\ calls[c].at = "open"
    /\ file' \in Texts(calls[c].version)
    /\ calls' = [calls EXCEPT ![c].at = "answered", ![c].base = Empty,
                                  ![c].version = Empty]

Kill(c) ==
    /\ calls[c].at \in {"loaded", "open"}
    /\ calls' = [calls EXCEPT ![c] =
           [New EXCEPT !.at = IF calls[c].at = "open" THEN "cut" ELSE "killed"]]
    /\ UNCHANGED file

Next == \E c \in Calls :
    \/ \E e \in Edits : Load(c, e) \/ Refuse(c, e)
    \/ OpenFile(c) \/ Write(c) \/ Kill(c)

Spec == Init /\ [][Next]_vars

-----------------------------------------------------------------------------
OnTheirWay == Those("loaded") \cup Those("open")

Versions == [kind : {"version"}, scenario : Scenario, made : SUBSET Calls]

Call == [at : {"new", "loaded", "open", "answered", "refused", "killed", "cut"},
         edit : Edits \cup {None},
         base : Versions \cup {Empty}, version : Versions \cup {Empty},
         seen : SUBSET Calls, beside : SUBSET Calls]

(* The file is a version, Empty or Mixed, and a call has a version it read *)
(* and one it will write while it is on its way.  Every version has a      *)
(* scenario that is a tree.                                                *)
TypeOK ==
    /\ file \in Versions \cup {Empty, Mixed}
    /\ calls \in [Calls -> Call]
    /\ \A c \in OnTheirWay : /\ calls[c].edit \in Edits
                             /\ {calls[c].base, calls[c].version} \subseteq Versions

(* An edit leaves the modules with an id each, of those that have one,     *)
(* unless it brings ids of its own past the check.                         *)
EditsKeepIds ==
    \A c \in OnTheirWay : LET call == calls[c] IN
        IdsDiffer(call.base.scenario.flow) =>
            IdsDiffer(call.version.scenario.flow) \/ BringsIds(call.edit)

(* Two modules have one id only after an edit that brought ids of its own  *)
(* past the check: adding at once, from the same start, never does it.     *)
DuplicatesAreTheCallers ==
    Readable /\ ~IdsDiffer(file.scenario.flow) =>
        \E c \in file.made : BringsIds(calls[c].edit)

(* The flow without the module at i and all that hangs from it. *)
Rest(flow, i) == Spliced(flow, i, End(flow, i), <<>>)

(* An edit may make new of old: it changes the first module of the id that *)
(* it names, adds or deletes one, or leaves the flow as it is.             *)
LeavesOthers(e, old, new) ==
    CASE e.op = "modules.add" ->
            \E i \in Named(new, e.module[1].id) : Rest(new, i) = old
      [] e.op = "modules.delete" ->
            \E i \in Named(old, e.id) : new = Rest(old, i)
      [] e.op \in {"datastores.add", "datastores.modify", "datastores.delete"} ->
            new = old
      [] OTHER ->
            \E i \in Named(old, e.id) : Rest(new, i) = Rest(old, i)

(* What a call is about to write differs from what it read in the first    *)
(* module of the id that it names, and in nothing that does not hang from  *)
(* it: not in others of that id, nor in what is before, after or above.    *)
OthersAreKept ==
    \A c \in OnTheirWay :
        LeavesOthers(calls[c].edit, calls[c].base.scenario.flow,
                     calls[c].version.scenario.flow)

(* An answered edit is missing from the file only if a call that had       *)
(* loaded before the answer wrote its own version.                         *)
LostOnlyToOverlap ==
    Readable => \A m \in Those("answered") \ file.made :
        \E c \in file.made : m \notin calls[c].seen

(* Nobody has the file open and it is no JSON: a writer was killed, or two *)
(* had it open at once.  Then every call is refused, and for good.         *)
TornIsExcused ==
    ~Readable /\ Those("open") = {} =>
        \/ Those("cut") # {}
        \/ \E c \in Calls : calls[c].beside # {}
=============================================================================
