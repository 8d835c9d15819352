----------------------------- MODULE LiveUpload -----------------------------
(***************************************************************************)
(* The upload of a Make package: src/src/languages/make/live_upload.py.    *)
(* It creates data structures, data stores, webhooks, a scenario that is   *)
(* bound to them, and the scenario's notes, each by a call to the Make     *)
(* API.  There is no transaction around them: when a step fails, the       *)
(* upload deletes what it knows it has created, and a call may also be     *)
(* carried out without its answer coming back.                             *)
(*                                                                         *)
(* A definition named X_..., next to a definition X, is a slip in X that   *)
(* one of the properties catches; Next uses none of them.                  *)
(***************************************************************************)
EXTENDS Naturals, Sequences, SequencesExt

CONSTANTS
    Names,      \* resource keys, and the strings that stand for them
    Spelling,   \* of a string: stripped, and put in double braces
    Fields,     \* field paths
    Packages,   \* the packages that uploads are given
    None

Kinds == {"structure", "store", "hook", "scenario"}

(* structures, stores and hooks are the rows of the manifests, with what   *)
(* their POST needs: pairs of a key and, for a store, its                  *)
(* datastructure_ref.  fields are the strings of the blueprint with a      *)
(* {{runtime.}} placeholder in them: such a string is the placeholder of a *)
(* row or of a requirement, or one that none has (spaced, or with text     *)
(* around it).  writable are the paths from flow to a key of an object     *)
(* that is there.  connections and requires are what connections.json,     *)
(* with its example_field_paths, and runtime-values.json ask the client    *)
(* for.  listed: the package has only the field names that the public-safe *)
(* check lists.  No path leads through the field of another, and no value  *)
(* that a client gives has a placeholder in it.                            *)
Package == [structures : Seq(Names \X {None}), stores : Seq(Names \X Names),
            hooks : Seq(Names \X {None}),
            fields : [Fields -> Names \cup {None}], writable : SUBSET Fields,
            connections : SUBSET [source : Names, paths : SUBSET Fields],
            requires : SUBSET Names, notes : {"none", "sound", "absent modules"},
            listed : BOOLEAN]

ASSUME UploadConstants ==
    /\ None \notin Names
    /\ Spelling \in [Names -> Names]
    /\ \A p \in Packages : p \in Package

VARIABLES
    objects,    \* at Make: everything ever created; an id is a position
    live,       \* at Make: the ids that exist
    noted,      \* at Make: the scenarios that have their notes
    asked,      \* what prepare_live_upload was called with
    pc,         \* the call that prepare_live_upload makes next, or its end
    at,         \* the row of the package that is next
    created,    \* created: the ids, by kind, in the order of their answers
    bound,      \* resource_bindings: what each structure and placeholder is
    todo,       \* what _rollback_created has left to delete
    lost,       \* history: created, and the answer did not arrive
    undeleted,  \* history: a delete was called for it and did not take effect
    unreached,  \* history: left over by a rollback that broke off
    faultless   \* history: every call has been answered

make    == <<objects, live, noted>>
local   == <<created, bound, todo>>
history == <<lost, undeleted, unreached>>
vars    == <<make, asked, pc, at, local, history, faultless>>

-----------------------------------------------------------------------------
Empty == [n \in {} |-> None]
Nothing == [k \in Kinds |-> <<>>]
ended == {"idle", "refused", "blocked", "applied", "failed", "killed"}

Tagged(kind, rows) == [i \in DOMAIN rows |-> <<kind, rows[i][1], rows[i][2]>>]

(* The order of the three loops. *)
Rows(p) == Tagged("structure", p.structures) \o Tagged("store", p.stores)
                                             \o Tagged("hook", p.hooks)

(* A structure is bound as "datastructure:key", the others by placeholder. *)
Key(kind, n) == <<IF kind = "structure" THEN "structure" ELSE "placeholder", n>>

Known_NoScenario(c) ==
    Reverse(c["hook"]) \o Reverse(c["store"]) \o Reverse(c["structure"])
Known_StructuresFirst(c) ==
    Reverse(c["structure"]) \o Reverse(c["scenario"]) \o Reverse(c["hook"])
                            \o Reverse(c["store"])

(* _rollback_created *)
Known(c) == Reverse(c["scenario"]) \o Reverse(c["hook"])
            \o Reverse(c["store"]) \o Reverse(c["structure"])

Init ==
    /\ objects = <<>> /\ live = {} /\ noted = {}
    /\ asked = None /\ pc = "idle" /\ at = 1
    /\ created = Nothing /\ bound = Empty /\ todo = <<>>
    /\ lost = {} /\ undeleted = {} /\ unreached = {} /\ faultless = TRUE

Sources(p) == {c.source : c \in p.connections}

(* _missing_bindings: a key that a client gives stands for itself and for  *)
(* what it spells.                                                         *)
Missing(asks, given) == {n \in asks : n \notin given /\ Spelling[n] \notin given}

(* From the command, through load_live_upload_bundle, or by a caller that  *)
(* has the bundle; given are the client's connections, values its values.  *)
Start(p, given, values, cleanup, command) ==
    /\ asked' = [package |-> p, rows |-> Rows(p), values |-> values, cleanup |-> cleanup]
    /\ pc' = IF command /\ ~p.listed THEN "refused"
             ELSE IF Missing(Sources(p), given) \cup Missing(p.requires, values) # {}
             THEN "blocked"
             ELSE "resources"
    /\ UNCHANGED <<make, at, local, history, faultless>>

package == asked.package

(* except Exception: the error is raised again after the cleanup. *)
Failed ==
    /\ todo' = IF asked.cleanup THEN Known(created) ELSE <<>>
    /\ pc' = IF asked.cleanup THEN "rollback" ELSE "failed"
    /\ UNCHANGED <<at, created, bound>>

(* A POST that Make carries out; its answer is another matter. *)
Made(kind, name, refs) ==
    /\ objects' = Append(objects, [kind |-> kind, name |-> name, refs |-> refs])
    /\ live' = live \cup {Len(objects')}

Bound(key, id) == [k \in DOMAIN bound \cup {key} |-> IF k = key THEN id ELSE bound[k]]

Answered(kind, key) ==
    /\ created' = [created EXCEPT ![kind] = Append(@, Len(objects'))]
    /\ bound' = Bound(key, Len(objects'))
    /\ UNCHANGED <<todo, lost, faultless>>

Unanswered ==
    /\ lost' = lost \cup {Len(objects')}
    /\ faultless' = FALSE
    /\ Failed

(* An error of the API or of the transport, before anything is done. *)
Refused ==
    /\ faultless' = FALSE
    /\ Failed
    /\ UNCHANGED <<make, lost>>

RefsOf(row) == IF row[1] = "store" THEN {bound[Key("structure", row[3])]} ELSE {}

Unbindable(row) == row[1] = "store" /\ Key("structure", row[3]) \notin DOMAIN bound

(* _create_data_structures, _create_data_stores, _create_webhooks *)
Create ==
    /\ pc = "resources" /\ at <= Len(asked.rows)
    /\ LET row == asked.rows[at] IN
       /\ ~Unbindable(row)
       /\ \/ /\ Made(row[1], row[2], RefsOf(row)) /\ Answered(row[1], Key(row[1], row[2]))
             /\ at' = at + 1
             /\ UNCHANGED pc
          \/ Made(row[1], row[2], RefsOf(row)) /\ Unanswered
          \/ Refused
    /\ UNCHANGED <<noted, asked, undeleted, unreached>>

(* _int_binding: the store's structure is not among those created. *)
CannotCreate ==
    /\ pc = "resources" /\ at <= Len(asked.rows)
    /\ Unbindable(asked.rows[at])
    /\ Failed
    /\ UNCHANGED <<make, asked, history, faultless>>

(* _replace_exact_strings, with the created ids and, over them, the        *)
(* client's values.                                                        *)
Replaced(n) == n \in asked.values \/ Key("store", n) \in DOMAIN bound

(* _apply_connection_path_bindings: a connection is written at the paths   *)
(* that its requirement lists, or, when it lists none, replaces the        *)
(* strings equal to its source.                                            *)
PathsOf(p) == UNION {c.paths : c \in p.connections}
Pathless_None(p) == {}
Pathless(p) == {c.source : c \in {d \in p.connections : d.paths = {}}}

(* _unresolved_runtime_placeholders finds nothing in the field.            *)
Resolved(f) ==
    LET n == package.fields[f] IN
    \/ n = None \/ f \in PathsOf(package)
    \/ Replaced(n) \/ n \in Pathless(package)

Bindable == PathsOf(package) \subseteq package.writable /\ \A f \in Fields : Resolved(f)

(* The created ids that are in the bound blueprint.                        *)
BoundRefs ==
    LET replaced == {package.fields[f] : f \in Fields \ PathsOf(package)} \ asked.values
    IN  {bound[k] : k \in DOMAIN bound \cap {Key("store", n) : n \in replaced}}

(* _bind_blueprint *)
Bind ==
    /\ pc = "resources" /\ at > Len(asked.rows)
    /\ IF Bindable
       THEN pc' = "scenario" /\ UNCHANGED <<at, local>>
       ELSE Failed
    /\ UNCHANGED <<make, asked, history, faultless>>

(* POST /scenarios *)
CreateScenario ==
    /\ pc = "scenario"
    /\ \/ /\ Made("scenario", None, BoundRefs) /\ Answered("scenario", <<"scenario", None>>)
          /\ pc' = "notes"
          /\ UNCHANGED at
       \/ Made("scenario", None, BoundRefs) /\ Unanswered
       \/ Refused
    /\ UNCHANGED <<noted, asked, undeleted, unreached>>

scenario == Last(created["scenario"])

CreateNotes_ErrorIgnored ==
    /\ pc = "notes"
    /\ pc' = "compare"
    /\ noted' \in {noted, noted \cup {scenario}}
    /\ UNCHANGED <<objects, live, asked, at, local, history, faultless>>

(* _create_scenario_notes: one batch, or none. *)
CreateNotes ==
    /\ pc = "notes"
    /\ \/ /\ package.notes = "none"
          /\ pc' = "compare"
          /\ UNCHANGED <<noted, at, local, faultless>>
       \/ /\ package.notes = "absent modules"
          /\ Failed
          /\ UNCHANGED <<noted, faultless>>
       \/ /\ package.notes = "sound"
          /\ noted' = noted \cup {scenario}
          /\ pc' = "compare"
          /\ UNCHANGED <<at, local, faultless>>
       \/ /\ package.notes = "sound"
          /\ noted' \in {noted, noted \cup {scenario}}
          /\ faultless' = FALSE
          /\ Failed
    /\ UNCHANGED <<objects, live, asked, history>>

(* _export_compare_status: whatever the blueprint is, it is only reported. *)
Compare ==
    /\ pc = "compare"
    /\ \/ /\ pc' = "applied"
          /\ UNCHANGED <<at, local, faultless>>
       \/ /\ faultless' = FALSE
          /\ Failed
    /\ UNCHANGED <<make, asked, history>>

Deleted(id) ==
    /\ live' = live \ {id}
    /\ UNCHANGED undeleted

NotDeleted(id) ==
    /\ undeleted' = undeleted \cup {id}
    /\ UNCHANGED live

(* _suppressing_live_error passes over what request_json raises as a       *)
(* LiveUploadError: an HTTP or a transport error.  The end of a timeout    *)
(* while the answer is read, or an answer that is no JSON, is another      *)
(* exception, and it ends the rollback.                                    *)
Delete ==
    /\ pc = "rollback" /\ todo # <<>>
    /\ Deleted(Head(todo)) \/ NotDeleted(Head(todo))
    /\ \/ /\ todo' = Tail(todo)
          /\ UNCHANGED <<pc, unreached>>
       \/ /\ todo' = <<>>
          /\ pc' = "failed"
          /\ unreached' = unreached \cup ToSet(Tail(todo))
    /\ UNCHANGED <<objects, noted, asked, at, created, bound, lost,
                   faultless>>

RolledBack ==
    /\ pc = "rollback" /\ todo = <<>>
    /\ pc' = "failed"
    /\ UNCHANGED <<make, asked, at, local, history, faultless>>

(* The process is killed, or interrupted: KeyboardInterrupt is no          *)
(* Exception.  A call on its way is a call without an answer: it has been  *)
(* taken to be carried out, or not, before.                                *)
Kill ==
    /\ pc \notin ended
    /\ pc' = "killed"
    /\ faultless' = FALSE
    /\ UNCHANGED <<make, asked, at, local, history>>

Step == Create \/ CannotCreate \/ Bind \/ CreateScenario \/ CreateNotes
            \/ Compare \/ Delete \/ RolledBack

(* What a client may give: what is asked for, or any string that is there. *)
Keys(names) == {Spelling[n] : n \in names} \cup names
Asked(p) == (p.requires \cup {p.fields[f] : f \in Fields}) \ {None}

Begin ==
    /\ pc = "idle"
    /\ \E p \in Packages, cleanup, command \in BOOLEAN :
         \E given \in SUBSET Keys(Sources(p)), values \in SUBSET Keys(Asked(p)) :
            Start(p, given, values, cleanup, command)

Next ==
    \/ Begin
    \/ Step
    \/ Kill

Spec == Init /\ [][Next]_vars

-----------------------------------------------------------------------------
Ids == DOMAIN objects

(* Values have their types, and what the upload knows exists or was asked  *)
(* to be deleted: a created id is one that Make has given it.              *)
TypeOK ==
    /\ objects \in Seq([kind : Kinds, name : Names \cup {None}, refs : SUBSET Ids])
    /\ live \subseteq Ids /\ noted \subseteq Ids
    /\ pc # "idle" =>
           /\ asked.package \in Packages /\ asked.rows = Rows(asked.package)
           /\ asked.values \subseteq Names /\ asked.cleanup \in BOOLEAN
    /\ pc \in ended \cup {"resources", "scenario", "notes", "compare", "rollback"}
    /\ at \in Nat \ {0}
    /\ created \in [Kinds -> Seq(Ids)]
    /\ \A k \in Kinds : \A i \in ToSet(created[k]) : objects[i].kind = k
    /\ \A k \in DOMAIN bound : bound[k] \in Ids
    /\ todo \in Seq(Ids)
    /\ lost \subseteq Ids /\ undeleted \subseteq Ids /\ unreached \subseteq Ids
    /\ faultless \in BOOLEAN

(* A failed upload that cleans up leaves only what it was never told of,   *)
(* what Make did not delete when asked to, and what a rollback that broke  *)
(* off did not come to.                                                    *)
LeftoversAreExcused ==
    pc = "failed" /\ asked.cleanup => live \subseteq lost \cup undeleted \cup unreached

(* Whenever the upload stops, or is killed, what exists at Make does not   *)
(* refer to what does not, unless it should itself have been deleted or    *)
(* the upload was never told of it: the order of the cleanup.              *)
NothingDangles ==
    \A i \in live \ (lost \cup undeleted) : objects[i].refs \subseteq live

Matches(i, kind, n) == objects[i].kind = kind /\ objects[i].name = n

(* An upload that reports live_upload_applied has made, once, each row of  *)
(* the package, each store over its own structure, and a scenario with its *)
(* notes in which each placeholder stands for an object of its key, unless *)
(* the client gave a value for it or a connection was written over it: a   *)
(* listed path is not compared with what the blueprint has there.          *)
AppliedIsWhole ==
    pc = "applied" =>
        /\ live = Ids /\ Len(objects) = Len(asked.rows) + 1
        /\ \A j \in DOMAIN asked.rows :
               LET row == asked.rows[j] IN
               \E i \in live :
                  /\ Matches(i, row[1], row[2])
                  /\ row[1] = "store" =>
                         \E s \in live : /\ Matches(s, "structure", row[3])
                                         /\ objects[i].refs = {s}
        /\ \A f \in Fields \ PathsOf(package) :
               \/ package.fields[f] \in asked.values \cup Pathless(package) \cup {None}
               \/ \E i \in objects[scenario].refs :
                     \/ Matches(i, "store", package.fields[f])
                     \/ Matches(i, "hook", package.fields[f])
        /\ package.notes = "sound" => scenario \in noted

(* Without a fault, only a package that contradicts itself fails: its      *)
(* stores have their structures, its connections are listed at paths of    *)
(* its blueprint, and each string with a placeholder is one that a row,    *)
(* the client or a connection stands for.  A connection that is listed     *)
(* with paths stands for nothing but what it is written at.                *)
SoundPackagesApply ==
    pc = "failed" /\ faultless =>
        \/ \E i \in DOMAIN package.stores :
              \A j \in DOMAIN package.structures :
                 package.stores[i][2] # package.structures[j][1]
        \/ \E c \in package.connections : ~(c.paths \subseteq package.writable)
        \/ \E f \in Fields :
              LET n == package.fields[f] IN
              /\ n # None /\ n \notin asked.values
              /\ \A i \in DOMAIN asked.rows :
                    asked.rows[i][1] = "structure" \/ asked.rows[i][2] # n
              /\ \A c \in package.connections :
                    f \notin c.paths /\ ~(c.source = n /\ c.paths = {})
        \/ package.notes = "absent modules"
=============================================================================
