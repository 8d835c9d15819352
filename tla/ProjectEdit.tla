----------------------------- MODULE ProjectEdit -----------------------------
(***************************************************************************)
(* What project.edit makes of a scenario (src/src/mcp/project_loop.py and  *)
(* project_loop_storage.py).  ProjectFile has the calls and the file.      *)
(*                                                                         *)
(* A scenario is a tree: modules have routes and error handlers, and these *)
(* have flows of modules.  It is written here as an outline: all that is   *)
(* in it, in the order of _iter_modules, each with its level.  What hangs  *)
(* from an entry is what follows it on deeper levels.  The first entry is  *)
(* the scenario itself; each is followed by its routes, then its handlers. *)
(*                                                                         *)
(* A definition named X_..., next to a definition X, is a slip in X that   *)
(* one of the properties catches; none is used.                            *)
(***************************************************************************)
EXTENDS Naturals, Sequences, FiniteSets

CONSTANTS
    Ids,        \* of modules
    Values,     \* what a module or handler says of itself, or a route's filter
    Keys,       \* of datastores
    None        \* no filter, no key; no module: the scenario's own flow

ASSUME NoneIsNone == None \notin Ids \cup Values \cup Keys

Entry == [kind : {"scenario", "module", "route", "handler"}, level : Nat,
          id : Ids \cup {None}, says : Values \cup {None}]

(* What may hang from an entry of the level above n, *)
Forest(n) ==
    {part \in Seq(Entry) : \A k \in DOMAIN part :
        /\ part[k].level >= n
        /\ part[k].level <= IF k = 1 THEN n ELSE part[k - 1].level + 1}

(* and an entry with all that hangs from it. *)
Tree(kind) ==
    {part \in Forest(0) : /\ Len(part) > 0 /\ part[1].kind = kind
                          /\ \A k \in 2 .. Len(part) : part[k].level > 0}

Scenario == [flow : Tree("scenario"), resources : Seq(Keys \cup {None})]

Modules(flow) == {i \in DOMAIN flow : flow[i].kind = "module"}

Has_AtTheTop(flow, id) == \E i \in Modules(flow) : flow[i].level = 1 /\ flow[i].id = id

Has(flow, id) == \E i \in Modules(flow) : flow[i].id = id

(* _required_module: the first of that id. *)
Named(flow, id) ==
    {i \in Modules(flow) :
        flow[i].id = id /\ \A k \in Modules(flow) : k < i => flow[k].id # id}

(* Where what hangs from i ends. *)
IsEnd(flow, i, j) ==
    /\ \A k \in i + 1 .. j - 1 : flow[k].level > flow[i].level
    /\ j <= Len(flow) => flow[j].level <= flow[i].level

End(flow, i) == CHOOSE j \in i + 1 .. Len(flow) + 1 : IsEnd(flow, i, j)

(* The routes, handlers or modules right under i. *)
Under(flow, i, kind) ==
    {j \in i + 1 .. End(flow, i) - 1 :
        flow[j].level = flow[i].level + 1 /\ flow[j].kind = kind}

(* Where the handlers of i begin, if there are any. *)
HandlersOf(flow, i) ==
    CHOOSE h \in Under(flow, i, "handler") \cup {End(flow, i)} :
        \A k \in Under(flow, i, "handler") : h <= k

(* Of places, the one at an index, counted from 0. *)
Nth(places, index) == {j \in places : Cardinality({k \in places : k < j}) = index}

Within(places, index, end) ==
    IF index < Cardinality(places) THEN Nth(places, index) ELSE {end}

(* The flow with part in the place of what is from i to before j. *)
Spliced(flow, i, j, part) ==
    SubSeq(flow, 1, i - 1) \o part \o SubSeq(flow, j, Len(flow))

Lifted(part, n) == [k \in DOMAIN part |-> [part[k] EXCEPT !.level = @ + n]]

-----------------------------------------------------------------------------
\* What an edit makes of scenario s: one scenario, or none when it raises.

(* The route at the index, of the module that the edit names. *)
Routes(flow, e) ==
    UNION {Nth(Under(flow, i, "route"), e.index) : i \in Named(flow, e.id)}

(* _target_flow: the scenario's, or that of a route. *)
Targets(flow, e) == IF e.id = None THEN {1} ELSE Routes(flow, e)

(* add_project_module: only the new module's own id must be new, not the   *)
(* ids in its routes and handlers.                                         *)
Added(s, e) ==
    LET flow == s.flow
        new(j) == Lifted(e.module, flow[j].level + 1)
    IN  IF Has(flow, e.module[1].id) THEN {}
        ELSE UNION {{[s EXCEPT !.flow = Spliced(flow, k, k, new(j))] :
                        k \in Within(Under(flow, j, "module"), e.position, End(flow, j))} :
                    j \in Targets(flow, e)}

(* An entry after a patch of its fields. *)
Patched(x, patch) ==
    [x EXCEPT !.id = IF "id" \in DOMAIN patch THEN patch.id ELSE @,
              !.says = IF "says" \in DOMAIN patch THEN patch.says ELSE @]

(* What a patch has in a field, or what is there from i to before j. *)
Kept(flow, i, j, n, patch, field) ==
    IF field \in DOMAIN patch THEN Lifted(patch[field], n) ELSE SubSeq(flow, i, j - 1)

Modified_Each(s, e) ==
    {[s EXCEPT !.flow = [k \in DOMAIN @ |->
        IF k \in Modules(@) /\ @[k].id = e.id THEN Patched(@[k], e.patch) ELSE @[k]]] :
            i \in Named(s.flow, e.id)}

(* modify_project_module: the patch may be of any field, the id too, and   *)
(* then has its branches as they follow the module.                        *)
Modified(s, e) ==
    LET flow == s.flow
        patched(i) == LET h == HandlersOf(flow, i)
                          n == flow[i].level + 1
                      IN  <<Patched(flow[i], e.patch)>>
                          \o Kept(flow, i + 1, h, n, e.patch, "routes")
                          \o Kept(flow, h, End(flow, i), n, e.patch, "onerror")
    IN  {[s EXCEPT !.flow = Spliced(flow, i, End(flow, i), patched(i))] :
            i \in Named(flow, e.id)}

(* _remove_module: with all that hangs from it. *)
Deleted(s, e) ==
    {[s EXCEPT !.flow = Spliced(@, i, End(@, i), <<>>)] : i \in Named(s.flow, e.id)}

(* _filter_write *)
Filtered(s, e) ==
    LET filter == IF e.op = "filters.delete" THEN None ELSE e.filter
    IN  {[s EXCEPT !.flow[j].says = filter] :
            j \in {r \in Routes(s.flow, e) :
                      e.op = "filters.modify" => s.flow[r].says # None}}

(* _error_handler_write *)
Handled(s, e) ==
    LET flow == s.flow
        handlers(i) == Nth(Under(flow, i, "handler"), e.index)
        patched(j) == <<Patched(flow[j], e.patch)>>
                      \o Kept(flow, j + 1, End(flow, j), flow[j].level + 1, e.patch, "flow")
        outcomes(i) ==
          CASE e.op = "error_handlers.add" ->
                  {Spliced(flow, End(flow, i), End(flow, i),
                           Lifted(e.handler, flow[i].level + 1))}
            [] e.op = "error_handlers.modify" ->
                  {Spliced(flow, j, End(flow, j), patched(j)) : j \in handlers(i)}
            [] e.op = "error_handlers.delete" ->
                  {Spliced(flow, j, End(flow, j), <<>>) : j \in handlers(i)}
    IN  {[s EXCEPT !.flow = f] : f \in UNION {outcomes(i) : i \in Named(flow, e.id)}}

(* _edit_project_datastore_manifest: key is looked for, and row is the key *)
(* that the payload gives the row, None if it gives none.                  *)
Stocked(s, e) ==
    LET rows == s.resources
        found == {k \in DOMAIN rows : rows[k] = e.key
                                      /\ \A l \in 1 .. k - 1 : rows[l] # e.key}
    IN  CASE e.op = "datastores.add" ->
                IF found = {} THEN {[s EXCEPT !.resources = Append(@, e.row)]} ELSE {}
          [] e.op = "datastores.modify" ->
                {[s EXCEPT !.resources[k] = IF e.row = None THEN @ ELSE e.row] : k \in found}
          [] e.op = "datastores.delete" ->
                {[s EXCEPT !.resources = Spliced(@, k, k + 1, <<>>)] : k \in found}

EditProject(s, e) ==
    CASE e.op = "modules.add" -> Added(s, e)
      [] e.op = "modules.modify" -> Modified(s, e)
      [] e.op = "modules.delete" -> Deleted(s, e)
      [] e.op \in {"filters.add", "filters.modify", "filters.delete"} -> Filtered(s, e)
      [] e.op \in {"error_handlers.add", "error_handlers.modify",
                   "error_handlers.delete"} -> Handled(s, e)
      [] OTHER -> Stocked(s, e)

(* The arguments that an edit may have.  A patch of a module may have its  *)
(* routes and handlers anew, and one of a handler its flow.                *)
IsPatch(p) ==
    /\ "id" \in DOMAIN p => p.id \in Ids \cup {None}
    /\ "says" \in DOMAIN p => p.says \in Values \cup {None}
    /\ \A f \in {"routes", "onerror", "flow"} \cap DOMAIN p : p[f] \in Forest(0)

IsEdit(e) ==
    CASE e.op = "modules.add" ->
            e.module \in Tree("module") /\ e.module[1].id \in Ids
      [] e.op \in {"modules.modify", "error_handlers.modify"} -> IsPatch(e.patch)
      [] e.op \in {"filters.add", "filters.modify"} -> e.filter \in Values
      [] e.op = "error_handlers.add" -> e.handler \in Tree("handler")
      [] e.op \in {"datastores.add", "datastores.modify"} -> e.row \in Keys \cup {None}
      [] OTHER -> e.op \in {"modules.delete", "filters.delete",
                             "error_handlers.delete", "datastores.delete"}

(* The modules of a flow that have an id have one each. *)
IdsDiffer(flow) ==
    \A i, k \in Modules(flow) :
        flow[i].id = flow[k].id => i = k \/ flow[i].id = None

(* An edit brings ids that nothing compares with those that are there. *)
BringsIds(e) ==
    CASE e.op = "modules.add" -> Modules(e.module) # {1}
      [] e.op = "modules.modify" -> DOMAIN e.patch \cap {"id", "routes", "onerror"} # {}
      [] e.op = "error_handlers.add" -> Modules(e.handler) # {}
      [] e.op = "error_handlers.modify" -> "flow" \in DOMAIN e.patch
      [] OTHER -> FALSE
=============================================================================
