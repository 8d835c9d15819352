---------------------------- MODULE MCProjectFile ----------------------------
(* An instance of ProjectFile for TLC: a module with a route and an error  *)
(* handler, each with a module in it, and edits of every kind.             *)
EXTENDS ProjectFile, TLC

CONSTANTS m1, m2, m3, m4, v, w, key, other

At(kind, level, id) == [kind |-> kind, level |-> level, id |-> id, says |-> None]

Start == [flow |-> <<At("scenario", 0, None),
                     At("module", 1, m1),
                     At("route", 2, None), At("module", 3, m2),
                     At("handler", 2, None), At("module", 3, m3)>>,
          resources |-> <<key>>]

Leaf(id) == <<At("module", 0, id)>>
Nested(kind, id) == <<At(kind, 0, None), At("module", 1, id)>>

SomeEdits ==
    {[op |-> "modules.add", module |-> m, id |-> None, index |-> 0, position |-> 0] :
        m \in {Leaf(m2), Leaf(m4), <<At("module", 0, m4), At("route", 1, None),
                                   At("module", 2, m2)>>}}
    \cup {[op |-> "modules.add", module |-> Leaf(m4), id |-> m1, index |-> 0, position |-> 1],
          [op |-> "modules.modify", id |-> m2, patch |-> [says |-> w]],
          [op |-> "modules.modify", id |-> m3, patch |-> [id |-> m2]],
          [op |-> "modules.modify", id |-> m1, patch |-> [routes |-> Nested("route", m4)]],
          [op |-> "modules.delete", id |-> m2],
          [op |-> "modules.delete", id |-> m3],
          [op |-> "filters.add", id |-> m1, index |-> 0, filter |-> v],
          [op |-> "filters.modify", id |-> m1, index |-> 0, filter |-> w],
          [op |-> "filters.delete", id |-> m1, index |-> 0],
          [op |-> "error_handlers.add", id |-> m2, handler |-> <<At("handler", 0, None)>>],
          [op |-> "error_handlers.modify", id |-> m1, index |-> 0,
              patch |-> [flow |-> Leaf(m2)]],
          [op |-> "error_handlers.delete", id |-> m1, index |-> 0],
          [op |-> "datastores.add", key |-> other, row |-> None],
          [op |-> "datastores.modify", key |-> key, row |-> other],
          [op |-> "datastores.delete", key |-> key]}

Interchangeable == Permutations(Calls)
=============================================================================
