---------------------------- MODULE MCLiveUpload ----------------------------
(* An instance of LiveUpload for TLC. *)
EXTENDS LiveUpload

CONSTANTS a, b, v, c, spaced, f, g

(* The strings are braced names; spaced is v's with blanks inside. *)
SpellingOf == [n \in Names |-> IF n = spaced THEN v ELSE n]

(* What project.make writes has one structure for each store, under its    *)
(* key.  A reader that meets a rewrite of the package has files of two.    *)
RowPackages ==
    [structures : {<<>>, <<<<a, None>>>>, <<<<a, None>>, <<b, None>>>>},
     stores : {<<>>, <<<<a, a>>>>, <<<<a, a>>, <<b, b>>>>},
     hooks : {<<>>, <<<<v, None>>>>},
     fields : [{f} -> {None, a}] \X [{g} -> {None, v}],
     notes : {"none", "sound", "absent modules"}, requires : {{}, {v}}]

(* A connection is asked for at no path, at one, at both: at paths that    *)
(* the blueprint has or has not, with or without its placeholder there.    *)
ConnectionPackages ==
    [structures : {<<<<a, None>>>>}, stores : {<<<<a, a>>>>},
     hooks : {<<>>, <<<<v, None>>>>},
     fields : [{f} -> {None, a, c}] \X [{g} -> {None, v, c, spaced}],
     writable : {{f, g}, {g}}, notes : {"sound"}, requires : {{}, {v}, {spaced}},
     connections : SUBSET [source : {c}, paths : {{}, {f}, {g}}]]

Blueprint(p) == [x \in Fields |-> IF x = f THEN p.fields[1][f] ELSE p.fields[2][g]]

Packaged(p, writable, connections, listed) ==
    [structures |-> p.structures, stores |-> p.stores, hooks |-> p.hooks,
     fields |-> Blueprint(p), writable |-> writable, connections |-> connections,
     requires |-> p.requires, notes |-> p.notes, listed |-> listed]

Delivered ==
    {Packaged(p, Fields, {}, TRUE) : p \in RowPackages}
    \cup {Packaged(p, p.writable, p.connections, p.requires = {}) : p \in ConnectionPackages}
=============================================================================
