---------------------------- MODULE CatalogGraph ----------------------------
(***************************************************************************)
(* The typed graph of the catalog, in SQLite, and the tools that change    *)
(* it: nodes are put straight in (catalog.node.modify), edges go through a *)
(* proposal that a reviewer approves (src/src/mcp/catalog_mutation.py),    *)
(* and a worker that saves its lease puts in what it found                 *)
(* (_index_saved_graph_outputs in src/src/mcp/inactive_catalog_work.py;    *)
(* the lease is in CatalogWork).  Rows are never changed but for valid_to, *)
(* and every tool of catalog_mutation leaves an event.                     *)
(*                                                                         *)
(* Each tool is one transaction, and it takes its time before it waits for *)
(* the lock: times need not grow from one to the next, and two may have    *)
(* one time.                                                               *)
(*                                                                         *)
(* A definition named X_..., next to a definition X, is a slip in X that   *)
(* one of the properties catches; Next uses none of them.                  *)
(***************************************************************************)
EXTENDS Naturals, Sequences

CONSTANTS
    Ids,        \* node ids and edge ids
    Domains,
    Catalog,    \* CATALOG_WORK_GRAPH_DOMAIN
    Payloads,   \* payload_json, and what else a row says of its node
    Contents,   \* what a proposal says of its edge, the domain included
    DomainOf,   \* DomainOf[c]: the domain column of content c
    Derived,    \* Derived[c]: the edge id of _stable_id
    Proposals,  \* proposal ids
    Runs,       \* catalog runs that workers save to
    MaxTime,    \* bound: times
    MaxLog,     \* bound: events
    None

Values == Payloads \cup Contents

ASSUME GraphConstants ==
    /\ Catalog \in Domains
    /\ DomainOf \in [Contents -> Domains]
    /\ Derived \in [Contents -> Ids]
    /\ None \notin Proposals \cup Runs \cup Values \cup Ids
    /\ Ids \cap Proposals = {}     \* target_kind tells one from the other
    /\ MaxTime \in Nat /\ MaxLog \in Nat

VARIABLES
    nodes,      \* rows of entity_nodes
    edges,      \* rows of entity_edges
    proposals,  \* proposals[p]: the row of catalog_edge_proposals, or None
    log         \* catalog_modification_events, in the order of the commits

vars == <<nodes, edges, proposals, log>>

-----------------------------------------------------------------------------
Open == 0                                   \* valid_to IS NULL
Time == 1 .. MaxTime

(* run is the ingest_run_id, None for CATALOG_MUTATION_INGEST_RUN_ID; via  *)
(* is the proposal that source_ref names.                                  *)
Row == [id : Ids, domain : Domains, value : Values, via : Proposals \cup {None},
        from : Time, to : Time \cup {Open}, run : Runs \cup {None}]

Proposal == [content : Contents,
             status : {"proposed", "approved", "rejected", "applied"},
             edge : Ids \cup {None}]

ASSUME NoneIsNoProposal == None \notin Proposal

Ops == {"upsert_node", "propose_edge", "approved", "rejected", "apply_edge"}

(* value is what the tool was given; the payload_json of the event has it  *)
(* but for the payload of the node or edge, so the value also serves as    *)
(* the history that EdgesWereApproved needs.                               *)
Event == [op : Ops, target : Ids \cup Proposals, at : Time,
          value : Values \cup {None}, via : Proposals \cup {None}]

NewRow(id, domain, value, via, t, run) ==
    [id |-> id, domain |-> domain, value |-> value, via |-> via,
     from |-> t, to |-> Open, run |-> run]

(* UPDATE ... SET valid_to = t WHERE ... AND valid_to IS NULL *)
Closed(T, S, t) ==
    {IF r \in S /\ r.to = Open THEN [r EXCEPT !.to = t] ELSE r : r \in T}

Of(T, id, domain) == {r \in T : r.id = id /\ r.domain = domain}

(* PRIMARY KEY (node_id, valid_from): a plain INSERT is refused. *)
Free(T, id, t) == \A r \in T : r.id # id \/ r.from # t

Replaced_WholeId(T, rows) == rows \cup {r \in T : \A q \in rows : q.id # r.id}

(* INSERT OR REPLACE takes the place of the row with its key. *)
Replaced(T, rows) ==
    rows \cup {r \in T : \A q \in rows : q.id # r.id \/ q.from # r.from}

(* _log_event: the event id is made of op, target and time, and a second   *)
(* one is refused, with all that the tool has done.                        *)
Logged(op, target, t, value, via) ==
    /\ Len(log) < MaxLog
    /\ \A k \in DOMAIN log : <<log[k].op, log[k].target, log[k].at>> # <<op, target, t>>
    /\ log' = Append(log, [op |-> op, target |-> target, at |-> t,
                           value |-> value, via |-> via])

Init ==
    /\ nodes = {} /\ edges = {}
    /\ proposals = [p \in Proposals |-> None]
    /\ log = <<>>

(* catalog_node_modify: over whatever is current of that id and domain. *)
NodeModify(id, domain, payload, t) ==
    /\ Free(nodes, id, t)
    /\ nodes' = Closed(nodes, Of(nodes, id, domain), t)
                    \cup {NewRow(id, domain, payload, None, t, None)}
    /\ Logged("upsert_node", id, t, payload, None)
    /\ UNCHANGED <<edges, proposals>>

Propose_KeepsStatus(p, content, t) ==
    /\ proposals' = [proposals EXCEPT ![p] =
           [content |-> content, status |-> IF @ = None THEN "proposed" ELSE @.status,
            edge |-> None]]
    /\ Logged("propose_edge", p, t, content, None)
    /\ UNCHANGED <<nodes, edges>>

(* catalog_edge_propose: INSERT OR REPLACE, whatever became of the last    *)
(* one of that id.                                                         *)
Propose(p, content, t) ==
    /\ proposals' = [proposals EXCEPT ![p] =
           [content |-> content, status |-> "proposed", edge |-> None]]
    /\ Logged("propose_edge", p, t, content, None)
    /\ UNCHANGED <<nodes, edges>>

SetStatus_OnlyOnce(p, status, t) ==
    /\ proposals[p] # None
    /\ proposals' = IF proposals[p].status = "proposed"
                    THEN [proposals EXCEPT ![p].status = status] ELSE proposals
    /\ Logged(status, p, t, None, None)
    /\ UNCHANGED <<nodes, edges>>

(* catalog_modify, approve_edge_proposal and reject_edge_proposal: also of *)
(* one that is applied already, and its edge stays.                        *)
SetStatus(p, status, t) ==
    /\ proposals[p] # None
    /\ proposals' = [proposals EXCEPT ![p].status = status]
    /\ Logged(status, p, t, None, None)
    /\ UNCHANGED <<nodes, edges>>

(* _edge_id_for_proposal: the edge_id of the call, or else the stable one. *)
EdgeIdsFor(p) == Ids \cup {Derived[proposals[p].content]}

Apply_OverEarlier(p, id, t) ==
    /\ Free(edges, id, t)
    /\ LET c == proposals[p].content IN
       edges' = Closed(edges, {r \in Of(edges, id, DomainOf[c]) : r.from < t}, t)
                    \cup {NewRow(id, DomainOf[c], c, p, t, None)}
    /\ proposals' = [proposals EXCEPT ![p].status = "applied", ![p].edge = id]
    /\ Logged("apply_edge", id, t, None, p)
    /\ UNCHANGED nodes

(* catalog_edge_apply: over whatever is current, and there may be rows     *)
(* from later than t.                                                      *)
Apply(p, id, t) ==
    /\ Free(edges, id, t)
    /\ LET c == proposals[p].content IN
       edges' = Closed(edges, Of(edges, id, DomainOf[c]), t)
                    \cup {NewRow(id, DomainOf[c], c, p, t, None)}
    /\ proposals' = [proposals EXCEPT ![p].status = "applied", ![p].edge = id]
    /\ Logged("apply_edge", id, t, None, p)
    /\ UNCHANGED nodes

(* The proposal is read in the transaction. *)
Applicable(p) == proposals[p] # None /\ proposals[p].status = "approved"

(* What a save does to one of the two tables: found[id] is the last item   *)
(* of that id in the batch.  Only rows of the same run are closed.         *)
Indexed(T, found, run, t) ==
    Replaced(Closed(T, {r \in T : /\ r.domain = Catalog /\ r.run = run
                                  /\ r.id \in DOMAIN found}, t),
             {NewRow(id, Catalog, found[id], None, t, run) : id \in DOMAIN found})

(* _index_saved_graph_outputs *)
Save(run, foundNodes, foundEdges, t) ==
    /\ nodes' = Indexed(nodes, foundNodes, run, t)
    /\ edges' = Indexed(edges, foundEdges, run, t)
    /\ UNCHANGED <<proposals, log>>

Found(S) == UNION {[D -> S] : D \in SUBSET Ids}

Next == \E t \in Time :
    \/ \E id \in Ids, domain \in Domains, v \in Payloads : NodeModify(id, domain, v, t)
    \/ \E p \in Proposals :
          \/ \E c \in Contents : Propose(p, c, t)
          \/ \E status \in {"approved", "rejected"} : SetStatus(p, status, t)
          \/ Applicable(p) /\ \E id \in EdgeIdsFor(p) : Apply(p, id, t)
    \/ \E run \in Runs, n \in Found(Payloads), e \in Found(Contents) : Save(run, n, e, t)

Spec == Init /\ [][Next]_vars

-----------------------------------------------------------------------------
(* Rows, proposals and events have their types. *)
TypeOK ==
    /\ nodes \subseteq Row /\ edges \subseteq Row
    /\ proposals \in [Proposals -> Proposal \cup {None}]
    /\ log \in Seq(Event)

(* A graph lookup by id meets one current row per domain for each of those *)
(* who write: a tool of catalog_mutation closes what is there, and a save  *)
(* what its own run has put there.                                         *)
OneOpenRow ==
    \A T \in {nodes, edges} : \A r, q \in T :
       /\ r.id = q.id /\ r.domain = q.domain /\ r.run = q.run
       /\ r.to = Open /\ q.to = Open
       => r = q

About(k, p) == log[k].target = p \/ log[k].via = p

(* The last event about p before position k. *)
Latest(j, k, p) == j < k /\ About(j, p) /\ \A i \in (j + 1) .. (k - 1) : ~About(i, p)

IsProposalOf(k, p) == log[k].op = "propose_edge" /\ log[k].target = p

(* What was proposed last under p before position k. *)
ProposedLast(i, k, p) ==
    i < k /\ IsProposalOf(i, p) /\ \A m \in (i + 1) .. (k - 1) : ~IsProposalOf(m, p)

StatusAfter(op) == CASE op = "propose_edge" -> "proposed"
                     [] op = "apply_edge" -> "applied"
                     [] OTHER -> op

(* The events tell what each proposal says and where it stands, whatever   *)
(* was proposed again under its id, approved, rejected or applied before.  *)
LogTellsStatus ==
    \A p \in Proposals :
       IF proposals[p] = None THEN \A k \in DOMAIN log : ~About(k, p)
       ELSE \E k \in DOMAIN log :
          /\ Latest(k, Len(log) + 1, p)
          /\ proposals[p].status = StatusAfter(log[k].op)

(* Every edge that came by a proposal was applied while its approval was   *)
(* the last word on it, and has the content that was proposed last before  *)
(* the approval: nothing is approved and then replaced unseen.             *)
EdgesWereApproved ==
    \A r \in edges : r.via # None =>
       \E k \in DOMAIN log :
          /\ log[k].op = "apply_edge" /\ log[k].at = r.from
          /\ log[k].target = r.id /\ log[k].via = r.via
          /\ \E j \in DOMAIN log : Latest(j, k, r.via) /\ log[j].op = "approved"
          /\ \E i \in DOMAIN log : ProposedLast(i, k, r.via) /\ log[i].value = r.value

Succeeds(q, r) ==
    /\ q.id = r.id /\ q.from = r.from
    /\ \/ q = r
       \/ r.to = Open /\ q = [r EXCEPT !.to = q.to]
       \/ q.run \in Runs /\ q.to = Open

(* No row is lost or written twice: it stays as it is but for being        *)
(* closed, once, unless a save of the same instant takes its place.        *)
HistoryIsKept ==
    [][ /\ \A r \in nodes : \E q \in nodes' : Succeeds(q, r)
        /\ \A r \in edges : \E q \in edges' : Succeeds(q, r) ]_vars
=============================================================================
