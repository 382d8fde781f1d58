-------------------------- MODULE DomainProjection --------------------------
(***************************************************************************)
(* The process-local projection of the domain tables: every API instance   *)
(* answers from its caches of accounts, nodes and edges, and reloads them  *)
(* when the generation counter in PostgreSQL differs from the generation   *)
(* it has loaded (state.rs, middleware/domain_projection.rs, domain_db.rs).*)
(* Handlers also write what they have committed through to the caches, and *)
(* the governance sweep does so without holding the projection gate.       *)
(*                                                                         *)
(* One instance: instances share nothing but the database, so the others   *)
(* are the commits they make there.                                        *)
(*                                                                         *)
(* The content of a cell is the generation in which it was last written.   *)
(* Each table has one row, of one cell or, for an account, of two: the     *)
(* profile and the role, which different writers change.  One commit makes *)
(* one generation: the triggers count rows, but nobody sees the counts     *)
(* between two commits.                                                    *)
(***************************************************************************)
EXTENDS Naturals

CONSTANTS
    Requests,     \* requests the instance serves at a time
    NoOne,        \* nobody holds the write side of the gate
    MaxAttempts,  \* MAX_ATTEMPTS of load_stable_domain_projection_from_postgres
    MaxGen        \* bound: commits to the domain tables

ASSUME ProjectionAssumption ==
    /\ NoOne \notin Requests
    /\ MaxAttempts \in Nat \ {0}
    /\ MaxGen \in Nat

Cells == {"profile", "role", "node", "edge"}
Tables == {"accounts", "nodes", "edges"}

\* The cells of a table's row.
RowOf == [t \in Tables |-> CASE t = "accounts" -> {"profile", "role"}
                             [] t = "nodes"    -> {"node"}
                             [] t = "edges"    -> {"edge"}]

\* What one handler's transaction writes: a profile, a node, a Faden, or a node
\* with its Fäden.
Writes == {{"profile"}, {"node"}, {"edge"}, {"node", "edge"}}

VARIABLES
    gen,       \* domain_projection_state.version
    rows,      \* rows[g]: the domain tables after commit g
    cache,     \* accounts, nodes and edges of ApiState
    local,     \* ApiState::domain_projection_version
    gate,      \* who holds domain_projection_gate for writing
    pc,        \* where a request is
    since,     \* the generation a request read on arrival
    load,      \* the reload of the holder of the gate
    held,      \* rows a handler has in hand for the caches: cells and generation
    promoted   \* promotion the sweep has committed and not yet mirrored, or 0

dbVars == <<gen, rows>>
vars == <<dbVars, cache, local, gate, pc, since, load, held, promoted>>

Gens == 0..MaxGen
Content == [Cells -> Gens]
Blank == [c \in Cells |-> 0]

\* before: the generation it started from; tries: attempts; todo: tables not read
\* yet; buf: what has been read.
LoadType == [before : Gens, tries : 0..MaxAttempts, todo : SUBSET Tables, buf : Content]
NoLoad == [before |-> 0, tries |-> 0, todo |-> {}, buf |-> Blank]
Nothing == [cells |-> {}, at |-> 0]

\* Running requests hold the gate for reading.
Running == {"running", "writing"}
Loading == {"recheck", "load", "loading", "install"}
PCs == {"idle", "compare", "wait_write", "wait_read"} \cup Loading \cup Running

TypeOK ==
    /\ gen \in Gens
    /\ rows \in [Gens -> Content]
    /\ cache \in Content
    /\ local \in Gens
    /\ gate \in Requests \cup {NoOne}
    /\ pc \in [Requests -> PCs]
    /\ since \in [Requests -> Gens]
    /\ load \in LoadType
    /\ held \in [Requests -> [cells : SUBSET Cells, at : Gens]]
    /\ promoted \in Gens

Init ==
    /\ gen = 0
    /\ rows = [g \in Gens |-> Blank]
    /\ cache = Blank
    /\ local = 0
    /\ gate = NoOne
    /\ pc = [r \in Requests |-> "idle"]
    /\ since = [r \in Requests |-> 0]
    /\ load = NoLoad
    /\ held = [r \in Requests |-> Nothing]
    /\ promoted = 0

-----------------------------------------------------------------------------
(* The database *)

\* A commit that writes the cells cs.  The triggers advance the generation in the
\* same transaction.
Commit(cs) ==
    /\ gen < MaxGen
    /\ gen' = gen + 1
    /\ rows' = [rows EXCEPT ![gen + 1] =
                  [c \in Cells |-> IF c \in cs THEN gen + 1 ELSE rows[gen][c]]]

\* accept_proposal promotes guests only.
Promote == rows[gen]["role"] = 0 /\ Commit({"role"})

\* A handler or the sweep of another instance commits.
CommitElsewhere ==
    /\ Promote \/ \E w \in Writes : Commit(w)
    /\ UNCHANGED <<cache, local, gate, pc, since, load, held, promoted>>

-----------------------------------------------------------------------------
(* refresh_domain_projection_if_stale *)

Goto(r, p) == pc' = [pc EXCEPT ![r] = p]

\* A request arrives and reads the generation.
Arrive(r) ==
    /\ pc[r] = "idle"
    /\ since' = [since EXCEPT ![r] = gen]
    /\ Goto(r, "compare")
    /\ UNCHANGED <<dbVars, cache, local, gate, load, held, promoted>>

\* Mutant of Compare: any loaded projection is good enough.
CompareNever(r) ==
    /\ pc[r] = "compare"
    /\ Goto(r, "wait_read")
    /\ UNCHANGED <<dbVars, cache, local, gate, since, load, held, promoted>>

\* It compares what it read with the loaded generation.
Compare(r) ==
    /\ pc[r] = "compare"
    /\ Goto(r, IF since[r] = local THEN "wait_read" ELSE "wait_write")
    /\ UNCHANGED <<dbVars, cache, local, gate, since, load, held, promoted>>

\* Mutant of AcquireWrite: the reload does not wait for running requests.
AcquireWriteAnyway(r) ==
    /\ pc[r] = "wait_write"
    /\ gate = NoOne
    /\ gate' = r
    /\ Goto(r, "recheck")
    /\ UNCHANGED <<dbVars, cache, local, since, load, held, promoted>>

\* The write side of the gate excludes reloads and running requests.
AcquireWrite(r) ==
    /\ pc[r] = "wait_write"
    /\ gate = NoOne
    /\ \A q \in Requests : pc[q] \notin Running
    /\ gate' = r
    /\ Goto(r, "recheck")
    /\ UNCHANGED <<dbVars, cache, local, since, load, held, promoted>>

\* Mutant of Recheck: the guard outlives the early return.
RecheckKeepsGate(r) ==
    /\ pc[r] = "recheck"
    /\ Goto(r, IF gen = local THEN "wait_read" ELSE "load")
    /\ UNCHANGED <<dbVars, cache, local, gate, since, load, held, promoted>>

\* Under the gate the generations are compared again: another request may have
\* reloaded meanwhile.
Recheck(r) ==
    /\ pc[r] = "recheck"
    /\ \/ gen = local /\ gate' = NoOne /\ Goto(r, "wait_read")
       \/ gen # local /\ Goto(r, "load") /\ UNCHANGED gate
    /\ UNCHANGED <<dbVars, cache, local, since, load, held, promoted>>

-----------------------------------------------------------------------------
(* load_stable_domain_projection_from_postgres *)

\* An attempt reads the generation and starts the three queries.
LoadBegin(r) ==
    /\ pc[r] = "load"
    /\ load' = [before |-> gen, tries |-> load.tries + 1, todo |-> Tables, buf |-> Blank]
    /\ Goto(r, "loading")
    /\ UNCHANGED <<dbVars, cache, local, gate, since, held, promoted>>

\* One of the three concurrent queries, each with its own snapshot.
LoadTable(r, t) ==
    /\ pc[r] = "loading"
    /\ t \in load.todo
    /\ load' = [load EXCEPT !.todo = @ \ {t},
                            !.buf = [c \in Cells |-> IF c \in RowOf[t]
                                                     THEN rows[gen][c] ELSE @[c]]]
    /\ UNCHANGED <<dbVars, cache, local, gate, pc, since, held, promoted>>

\* Mutant of LoadEnd: the generation is not read again.
LoadEndUnfenced(r) ==
    /\ pc[r] = "loading"
    /\ load.todo = {}
    /\ Goto(r, "install")
    /\ UNCHANGED <<dbVars, cache, local, gate, since, load, held, promoted>>

\* Mutant of LoadEnd: an attempt is repeated although it was the last.
LoadEndOneMore(r) ==
    /\ pc[r] = "loading"
    /\ load.todo = {}
    /\ Goto(r, IF gen = load.before THEN "install" ELSE "load")
    /\ UNCHANGED <<dbVars, cache, local, gate, since, load, held, promoted>>

\* The generation is read again: equal, the load is good; otherwise it is
\* repeated, and after MaxAttempts the request fails with 503.
LoadEnd(r) ==
    /\ pc[r] = "loading"
    /\ load.todo = {}
    /\ \/ gen = load.before /\ Goto(r, "install") /\ UNCHANGED <<gate, since, load>>
       \/ /\ gen # load.before /\ load.tries < MaxAttempts
          /\ Goto(r, "load")
          /\ UNCHANGED <<gate, since, load>>
       \/ /\ gen # load.before /\ load.tries = MaxAttempts
          /\ Goto(r, "idle")
          /\ gate' = NoOne /\ load' = NoLoad
          /\ since' = [since EXCEPT ![r] = 0]
    /\ UNCHANGED <<dbVars, cache, local, held, promoted>>

\* All three caches and the generation are replaced and the gate is released.
Install(r) ==
    /\ pc[r] = "install"
    /\ cache' = load.buf
    /\ local' = load.before
    /\ gate' = NoOne /\ load' = NoLoad
    /\ Goto(r, "wait_read")
    /\ UNCHANGED <<dbVars, since, held, promoted>>

-----------------------------------------------------------------------------
(* Handlers: ensure_current_domain_projection runs them under a read guard *)

AcquireRead(r) ==
    /\ pc[r] = "wait_read"
    /\ gate = NoOne
    /\ Goto(r, "running")
    /\ UNCHANGED <<dbVars, cache, local, gate, since, load, held, promoted>>

\* The rows that have a cell in cs.
WholeRows(cs) == {c \in Cells : \E t \in Tables : c \in RowOf[t] /\ RowOf[t] \cap cs # {}}

\* A handler commits and keeps for the caches the rows as its transaction left
\* them, or only the fields it has changed.
CommitWrite(r) ==
    /\ pc[r] = "running"
    /\ \E w \in Writes :
          /\ Commit(w)
          /\ \E cs \in {w, WholeRows(w)} :
                held' = [held EXCEPT ![r] = [cells |-> cs, at |-> gen + 1]]
    /\ Goto(r, "writing")
    /\ UNCHANGED <<cache, local, gate, since, load, promoted>>

\* A handler reads canonical rows for the caches: an operation that was already
\* carried out, a lost race for an e-mail address, or a new node and its Faden as
\* they are after the handler's own commit (lock_node_faden_cache_publication).
ReadCanonical(r) ==
    /\ pc[r] \in Running
    /\ \E w \in Writes :
          held' = [held EXCEPT ![r] = [cells |-> WholeRows(w), at |-> gen]]
    /\ Goto(r, "writing")
    /\ UNCHANGED <<dbVars, cache, local, gate, since, load, promoted>>

\* The handler writes the rows it has in hand to the caches.
WriteThrough(r) ==
    /\ pc[r] = "writing"
    /\ cache' = [c \in Cells |-> IF c \in held[r].cells THEN rows[held[r].at][c]
                                                        ELSE cache[c]]
    /\ held' = [held EXCEPT ![r] = Nothing]
    /\ Goto(r, "running")
    /\ UNCHANGED <<dbVars, local, gate, since, load, promoted>>

\* The handler returns and the read guard is dropped.
Finish(r) ==
    /\ pc[r] = "running"
    /\ Goto(r, "idle")
    /\ since' = [since EXCEPT ![r] = 0]
    /\ UNCHANGED <<dbVars, cache, local, gate, load, held, promoted>>

\* The client goes away or a statement fails: the request's future is dropped
\* where it is, with its guards, also between commit and write-through.
Cancel(r) ==
    /\ pc[r] # "idle"
    /\ Goto(r, "idle")
    /\ since' = [since EXCEPT ![r] = 0]
    /\ held' = [held EXCEPT ![r] = Nothing]
    /\ gate' = IF gate = r THEN NoOne ELSE gate
    /\ load' = IF gate = r THEN NoLoad ELSE load
    /\ UNCHANGED <<dbVars, cache, local, promoted>>

-----------------------------------------------------------------------------
(* The governance sweep, which does not take the gate *)

\* finalize_due_proposals commits a promotion.  A governance request runs the same
\* code under its read guard.
finalize_due_proposals ==
    /\ promoted = 0
    /\ Promote
    /\ promoted' = gen + 1
    /\ UNCHANGED <<cache, local, gate, pc, since, load, held>>

\* Mutant of apply_promotions_to_store: the account is inserted as it was when
\* the promotion was committed.
ApplyWholeAccount ==
    /\ promoted # 0
    /\ cache' = [cache EXCEPT !["role"] = promoted, !["profile"] = rows[promoted]["profile"]]
    /\ promoted' = 0
    /\ UNCHANGED <<dbVars, local, gate, pc, since, load, held>>

\* apply_promotions_to_store changes the role of the cached account, if that is
\* still a guest.
apply_promotions_to_store ==
    /\ promoted # 0
    /\ cache' = [cache EXCEPT !["role"] = IF @ = 0 THEN promoted ELSE @]
    /\ promoted' = 0
    /\ UNCHANGED <<dbVars, local, gate, pc, since, load, held>>

-----------------------------------------------------------------------------

\* The process dies and starts again; it serves nothing before its first load.
Restart ==
    /\ cache' = rows[gen]
    /\ local' = gen
    /\ gate' = NoOne
    /\ pc' = [r \in Requests |-> "idle"]
    /\ since' = [r \in Requests |-> 0]
    /\ load' = NoLoad
    /\ held' = [r \in Requests |-> Nothing]
    /\ promoted' = 0
    /\ UNCHANGED dbVars

refresh_domain_projection_if_stale(r) ==
    \/ Compare(r)
    \/ Recheck(r)
    \/ LoadBegin(r)
    \/ \E t \in Tables : LoadTable(r, t)
    \/ LoadEnd(r)
    \/ Install(r)

Next ==
    \/ \E r \in Requests :
          \/ Arrive(r)
          \/ refresh_domain_projection_if_stale(r)
          \/ AcquireWrite(r)
          \/ AcquireRead(r)
          \/ CommitWrite(r)
          \/ ReadCanonical(r)
          \/ WriteThrough(r)
          \/ Finish(r)
          \/ Cancel(r)
    \/ CommitElsewhere
    \/ finalize_due_proposals
    \/ apply_promotions_to_store
    \/ Restart

\* A request is polled until it ends and its handler comes to an end; a tokio
\* RwLock serves its waiters in turn, readers and writers alike.
Fairness ==
    \A r \in Requests :
        /\ WF_vars(refresh_domain_projection_if_stale(r))
        /\ SF_vars(AcquireWrite(r))
        /\ SF_vars(AcquireRead(r))
        /\ SF_vars(WriteThrough(r))
        /\ SF_vars(Finish(r))

Spec == Init /\ [][Next]_vars /\ Fairness

-----------------------------------------------------------------------------
(* What the properties rest on *)

\* Between two generations a cell keeps its content or gets one that is newer
\* than the first.
RowsMoveForward ==
    \A c \in Cells : \A h \in 0..gen :
        /\ rows[h][c] <= h
        /\ \A g \in 0..h : rows[h][c] = rows[g][c] \/ rows[h][c] > g

\* Every cached cell is the one of the loaded generation or newer than it.
CacheIsRecent ==
    /\ local <= gen
    /\ \A c \in Cells :
          /\ cache[c] <= gen
          /\ cache[c] = rows[local][c] \/ cache[c] > local

\* A reload holds the gate, a running request keeps it from being taken, and what
\* a handler has in hand is not older than the loaded generation.
GateIsExclusive ==
    \A r \in Requests :
        /\ pc[r] \in Loading <=> gate = r
        /\ pc[r] \in Running => gate = NoOne
        /\ pc[r] \in Running \cup {"wait_read"} => since[r] <= local
        /\ pc[r] = "writing" => local <= held[r].at /\ held[r].at <= gen
        /\ since[r] <= gen

\* What a reload has read is of the generation it started from or newer.
IsFenced(r) ==
    /\ pc[r] = "load" => load.tries < MaxAttempts
    /\ pc[r] \in {"loading", "install"} =>
          /\ load.before <= gen
          /\ load.before > local
          /\ load.before >= since[r]
    /\ pc[r] = "loading" =>
          \A t \in Tables \ load.todo : \A c \in RowOf[t] :
              /\ load.buf[c] <= gen
              /\ load.buf[c] = rows[load.before][c] \/ load.buf[c] > load.before
    /\ pc[r] = "install" => load.buf = rows[load.before]

LoadIsFenced ==
    /\ gate = NoOne => load = NoLoad
    /\ \A r \in Requests :
          /\ pc[r] = "recheck" => load = NoLoad /\ gen >= since[r]
          /\ pc[r] = "load" => gen > local
          /\ IsFenced(r)

\* A promotion not yet mirrored is in the database: roles only move up.
PromotionIsKept == promoted # 0 => promoted = rows[gen]["role"]

-----------------------------------------------------------------------------
(* Properties *)

\* If the loaded generation equals the database's, the caches hold exactly the
\* database's rows, whatever handlers wrote through late or in another order than
\* they committed and whatever the sweep did outside the gate.  This is what lets
\* refresh_domain_projection_if_stale return without loading.
EqualGenerationsEqualRows == local = gen => cache = rows[gen]

\* The same, with the types.
ProjectionIsSound == TypeOK /\ EqualGenerationsEqualRows

\* While a request runs, no cache holds a row older than the one that was
\* committed when the request arrived: a client that has seen its write confirmed
\* by any instance finds it on every instance (ensure_current_domain_projection).
NoStaleReads ==
    \A r \in Requests : pc[r] \in Running =>
        \A c \in Cells : cache[c] >= rows[since[r]][c]

\* A replacement of the projection installs the rows of one committed generation,
\* never of two, and a later one than before
\* (load_stable_domain_projection_from_postgres).
InstallsOneGeneration ==
    [][local' # local => local' > local /\ cache' = rows[local']]_vars

\* While a request runs, the loaded generation is not replaced: the read guard of
\* ensure_current_domain_projection lasts for the whole request.
NoReplacementUnderRequest ==
    [][\A r \in Requests :
          pc[r] \in Running /\ pc'[r] \in Running => local' = local]_vars

\* A running request finds the rows of one committed generation in the caches, as
\* the comment on ensure_current_domain_projection has it.
RequestSeesOneGeneration ==
    \A r \in Requests : pc[r] \in Running => \E g \in 0..gen : cache = rows[g]

\* Every request ends: reloads neither wait for each other for ever nor are they
\* kept out by running requests.
RequestsEnd == \A r \in Requests : pc[r] # "idle" ~> pc[r] = "idle"

=============================================================================
