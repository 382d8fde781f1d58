---------------------- MODULE DomainProjectionProofs ----------------------
(***************************************************************************)
(* Proofs about DomainProjection for any number of requests, reload        *)
(* attempts and commits.                                                   *)
(***************************************************************************)
EXTENDS DomainProjection, TLAPS

\* The inductive invariant: generations only move forward, the caches are never
\* behind the loaded generation, the gate excludes, a reload is fenced by the
\* generation it started from, and a promotion waiting for the cache is in the
\* database.
IInv ==
    /\ TypeOK
    /\ RowsMoveForward
    /\ CacheIsRecent
    /\ GateIsExclusive
    /\ LoadIsFenced
    /\ PromotionIsKept

-----------------------------------------------------------------------------
(* Tables and cells *)

\* Every cell is in the row of some table.
LEMMA CellTables ==
    /\ \A t \in Tables : RowOf[t] \subseteq Cells
    /\ \A c \in Cells : \E t \in Tables : c \in RowOf[t]
<1>1. /\ RowOf["accounts"] = {"profile", "role"}
      /\ RowOf["nodes"] = {"node"}
      /\ RowOf["edges"] = {"edge"}
    BY DEF RowOf, Tables
<1>2. QED BY <1>1 DEF Tables, Cells

\* What handlers write are cells, and never a role.
LEMMA WriteCells ==
    /\ \A w \in Writes : w \subseteq Cells /\ "role" \notin w
    /\ \A w : WholeRows(w) \subseteq Cells
    /\ "role" \in Cells /\ "profile" \in Cells
BY DEF Writes, Cells, WholeRows

-----------------------------------------------------------------------------
(* Commits *)

\* Which steps touch the database: each makes one commit or none.
LEMMA DbStep ==
    ASSUME [Next]_vars
    PROVE  UNCHANGED dbVars \/ \E cs \in SUBSET Cells : Commit(cs)
<1>1. ASSUME NEW r \in Requests, CommitWrite(r) PROVE \E cs \in SUBSET Cells : Commit(cs)
    BY <1>1, WriteCells DEF CommitWrite
<1>2. CASE CommitElsewhere
    BY <1>2, WriteCells DEF CommitElsewhere, Promote
<1>3. CASE finalize_due_proposals
    BY <1>3, WriteCells DEF finalize_due_proposals, Promote
<1>4. QED
    BY <1>1, <1>2, <1>3
    DEF Next, vars, dbVars, refresh_domain_projection_if_stale, Arrive, Compare, Recheck,
        LoadBegin, LoadTable, LoadEnd, Install, AcquireWrite, AcquireRead, ReadCanonical,
        WriteThrough, Finish, Cancel, apply_promotions_to_store, Restart

\* The database keeps its type, moves forward, and keeps its past.
LEMMA Forward ==
    ASSUME TypeOK, RowsMoveForward, [Next]_vars
    PROVE  /\ gen' \in Gens /\ rows' \in [Gens -> Content]
           /\ RowsMoveForward'
           /\ gen <= gen'
           /\ \A g \in 0..gen : rows'[g] = rows[g]
<1>1. CASE UNCHANGED dbVars
    BY <1>1, ProjectionAssumption DEF TypeOK, RowsMoveForward, dbVars, Gens
<1>2. ASSUME NEW cs \in SUBSET Cells, Commit(cs)
      PROVE  /\ gen' \in Gens /\ rows' \in [Gens -> Content]
             /\ RowsMoveForward'
             /\ gen <= gen'
             /\ \A g \in 0..gen : rows'[g] = rows[g]
    <2>1. /\ gen' \in Gens /\ rows' \in [Gens -> Content]
          /\ gen <= gen'
          /\ \A g \in 0..gen : rows'[g] = rows[g]
        BY <1>2, ProjectionAssumption DEF TypeOK, Commit, Gens, Content
    <2>2. ASSUME NEW c \in Cells, NEW h \in 0..gen', NEW g \in 0..h
          PROVE  rows'[h][c] <= h /\ (rows'[h][c] = rows'[g][c] \/ rows'[h][c] > g)
        <3>1. gen \in 0..gen /\ rows[gen][c] \in Nat
            BY ProjectionAssumption DEF TypeOK, Gens, Content
        <3>2. CASE h <= gen
            BY <1>2, <2>1, <2>2, <3>2 DEF RowsMoveForward, TypeOK, Gens
        <3>3. CASE h = gen + 1
            <4>1. rows'[h][c] = IF c \in cs THEN gen + 1 ELSE rows[gen][c]
                BY <1>2, <2>1, <3>3 DEF Commit, TypeOK, Gens
            <4>2. rows[gen][c] <= gen
                BY <3>1 DEF RowsMoveForward
            <4>3. CASE g = h
                BY <3>1, <3>3, <4>1, <4>2, <4>3
            <4>4. CASE g <= gen
                <5>1. rows'[g][c] = rows[g][c]
                    BY <2>1, <2>2, <4>4 DEF TypeOK, Gens
                <5>2. rows[gen][c] = rows[g][c] \/ rows[gen][c] > g
                    BY <3>1, <4>4 DEF RowsMoveForward
                <5>3. QED BY <3>1, <3>3, <4>1, <4>2, <4>4, <5>1, <5>2 DEF TypeOK, Gens
            <4>5. QED BY <3>3, <4>3, <4>4 DEF TypeOK, Gens
        <3>4. QED BY <1>2, <3>2, <3>3 DEF Commit, TypeOK, Gens
    <2>3. QED BY <2>1, <2>2 DEF RowsMoveForward
<1>3. QED BY <1>1, <1>2, DbStep

-----------------------------------------------------------------------------
(* Types *)

LEMMA TypeStep ==
    ASSUME IInv, [Next]_vars
    PROVE  TypeOK'
<1> USE ProjectionAssumption
<1>1. gen' \in Gens /\ rows' \in [Gens -> Content]
    BY Forward DEF IInv
<1>2. TypeOK
    BY DEF IInv
<1>3. ASSUME NEW r \in Requests,
             \/ Arrive(r) \/ Compare(r) \/ AcquireWrite(r) \/ AcquireRead(r)
             \/ Recheck(r) \/ Finish(r)
      PROVE TypeOK'
    <2>1. pc' \in [Requests -> PCs]
        BY <1>2, <1>3 DEF TypeOK, Arrive, Compare, AcquireWrite, AcquireRead, Recheck,
                          Finish, Goto, PCs, Loading, Running
    <2>2. since' \in [Requests -> Gens]
        BY <1>2, <1>3 DEF TypeOK, Arrive, Compare, AcquireWrite, AcquireRead, Recheck,
                          Finish, Gens
    <2>3. QED
        BY <1>2, <1>3, <2>1, <2>2 DEF TypeOK, Arrive, Compare, AcquireWrite, AcquireRead,
                                      Recheck, Finish, dbVars
<1>4. ASSUME NEW r \in Requests, LoadBegin(r) PROVE TypeOK'
    <2>1. load.tries < MaxAttempts
        BY <1>4 DEF IInv, LoadIsFenced, IsFenced, LoadBegin
    <2>2. load' \in LoadType
        BY <1>2, <1>4, <2>1 DEF TypeOK, LoadBegin, LoadType, Gens, Content, Blank
    <2>3. QED BY <1>2, <1>4, <2>2 DEF TypeOK, LoadBegin, Goto, dbVars, PCs, Loading
<1>5. ASSUME NEW r \in Requests, NEW t \in Tables, LoadTable(r, t) PROVE TypeOK'
    <2> DEFINE b == [c \in Cells |-> IF c \in RowOf[t] THEN rows[gen][c] ELSE load.buf[c]]
    <2>0. b \in Content
        BY <1>2 DEF TypeOK, LoadType, Content
    <2>1. load' \in LoadType
        BY <1>2, <1>5, <2>0 DEF TypeOK, LoadTable, LoadType
    <2>2. QED BY <1>2, <1>5, <2>1 DEF TypeOK, LoadTable, dbVars
<1>6. ASSUME NEW r \in Requests, LoadEnd(r) \/ Install(r) \/ Cancel(r) PROVE TypeOK'
    <2>1. NoLoad \in LoadType /\ Nothing \in [cells : SUBSET Cells, at : Gens]
        BY DEF NoLoad, LoadType, Blank, Content, Gens, Nothing
    <2>2. pc' \in [Requests -> PCs]
        BY <1>2, <1>6 DEF TypeOK, LoadEnd, Install, Cancel, Goto, PCs, Loading
    <2>3. since' \in [Requests -> Gens]
        BY <1>2, <1>6 DEF TypeOK, LoadEnd, Install, Cancel, Gens
    <2>4. cache' \in Content /\ local' \in Gens
        BY <1>2, <1>6 DEF TypeOK, LoadEnd, Install, Cancel, LoadType
    <2>5. QED
        BY <1>2, <1>6, <2>1, <2>2, <2>3, <2>4 DEF TypeOK, LoadEnd, Install, Cancel, dbVars
<1>7. ASSUME NEW r \in Requests, CommitWrite(r) \/ ReadCanonical(r) PROVE TypeOK'
    <2>1. held' \in [Requests -> [cells : SUBSET Cells, at : Gens]]
        <3>1. CASE CommitWrite(r)
            <4>1. PICK w \in Writes :
                      /\ Commit(w)
                      /\ \E cs \in {w, WholeRows(w)} :
                            held' = [held EXCEPT ![r] = [cells |-> cs, at |-> gen + 1]]
                BY <3>1 DEF CommitWrite
            <4>2. gen + 1 \in Gens
                BY <1>1, <4>1 DEF Commit
            <4>3. QED BY <1>2, <4>1, <4>2, WriteCells DEF TypeOK
        <3>2. CASE ReadCanonical(r)
            BY <1>2, <3>2, WriteCells DEF TypeOK, ReadCanonical
        <3>3. QED BY <1>7, <3>1, <3>2
    <2>2. QED
        BY <1>1, <1>2, <1>7, <2>1 DEF TypeOK, CommitWrite, ReadCanonical, Goto, dbVars, PCs,
                                      Running
<1>8. ASSUME NEW r \in Requests, WriteThrough(r) PROVE TypeOK'
    <2>1. Nothing \in [cells : SUBSET Cells, at : Gens]
        BY DEF Gens, Nothing
    <2>2. cache' \in Content
        BY <1>2, <1>8 DEF TypeOK, WriteThrough, Content
    <2>3. QED BY <1>2, <1>8, <2>1, <2>2 DEF TypeOK, WriteThrough, Goto, dbVars, PCs, Running
<1>9. CASE CommitElsewhere \/ finalize_due_proposals
    BY <1>1, <1>2, <1>9 DEF TypeOK, CommitElsewhere, finalize_due_proposals, Promote, Commit
<1>10. CASE apply_promotions_to_store
    <2>1. cache' \in Content
        BY <1>2, <1>10, WriteCells DEF TypeOK, apply_promotions_to_store, Content
    <2>2. QED BY <1>2, <1>10, <2>1 DEF TypeOK, apply_promotions_to_store, dbVars, Gens
<1>11. CASE Restart
    <2>1. NoLoad \in LoadType /\ Nothing \in [cells : SUBSET Cells, at : Gens]
        BY DEF NoLoad, LoadType, Blank, Content, Gens, Nothing
    <2>2. QED BY <1>2, <1>11, <2>1 DEF TypeOK, Restart, dbVars, Gens, PCs
<1>12. CASE UNCHANGED vars
    BY <1>2, <1>12 DEF TypeOK, vars, dbVars
<1>13. QED
    BY <1>3, <1>4, <1>5, <1>6, <1>7, <1>8, <1>9, <1>10, <1>11, <1>12
    DEF Next, refresh_domain_projection_if_stale

-----------------------------------------------------------------------------
(* The caches *)

\* Only these steps write to the caches or replace the generation.
LEMMA CacheWriters ==
    ASSUME [Next]_vars
    PROVE  \/ UNCHANGED <<cache, local>>
           \/ \E r \in Requests : Install(r) \/ WriteThrough(r)
           \/ apply_promotions_to_store
           \/ Restart
BY DEF Next, vars, dbVars, refresh_domain_projection_if_stale, Arrive, Compare, Recheck,
       LoadBegin, LoadTable, LoadEnd, AcquireWrite, AcquireRead, CommitWrite,
       ReadCanonical, Finish, Cancel, CommitElsewhere, finalize_due_proposals

\* A generation that is not before the loaded one is recent enough for a cache.
LEMMA RecentRows ==
    ASSUME TypeOK, RowsMoveForward, CacheIsRecent,
           NEW g \in Gens, local <= g, g <= gen, NEW c \in Cells
    PROVE  /\ rows[g][c] \in Nat
           /\ rows[g][c] <= gen
           /\ rows[g][c] = rows[local][c] \/ rows[g][c] > local
<1>1. g \in 0..gen /\ local \in 0..g
    BY ProjectionAssumption DEF TypeOK, Gens
<1>2. rows[g][c] \in Nat
    BY ProjectionAssumption DEF TypeOK, Gens, Content
<1>3. rows[g][c] <= g /\ (rows[g][c] = rows[local][c] \/ rows[g][c] > local)
    BY <1>1 DEF RowsMoveForward
<1>4. QED BY <1>1, <1>2, <1>3, ProjectionAssumption DEF TypeOK, Gens

LEMMA CacheStep ==
    ASSUME IInv, [Next]_vars
    PROVE  CacheIsRecent'
<1> USE ProjectionAssumption
<1>1. /\ TypeOK /\ RowsMoveForward /\ CacheIsRecent
      /\ gen \in Nat /\ local \in Nat /\ local <= gen
    BY DEF IInv, CacheIsRecent, TypeOK, Gens
<1>2. gen' \in Nat /\ gen <= gen' /\ \A g \in 0..gen : rows'[g] = rows[g]
    BY Forward DEF IInv, Gens
<1>3. \A c \in Cells : cache[c] \in Nat /\ cache[c] <= gen
    BY <1>1 DEF TypeOK, CacheIsRecent, Content, Gens
<1>4. CASE UNCHANGED <<cache, local>>
    BY <1>1, <1>2, <1>3, <1>4 DEF CacheIsRecent
<1>5. ASSUME NEW r \in Requests, Install(r) PROVE CacheIsRecent'
    <2>1. cache' = rows[load.before] /\ local' = load.before /\ load.before <= gen
        BY <1>5 DEF Install, IInv, LoadIsFenced, IsFenced
    <2>2. load.before \in 0..gen
        BY <1>1, <2>1 DEF TypeOK, LoadType, Gens
    <2>3. \A c \in Cells : rows[load.before][c] \in Nat /\ rows[load.before][c] <= load.before
        <3>0. load.before \in Gens
            BY <1>1 DEF TypeOK, LoadType
        <3>1. rows[load.before] \in [Cells -> 0..MaxGen]
            BY <1>1, <3>0 DEF TypeOK, Content, Gens
        <3>2. \A c \in Cells : rows[load.before][c] <= load.before
            BY <1>1, <2>2 DEF RowsMoveForward
        <3>3. QED BY <3>1, <3>2
    <2>4. QED BY <1>1, <1>2, <2>1, <2>2, <2>3 DEF CacheIsRecent
<1>6. ASSUME NEW r \in Requests, WriteThrough(r) PROVE CacheIsRecent'
    <2>1. /\ local <= held[r].at /\ held[r].at <= gen
          /\ held[r].at \in Gens
        BY <1>1, <1>6 DEF WriteThrough, IInv, GateIsExclusive, TypeOK
    <2>2. \A c \in Cells : /\ rows[held[r].at][c] <= gen
                           /\ \/ rows[held[r].at][c] = rows[local][c]
                              \/ rows[held[r].at][c] > local
        BY <1>1, <2>1, RecentRows
    <2>3. UNCHANGED <<gen, rows, local>>
        BY <1>6 DEF WriteThrough, dbVars
    <2>4. \A c \in Cells : cache'[c] = rows[held[r].at][c] \/ cache'[c] = cache[c]
        BY <1>6 DEF WriteThrough
    <2>5. QED BY <1>1, <1>3, <2>2, <2>3, <2>4 DEF CacheIsRecent
<1>7. CASE apply_promotions_to_store
    <2>1. promoted = rows[gen]["role"]
        BY <1>7 DEF apply_promotions_to_store, IInv, PromotionIsKept
    <2>2. /\ promoted <= gen
          /\ promoted = rows[local]["role"] \/ promoted > local
        BY <1>1, <2>1, RecentRows, WriteCells DEF TypeOK
    <2>3. UNCHANGED <<gen, rows, local>>
        BY <1>7 DEF apply_promotions_to_store, dbVars
    <2>4. \A c \in Cells : cache'[c] = cache[c] \/ (c = "role" /\ cache'[c] = promoted)
        BY <1>1, <1>7 DEF apply_promotions_to_store, TypeOK, Content
    <2>5. QED BY <1>1, <1>3, <2>2, <2>3, <2>4 DEF CacheIsRecent
<1>8. CASE Restart
    <2>1. cache' = rows[gen] /\ local' = gen /\ UNCHANGED <<gen, rows>>
        BY <1>8 DEF Restart, dbVars
    <2>2. \A c \in Cells : rows[gen][c] <= gen
        BY <1>1 DEF RowsMoveForward
    <2>3. QED BY <1>1, <2>1, <2>2 DEF CacheIsRecent
<1>9. QED BY <1>4, <1>5, <1>6, <1>7, <1>8, CacheWriters

\* A promotion waiting to be mirrored stays the role in the database, since only
\* guests are promoted.
LEMMA PromotionStep ==
    ASSUME IInv, [Next]_vars
    PROVE  PromotionIsKept'
<1> USE ProjectionAssumption
<1>1. TypeOK /\ PromotionIsKept /\ gen \in Nat
    BY DEF IInv, TypeOK, Gens
<1>2. ASSUME NEW cs \in SUBSET Cells, Commit(cs)
      PROVE  /\ gen' = gen + 1
             /\ rows'[gen']["role"] = IF "role" \in cs THEN gen + 1 ELSE rows[gen]["role"]
    BY <1>1, <1>2, WriteCells DEF Commit, TypeOK, Gens
<1>3. CASE finalize_due_proposals
    <2>1. Commit({"role"}) /\ promoted' = gen + 1
        BY <1>3 DEF finalize_due_proposals, Promote
    <2>2. {"role"} \in SUBSET Cells
        BY WriteCells
    <2>3. rows'[gen']["role"] = gen + 1
        BY <1>2, <2>1, <2>2
    <2>4. QED BY <2>1, <2>3 DEF PromotionIsKept
<1>4. CASE CommitElsewhere
    <2>1. UNCHANGED promoted
        BY <1>4 DEF CommitElsewhere
    <2>2. CASE Promote
        BY <1>1, <2>1, <2>2 DEF Promote, PromotionIsKept
    <2>3. ASSUME NEW w \in Writes, Commit(w) PROVE PromotionIsKept'
        <3>1. rows'[gen']["role"] = rows[gen]["role"]
            BY <1>2, <2>3, WriteCells
        <3>2. QED BY <1>1, <2>1, <3>1 DEF PromotionIsKept
    <2>4. QED BY <1>4, <2>2, <2>3 DEF CommitElsewhere
<1>5. ASSUME NEW r \in Requests, CommitWrite(r) PROVE PromotionIsKept'
    <2>1. PICK w \in Writes : Commit(w)
        BY <1>5 DEF CommitWrite
    <2>2. UNCHANGED promoted
        BY <1>5 DEF CommitWrite
    <2>3. rows'[gen']["role"] = rows[gen]["role"]
        BY <1>2, <2>1, WriteCells
    <2>4. QED BY <1>1, <2>2, <2>3 DEF PromotionIsKept
<1>6. CASE UNCHANGED dbVars /\ (UNCHANGED promoted \/ promoted' = 0)
    BY <1>1, <1>6 DEF PromotionIsKept, dbVars
<1>7. QED
    BY <1>3, <1>4, <1>5, <1>6
    DEF Next, vars, refresh_domain_projection_if_stale, Arrive, Compare, Recheck,
        LoadBegin, LoadTable, LoadEnd, Install, AcquireWrite, AcquireRead, ReadCanonical,
        WriteThrough, Finish, Cancel, apply_promotions_to_store, Restart

-----------------------------------------------------------------------------
(* The gate *)

LEMMA GateStep ==
    ASSUME IInv, [Next]_vars
    PROVE  GateIsExclusive'
<1> USE ProjectionAssumption
<1>1. /\ TypeOK /\ GateIsExclusive /\ pc \in [Requests -> PCs]
      /\ gen \in Nat /\ local \in Nat /\ local <= gen
      /\ since \in [Requests -> Nat]
      /\ \A q \in Requests : held[q].at \in Nat
    BY DEF IInv, TypeOK, Gens, CacheIsRecent
<1>2. gen' \in Nat /\ gen <= gen'
    BY Forward DEF IInv, Gens
<1>3. CASE UNCHANGED <<pc, local, gate, since, held>>
    BY <1>1, <1>2, <1>3 DEF GateIsExclusive
<1>4. ASSUME NEW r \in Requests, Arrive(r) \/ Compare(r) \/ Finish(r)
      PROVE GateIsExclusive'
    BY <1>1, <1>4 DEF GateIsExclusive, Arrive, Compare, Finish, Goto, dbVars, Loading, Running
<1>5. ASSUME NEW r \in Requests, AcquireWrite(r) PROVE GateIsExclusive'
    BY <1>1, <1>5 DEF GateIsExclusive, AcquireWrite, Goto, dbVars, Loading, Running
<1>6. ASSUME NEW r \in Requests, AcquireRead(r) PROVE GateIsExclusive'
    BY <1>1, <1>6 DEF GateIsExclusive, AcquireRead, Goto, dbVars, Loading, Running
<1>7. ASSUME NEW r \in Requests, Recheck(r) PROVE GateIsExclusive'
    BY <1>1, <1>7 DEF GateIsExclusive, Recheck, Goto, dbVars, Loading, Running
<1>8. ASSUME NEW r \in Requests, LoadBegin(r) \/ LoadEnd(r) PROVE GateIsExclusive'
    BY <1>1, <1>8 DEF GateIsExclusive, LoadBegin, LoadEnd, Goto, dbVars, Loading, Running
<1>9. ASSUME NEW r \in Requests, Install(r) PROVE GateIsExclusive'
    <2>1. load.before \in Nat /\ load.before > local /\ load.before >= since[r]
        BY <1>1, <1>9 DEF Install, IInv, LoadIsFenced, IsFenced, TypeOK, LoadType, Gens
    <2>2. \A q \in Requests : pc[q] \notin Running
        BY <1>1, <1>9 DEF GateIsExclusive, Install, Loading
    <2>3. QED BY <1>1, <1>9, <2>1, <2>2 DEF GateIsExclusive, Install, Goto, dbVars, Loading, Running
<1>10. ASSUME NEW r \in Requests, CommitWrite(r) PROVE GateIsExclusive'
    <2>1. /\ gen' = gen + 1 /\ held'[r].at = gen + 1
          /\ \A q \in Requests \ {r} : held'[q] = held[q]
        BY <1>1, <1>10 DEF CommitWrite, Commit, TypeOK
    <2>2. QED BY <1>1, <1>10, <2>1 DEF GateIsExclusive, CommitWrite, Goto, Loading, Running
<1>11. ASSUME NEW r \in Requests, ReadCanonical(r) PROVE GateIsExclusive'
    <2>1. /\ held'[r].at = gen
          /\ \A q \in Requests \ {r} : held'[q] = held[q]
        BY <1>1, <1>11 DEF ReadCanonical, TypeOK
    <2>2. QED BY <1>1, <1>11, <2>1 DEF GateIsExclusive, ReadCanonical, Goto, dbVars, Loading, Running
<1>12. ASSUME NEW r \in Requests, WriteThrough(r) PROVE GateIsExclusive'
    <2>1. \A q \in Requests \ {r} : held'[q] = held[q]
        BY <1>1, <1>12 DEF WriteThrough, TypeOK
    <2>2. QED BY <1>1, <1>12, <2>1 DEF GateIsExclusive, WriteThrough, Goto, dbVars, Loading, Running
<1>13. ASSUME NEW r \in Requests, Cancel(r) PROVE GateIsExclusive'
    <2>1. \A q \in Requests \ {r} : held'[q] = held[q]
        BY <1>1, <1>13 DEF Cancel, TypeOK
    <2>2. QED BY <1>1, <1>13, <2>1 DEF GateIsExclusive, Cancel, Goto, dbVars, Loading, Running
<1>14. CASE Restart
    BY <1>1, <1>14 DEF GateIsExclusive, Restart, dbVars, Loading, Running
<1>15. QED
    BY <1>3, <1>4, <1>5, <1>6, <1>7, <1>8, <1>9, <1>10, <1>11, <1>12, <1>13, <1>14
    DEF Next, vars, refresh_domain_projection_if_stale, LoadTable, CommitElsewhere,
        finalize_due_proposals, apply_promotions_to_store

-----------------------------------------------------------------------------
(* The reload *)

\* Two requests never reload at once.
LEMMA OneReload ==
    ASSUME IInv, NEW r \in Requests, NEW q \in Requests,
           pc[r] \in Loading, pc[q] \in Loading
    PROVE  q = r
BY DEF IInv, GateIsExclusive

\* A request the step does not touch.
LEMMA FencedByOthers ==
    ASSUME IInv, [Next]_vars, NEW q \in Requests, UNCHANGED <<load, local>>,
           pc'[q] = pc[q], since'[q] = since[q]
    PROVE  IsFenced(q)'
<1>1. /\ TypeOK /\ IsFenced(q)
      /\ gen \in Nat /\ gen' \in Nat /\ gen <= gen' /\ \A g \in 0..gen : rows'[g] = rows[g]
      /\ load.before \in Nat
      /\ \A c \in Cells : load.buf[c] \in Nat
    BY Forward DEF IInv, LoadIsFenced, TypeOK, Gens, LoadType, Content
<1>2. pc[q] \in {"loading", "install"} => rows'[load.before] = rows[load.before]
    BY <1>1 DEF IsFenced
<1>3. \A t \in Tables : \A c \in RowOf[t] : load.buf[c] \in Nat
    BY <1>1, CellTables
<1>4. QED BY <1>1, <1>2, <1>3 DEF IsFenced, IInv, TypeOK, Gens

LEMMA LoadStep ==
    ASSUME IInv, [Next]_vars
    PROVE  LoadIsFenced'
<1> USE ProjectionAssumption
<1>1. /\ TypeOK /\ RowsMoveForward /\ LoadIsFenced /\ GateIsExclusive
      /\ pc \in [Requests -> PCs]
      /\ gen \in Nat /\ local \in Nat /\ local <= gen
      /\ since \in [Requests -> Nat] /\ \A q \in Requests : since[q] <= gen
      /\ load.before \in Nat /\ load.tries \in Nat /\ MaxAttempts \in Nat
      /\ NoOne \notin Requests
    BY DEF IInv, TypeOK, Gens, CacheIsRecent, LoadType, GateIsExclusive
<1>2. gen' \in Nat /\ gen <= gen'
    BY Forward DEF IInv, Gens
<1>3. CASE UNCHANGED <<pc, local, gate, since, load>>
    BY <1>1, <1>2, <1>3, FencedByOthers DEF LoadIsFenced
<1>4. ASSUME NEW r \in Requests,
             \/ Arrive(r) \/ Compare(r) \/ Finish(r) \/ AcquireRead(r)
             \/ CommitWrite(r) \/ ReadCanonical(r) \/ WriteThrough(r)
      PROVE  LoadIsFenced'
    <2>1. /\ UNCHANGED <<load, local, gate>>
          /\ \A q \in Requests \ {r} : pc'[q] = pc[q] /\ since'[q] = since[q]
          /\ pc'[r] \notin Loading
        BY <1>1, <1>4 DEF Arrive, Compare, Finish, AcquireRead, CommitWrite, ReadCanonical,
                          WriteThrough, Goto, Loading
    <2>2. \A q \in Requests \ {r} : IsFenced(q)'
        BY <2>1, FencedByOthers
    <2>3. IsFenced(r)'
        BY <2>1 DEF IsFenced, Loading
    <2>4. QED BY <1>1, <1>2, <2>1, <2>2, <2>3 DEF LoadIsFenced, Loading
<1>5. ASSUME NEW r \in Requests, AcquireWrite(r) PROVE LoadIsFenced'
    <2>1. /\ UNCHANGED <<load, local, gen, since>>
          /\ \A q \in Requests \ {r} : pc'[q] = pc[q]
          /\ pc'[r] = "recheck" /\ load = NoLoad /\ gate' = r
        BY <1>1, <1>5 DEF AcquireWrite, Goto, LoadIsFenced, dbVars
    <2>2. \A q \in Requests \ {r} : IsFenced(q)'
        BY <2>1, FencedByOthers
    <2>3. IsFenced(r)'
        BY <2>1 DEF IsFenced
    <2>4. QED BY <1>1, <2>1, <2>2, <2>3 DEF LoadIsFenced
<1>6. ASSUME NEW r \in Requests, Recheck(r) PROVE LoadIsFenced'
    <2>1. /\ UNCHANGED <<load, local, gen, since>>
          /\ \A q \in Requests \ {r} : pc'[q] = pc[q]
          /\ pc'[r] = "wait_read" \/ (pc'[r] = "load" /\ gen > local)
          /\ load = NoLoad
          /\ gate' = NoOne \/ gate' = gate
        BY <1>1, <1>6 DEF Recheck, Goto, LoadIsFenced, dbVars
    <2>2. \A q \in Requests \ {r} : IsFenced(q)'
        BY <2>1, FencedByOthers
    <2>3. IsFenced(r)'
        BY <1>1, <2>1 DEF IsFenced, NoLoad
    <2>4. QED BY <1>1, <2>1, <2>2, <2>3 DEF LoadIsFenced
<1>7. ASSUME NEW r \in Requests, pc[r] \in Loading, UNCHANGED <<since, local>>,
             \A q \in Requests \ {r} : pc'[q] = pc[q],
             gate' = gate, pc'[r] # "recheck",
             pc'[r] = "load" => gen' > local, IsFenced(r)'
      PROVE  LoadIsFenced'
    <2>1. \A q \in Requests \ {r} : pc[q] \notin Loading
        BY <1>7, OneReload
    <2>2. \A q \in Requests \ {r} : IsFenced(q)'
        BY <1>7, <2>1 DEF IsFenced, Loading
    <2>3. gate = r
        BY <1>1, <1>7 DEF GateIsExclusive
    <2>4. QED BY <1>1, <1>7, <2>1, <2>2, <2>3 DEF LoadIsFenced, Loading
<1>8. ASSUME NEW r \in Requests, LoadBegin(r) PROVE LoadIsFenced'
    <2>1. /\ pc'[r] = "loading" /\ pc[r] \in Loading
          /\ load'.before = gen /\ load'.todo = Tables /\ UNCHANGED <<gen, local, since>>
          /\ gen > local
        BY <1>1, <1>8 DEF LoadBegin, Goto, Loading, LoadIsFenced, dbVars
    <2>2. IsFenced(r)'
        BY <1>1, <2>1 DEF IsFenced
    <2>3. QED BY <1>1, <1>7, <1>8, <2>1, <2>2 DEF LoadBegin, Goto
<1>9. ASSUME NEW r \in Requests, NEW t \in Tables, LoadTable(r, t) PROVE LoadIsFenced'
    <2>1. /\ pc'[r] = "loading" /\ pc[r] = "loading" /\ pc[r] \in Loading
          /\ load'.before = load.before /\ load'.todo = load.todo \ {t}
          /\ UNCHANGED <<gen, rows, local, since, pc, gate>>
        BY <1>1, <1>9 DEF LoadTable, Loading, dbVars, TypeOK, LoadType
    <2>2. /\ IsFenced(r) /\ load.before <= gen
        BY <1>1, <2>1 DEF LoadIsFenced, IsFenced
    <2>3. \A c \in Cells : load'.buf[c] = IF c \in RowOf[t] THEN rows[gen][c] ELSE load.buf[c]
        BY <1>1, <1>9 DEF LoadTable, TypeOK, LoadType
    <2>4. \A c \in Cells : /\ rows[gen][c] <= gen
                           /\ \/ rows[gen][c] = rows[load.before][c]
                              \/ rows[gen][c] > load.before
        <3>1. gen \in 0..gen /\ load.before \in 0..gen
            BY <1>1, <2>2
        <3>2. QED BY <1>1, <3>1 DEF RowsMoveForward
    <2>5. ASSUME NEW u \in Tables \ load'.todo, NEW c \in RowOf[u]
          PROVE  /\ load'.buf[c] <= gen
                 /\ load'.buf[c] = rows[load.before][c] \/ load'.buf[c] > load.before
        <3>1. c \in Cells
            BY <2>5, CellTables
        <3>2. CASE c \in RowOf[t]
            BY <2>3, <2>4, <3>1, <3>2
        <3>3. CASE c \notin RowOf[t]
            BY <2>1, <2>2, <2>3, <2>5, <3>1, <3>3 DEF IsFenced
        <3>4. QED BY <3>2, <3>3
    <2>6. IsFenced(r)'
        BY <2>1, <2>2, <2>5 DEF IsFenced
    <2>7. QED BY <1>7, <2>1, <2>6
<1>10. ASSUME NEW r \in Requests, LoadEnd(r) PROVE LoadIsFenced'
    <2>0. pc[r] = "loading" /\ load.todo = {} /\ UNCHANGED <<gen, rows, local>> /\ IsFenced(r)
        BY <1>1, <1>10 DEF LoadEnd, LoadIsFenced, dbVars
    <2>1. CASE gen = load.before /\ Goto(r, "install") /\ UNCHANGED <<gate, since, load>>
        <3>1. ASSUME NEW c \in Cells PROVE load.buf[c] = rows[load.before][c]
            <4>1. load.buf[c] \in Nat
                BY <1>1 DEF TypeOK, LoadType, Content, Gens
            <4>2. load.buf[c] <= gen
                  /\ (load.buf[c] = rows[load.before][c] \/ load.buf[c] > load.before)
                BY <2>0, CellTables DEF IsFenced
            <4>3. QED BY <1>1, <2>1, <4>1, <4>2
        <3>2. load.buf = rows[load.before]
            BY <1>1, <3>1 DEF TypeOK, LoadType, Content
        <3>3. pc'[r] = "install"
            BY <1>1, <2>1 DEF Goto
        <3>4. IsFenced(r)'
            BY <2>0, <2>1, <3>2, <3>3 DEF IsFenced
        <3>5. QED BY <1>1, <1>7, <2>0, <2>1, <3>3, <3>4 DEF Goto, Loading
    <2>2. CASE /\ gen # load.before /\ load.tries < MaxAttempts
               /\ Goto(r, "load")
               /\ UNCHANGED <<gate, since, load>>
        <3>1. pc'[r] = "load"
            BY <1>1, <2>2 DEF Goto
        <3>2. IsFenced(r)'
            BY <2>2, <3>1 DEF IsFenced
        <3>3. gen > local
            BY <1>1, <2>0 DEF IsFenced
        <3>4. QED BY <1>1, <1>7, <2>0, <2>2, <3>1, <3>2, <3>3 DEF Goto, Loading
    <2>3. CASE /\ Goto(r, "idle")
               /\ gate' = NoOne /\ load' = NoLoad
               /\ since' = [since EXCEPT ![r] = 0]
        <3>1. \A q \in Requests : pc'[q] \notin Loading
            BY <1>1, <2>0, <2>3, OneReload DEF Goto, Loading
        <3>2. QED BY <2>3, <3>1 DEF LoadIsFenced, IsFenced, Loading
    <2>4. QED BY <1>10, <2>1, <2>2, <2>3 DEF LoadEnd
<1>11. ASSUME NEW r \in Requests, Install(r) PROVE LoadIsFenced'
    <2>1. \A q \in Requests : pc'[q] \notin Loading
        BY <1>1, <1>11, OneReload DEF Install, Goto, Loading
    <2>2. QED BY <1>11, <2>1 DEF Install, LoadIsFenced, IsFenced, Loading
<1>12. ASSUME NEW r \in Requests, Cancel(r) PROVE LoadIsFenced'
    <2>1. CASE gate = r
        <3>1. \A q \in Requests : pc'[q] \notin Loading
            BY <1>1, <1>12, <2>1 DEF Cancel, Goto, Loading, GateIsExclusive
        <3>2. QED BY <1>12, <2>1, <3>1 DEF Cancel, LoadIsFenced, IsFenced, Loading
    <2>2. CASE gate # r
        <3>1. /\ UNCHANGED <<load, local, gate, gen>>
              /\ \A q \in Requests \ {r} : pc'[q] = pc[q] /\ since'[q] = since[q]
              /\ pc'[r] = "idle"
            BY <1>1, <1>12, <2>2 DEF Cancel, Goto, dbVars
        <3>2. \A q \in Requests \ {r} : IsFenced(q)'
            BY <3>1, FencedByOthers
        <3>3. IsFenced(r)'
            BY <3>1 DEF IsFenced
        <3>4. QED BY <1>1, <3>1, <3>2, <3>3 DEF LoadIsFenced
    <2>3. QED BY <2>1, <2>2
<1>13. CASE Restart
    BY <1>13 DEF Restart, LoadIsFenced, IsFenced
<1>14. QED
    BY <1>3, <1>4, <1>5, <1>6, <1>8, <1>9, <1>10, <1>11, <1>12, <1>13
    DEF Next, vars, refresh_domain_projection_if_stale, CommitElsewhere,
        finalize_due_proposals, apply_promotions_to_store

-----------------------------------------------------------------------------
(* The invariant *)

LEMMA InitInv == Init => IInv
<1> SUFFICES ASSUME Init PROVE IInv
    OBVIOUS
<1> USE ProjectionAssumption
<1>1. Blank \in Content
    BY DEF Blank, Content, Gens
<1>2. TypeOK
    BY <1>1 DEF Init, TypeOK, Gens, PCs, LoadType, NoLoad, Nothing
<1>3. \A g \in Gens : \A c \in Cells : rows[g][c] = 0
    BY DEF Init, Blank
<1>4. RowsMoveForward /\ CacheIsRecent /\ PromotionIsKept
    BY <1>3 DEF Init, RowsMoveForward, CacheIsRecent, PromotionIsKept, Gens, Blank
<1>5. GateIsExclusive /\ LoadIsFenced
    BY DEF Init, GateIsExclusive, LoadIsFenced, IsFenced, Loading, Running
<1>6. QED BY <1>2, <1>4, <1>5 DEF IInv

\* The invariant holds in every reachable state.
LEMMA Invariance == Spec => []IInv
<1>1. IInv /\ [Next]_vars => IInv'
    BY TypeStep, Forward, CacheStep, GateStep, LoadStep, PromotionStep DEF IInv
<1>2. QED BY InitInv, <1>1, PTL DEF Spec

-----------------------------------------------------------------------------
(* Theorems *)

\* Every variable of the projection keeps its type; in particular a reload makes
\* at most MaxAttempts attempts (load_stable_domain_projection_from_postgres).
THEOREM ProjectionTypeCorrect == Spec => []TypeOK
<1>1. IInv => TypeOK
    BY DEF IInv
<1>2. QED BY <1>1, Invariance, PTL

\* Equal generations mean equal rows: refresh_domain_projection_if_stale may
\* return without loading.
THEOREM ProjectionIsExact == Spec => []EqualGenerationsEqualRows
<1>1. ASSUME IInv PROVE EqualGenerationsEqualRows
    <2>1. SUFFICES ASSUME local = gen PROVE cache = rows[gen]
        BY DEF EqualGenerationsEqualRows
    <2>2. ASSUME NEW c \in Cells PROVE cache[c] = rows[gen][c]
        <3>1. cache[c] \in Nat /\ gen \in Nat
            BY <1>1, ProjectionAssumption DEF IInv, TypeOK, Content, Gens
        <3>2. cache[c] <= gen /\ (cache[c] = rows[local][c] \/ cache[c] > local)
            BY <1>1 DEF IInv, CacheIsRecent
        <3>3. QED BY <2>1, <3>1, <3>2
    <2>3. cache \in Content /\ rows[gen] \in Content
        BY <1>1 DEF IInv, TypeOK
    <2>4. QED BY <2>2, <2>3 DEF Content
<1>2. QED BY <1>1, Invariance, PTL

\* ProjectionIsSound, the conjunction that the run checks, holds of every instance.
THEOREM ProjectionSound == Spec => []ProjectionIsSound
<1>1. TypeOK /\ EqualGenerationsEqualRows => ProjectionIsSound
    BY DEF ProjectionIsSound
<1>2. QED BY <1>1, ProjectionTypeCorrect, ProjectionIsExact, PTL

\* No request reads a row older than the one committed when it arrived
\* (ensure_current_domain_projection).
THEOREM ProjectionHasNoStaleReads == Spec => []NoStaleReads
<1>1. ASSUME IInv PROVE NoStaleReads
    <2>1. SUFFICES ASSUME NEW r \in Requests, pc[r] \in Running, NEW c \in Cells
                   PROVE  cache[c] >= rows[since[r]][c]
        BY DEF NoStaleReads
    <2>2. /\ since[r] <= local /\ local <= gen
          /\ since[r] \in Nat /\ local \in Nat /\ gen \in Nat
          /\ cache[c] \in Nat /\ rows[since[r]][c] \in Nat /\ rows[local][c] \in Nat
        BY <1>1, <2>1, ProjectionAssumption
        DEF IInv, GateIsExclusive, CacheIsRecent, TypeOK, Content, Gens
    <2>3. local \in 0..gen /\ since[r] \in 0..local /\ since[r] \in 0..gen
        BY <2>2
    <2>4. /\ rows[local][c] = rows[since[r]][c] \/ rows[local][c] > since[r]
          /\ rows[since[r]][c] <= since[r]
        BY <1>1, <2>3 DEF IInv, RowsMoveForward
    <2>5. cache[c] = rows[local][c] \/ cache[c] > local
        BY <1>1 DEF IInv, CacheIsRecent
    <2>6. QED BY <2>2, <2>4, <2>5
<1>2. QED BY <1>1, Invariance, PTL

\* What a reload installs is one committed generation, later than the one it
\* replaces (load_stable_domain_projection_from_postgres, Install).
THEOREM ProjectionInstallsOneGeneration == Spec => InstallsOneGeneration
<1>1. ASSUME IInv, [Next]_vars
      PROVE  local' # local => local' > local /\ cache' = rows[local']
    <2>1. ASSUME NEW r \in Requests, Install(r)
          PROVE  local' > local /\ cache' = rows[local']
        BY <1>1, <2>1 DEF IInv, LoadIsFenced, IsFenced, Install
    <2>2. ASSUME NEW r \in Requests, WriteThrough(r) PROVE local' = local
        BY <2>2 DEF WriteThrough
    <2>3. CASE apply_promotions_to_store
        BY <2>3 DEF apply_promotions_to_store
    <2>4. ASSUME Restart, local' # local PROVE local' > local /\ cache' = rows[local']
        BY <1>1, <2>4, ProjectionAssumption DEF Restart, IInv, CacheIsRecent, TypeOK, Gens
    <2>5. QED BY <1>1, <2>1, <2>2, <2>3, <2>4, CacheWriters
<1>2. QED BY <1>1, Invariance, PTL DEF Spec, InstallsOneGeneration

\* The projection is not replaced while a request runs
\* (ensure_current_domain_projection).
THEOREM ProjectionIsHeldStill == Spec => NoReplacementUnderRequest
<1>1. ASSUME IInv, [Next]_vars, NEW q \in Requests, pc[q] \in Running, pc'[q] \in Running
      PROVE  local' = local
    <2>1. ASSUME NEW r \in Requests, Install(r) PROVE FALSE
        BY <1>1, <2>1, ProjectionAssumption DEF IInv, GateIsExclusive, Install, Loading
    <2>2. ASSUME NEW r \in Requests, WriteThrough(r) PROVE local' = local
        BY <2>2 DEF WriteThrough
    <2>3. CASE apply_promotions_to_store
        BY <2>3 DEF apply_promotions_to_store
    <2>4. CASE Restart
        BY <1>1, <2>4 DEF Restart, Running
    <2>5. QED BY <1>1, <2>1, <2>2, <2>3, <2>4, CacheWriters
<1>2. IInv /\ [Next]_vars =>
          [\A r \in Requests :
              pc[r] \in Running /\ pc'[r] \in Running => local' = local]_vars
    BY <1>1
<1>3. QED BY <1>2, Invariance, PTL DEF Spec, NoReplacementUnderRequest

=============================================================================
