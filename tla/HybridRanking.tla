--------------------------- MODULE HybridRanking ---------------------------
(***************************************************************************)
(* hybrid_ranking_core.py: one ranking of authorised documents by lexical  *)
(* signals, extended by at most one semantic neighbour.  The embedding     *)
(* provider is asked for its identity, for the vectors of the documents,   *)
(* for the query's and for its identity again; it may become unavailable   *)
(* or load another model between any two of the calls.  The lexical        *)
(* ranking is computed elsewhere and may be older than the candidates.     *)
(* A document is abstracted to its privacy class and its lexical signals,  *)
(* a vector to the model that made it and its similarity to the query.     *)
(***************************************************************************)
EXTENDS Integers, Sequences, FiniteSets, SequencesExt

CONSTANTS Documents,        \* nodes, as numbers: their ids order ties
          Synthetic,        \* documents that are synthetic and free of personal data
          Signal,           \* document -> lexical signals of the query
          Models,           \* identities of the provider
          LocalModels,      \* those of the local: namespace with valid dimensions
          Cosine,           \* model -> document -> similarity to the query, in thousandths
          MinimumCosine, MinimumMargin, RankLimit,
          MaxSwaps          \* bound: changes of the provider

CosineRange == -1000..1000

ASSUME RankingAssumption ==
    /\ Documents \subseteq Nat /\ IsFiniteSet(Documents) /\ RankLimit \in 1..100 /\ MaxSwaps \in Nat
    /\ MinimumCosine \in CosineRange /\ MinimumMargin \in 0..2000
    /\ Cosine \in [Models -> [Documents -> CosineRange]]

VARIABLES corpus,      \* documents that are visible now
          provider,    \* model the provider has loaded, or that it is away
          swaps,       \* changes so far
          lexical,     \* the lexical ranking handed in
          ranking      \* the ranking under way, and its result

rankingVars == <<corpus, provider, swaps, lexical, ranking>>

Away == "unavailable"
NoSignal == 5
NoRanking == [at |-> "idle"]

(***************************************************************************)
(* Documents and lexical signals                                           *)
(***************************************************************************)

\* SearchDocument and SearchQuery refuse what is not synthetic.
Admitted(docs) == docs \subseteq Synthetic
CandidatesValid(docs) == Cardinality(docs) <= 1000 /\ Admitted(docs)

\* lexical_signal: the first of exact title, exact tag, title prefix, typo
\* and full text that applies, with its score; full text needs one matched
\* token, two if the query has more than three.
FullTextScore(s) == IF s.matched >= (IF s.tokens <= 3 THEN 1 ELSE 2) THEN s.weight ELSE 0
LexicalSignal(d) ==
    LET s == Signal[d]
    IN CASE s.title = "equal"   -> [class |-> 0, score |-> 1000]
         [] s.tag /\ s.title # "equal" -> [class |-> 1, score |-> 1000]
         [] s.title = "prefix" /\ ~s.tag -> [class |-> 2, score |-> s.share]
         [] s.title = "other" /\ ~s.tag /\ s.trigram >= 300 -> [class |-> 3, score |-> s.trigram]
         [] OTHER -> [class |-> IF FullTextScore(s) > 0 THEN 4 ELSE NoSignal, score |-> FullTextScore(s)]

RanksBefore(d, e) ==
    LET s == LexicalSignal(d)
        t == LexicalSignal(e)
    IN \/ s.class < t.class
       \/ s.class = t.class /\ s.score > t.score
       \/ s.class = t.class /\ s.score = t.score /\ d < e

\* A sorted list: at every place the one that so many are before.
InOrder(S, before) ==
    [i \in 1..Cardinality(S) |-> CHOOSE d \in S : Cardinality({e \in S : <<e, d>> \in before}) = i - 1]

Limited(ids) == SubSeq(ids, 1, IF Len(ids) < RankLimit THEN Len(ids) ELSE RankLimit)

RankLexical(docs) ==
    Limited(InOrder({d \in docs : LexicalSignal(d).class # NoSignal},
                    {p \in docs \X docs : RanksBefore(p[1], p[2])}))

\* _validate_precomputed_lexical: unique ids of the candidates.
LexicalValid(docs, ids) == Cardinality(ToSet(ids)) = Len(ids) /\ ToSet(ids) \subseteq docs

(***************************************************************************)
(* Vectors and the hybrid ranking                                          *)
(***************************************************************************)

\* ModelIdentity: a local provider with 1 to 8192 dimensions.
ModelValid(m) == m \in LocalModels

\* GenerationIdentity: derived from the model and the document revision.
Generation(m, docs) == [model |-> m, revision |-> docs]

\* BoundVector.build binds a vector to the generation, whichever model made
\* it: made is a ghost.
BindVector(generation, m, d) == [generation |-> generation, made |-> m, cosine |-> Cosine[m][d]]

VectorsValid(generation, docs, vectors) ==
    DOMAIN vectors = docs /\ \A d \in docs : vectors[d].generation = generation

\* The candidates without a lexical rank, by similarity and then by id; the
\* best is appended if it is near enough and ahead of the second.
Nearer(docs, vectors) ==
    {p \in docs \X docs : \/ vectors[p[1]].cosine > vectors[p[2]].cosine
                          \/ vectors[p[1]].cosine = vectors[p[2]].cosine /\ p[1] < p[2]}
SemanticOrder(docs, ids, vectors) == InOrder(docs \ ToSet(ids), Nearer(docs, vectors))
NearEnough(order, vectors) == vectors[order[1]].cosine >= MinimumCosine
Confident(order, vectors) ==
    /\ NearEnough(order, vectors)
    /\ vectors[order[1]].cosine - (IF Len(order) > 1 THEN vectors[order[2]].cosine ELSE -1000) >= MinimumMargin
SemanticIds(order, vectors) ==
    IF order # <<>> /\ Confident(order, vectors) THEN <<order[1]>> ELSE <<>>
RankHybrid(docs, ids, vectors) == Limited(ids \o SemanticIds(SemanticOrder(docs, ids, vectors), vectors))

(***************************************************************************)
(* One ranking                                                             *)
(***************************************************************************)

RankingInit ==
    /\ corpus \in SUBSET Documents /\ provider \in Models /\ swaps = 0
    /\ lexical = RankLexical(corpus) /\ ranking = NoRanking

\* The surroundings: another model, an outage, a document that comes or goes.
LoadModel(m) ==
    /\ swaps < MaxSwaps /\ swaps' = swaps + 1 /\ provider # m /\ provider' = m
    /\ UNCHANGED <<corpus, lexical, ranking>>
ChangeCorpus(d) ==
    /\ swaps < MaxSwaps /\ swaps' = swaps + 1 /\ ranking.at = "idle"
    /\ corpus' = IF d \in corpus THEN corpus \ {d} ELSE corpus \cup {d}
    /\ UNCHANGED <<provider, lexical, ranking>>

StepRanking(r) == ranking' = r /\ UNCHANGED <<corpus, provider, swaps, lexical>>
Refused == [at |-> "refused"]

\* A provider that cannot be reached leads to the lexical ranking, anything
\* else that is wrong to an error.
Fallback(docs) ==
    IF LexicalValid(docs, lexical)
    THEN [at |-> "done", mode |-> "lexical_fallback", docs |-> docs, ids |-> Limited(lexical)]
    ELSE Refused
Reachable(then) == StepRanking(IF provider = Away THEN Fallback(ranking.docs) ELSE then)

StartRanking ==
    /\ ranking.at = "idle"
    /\ StepRanking(IF CandidatesValid(corpus) THEN [at |-> "before", docs |-> corpus] ELSE Refused)
IdentityBefore ==
    /\ ranking.at = "before"
    /\ Reachable(IF ModelValid(provider)
                 THEN [at |-> "documents", docs |-> ranking.docs, model |-> provider] ELSE Refused)
EmbedDocuments ==
    /\ ranking.at = "documents"
    /\ Reachable([at |-> "query", docs |-> ranking.docs, model |-> ranking.model, docsBy |-> provider])
EmbedQuery ==
    /\ ranking.at = "query"
    /\ Reachable([at |-> "after", docs |-> ranking.docs, model |-> ranking.model,
                  docsBy |-> ranking.docsBy, queryBy |-> provider])
AnyIdentity(r, m) == TRUE
IdentityKept(r, m) == m = r.model
IdentityAfter ==
    /\ ranking.at = "after"
    /\ Reachable(IF ModelValid(provider) /\ IdentityKept(ranking, provider)
                 THEN [at |-> "bound", docs |-> ranking.docs, queryBy |-> ranking.queryBy,
                       generation |-> Generation(ranking.model, ranking.docs),
                       vectors |-> [d \in ranking.docs |->
                           BindVector(Generation(ranking.model, ranking.docs), ranking.docsBy, d)]]
                 ELSE Refused)
RankBound ==
    /\ ranking.at = "bound"
    /\ StepRanking(
          IF /\ VectorsValid(ranking.generation, ranking.docs, ranking.vectors)
             /\ LexicalValid(ranking.docs, lexical)
          THEN [at |-> "done", mode |-> "hybrid", docs |-> ranking.docs, queryBy |-> ranking.queryBy,
                generation |-> ranking.generation, vectors |-> ranking.vectors,
                ids |-> RankHybrid(ranking.docs, lexical, ranking.vectors)]
          ELSE Refused)

RankingNext ==
    \/ \E m \in Models \cup {Away} : LoadModel(m)
    \/ \E d \in Documents : ChangeCorpus(d)
    \/ StartRanking \/ IdentityBefore \/ EmbedDocuments \/ EmbedQuery \/ IdentityAfter \/ RankBound

RankingSpec == RankingInit /\ [][RankingNext]_rankingVars

\* A ranking that is returned shows authorised candidates only and keeps the
\* lexical order; a semantic neighbour comes last, alone, and ahead of every
\* candidate that is left out, by vectors of the model the generation names.
\* A fallback adds nothing.  Documents that came or went since the lexical
\* ranking, an outage or another model at any step lead to an error or to the
\* fallback; only a model that is loaded for one of the calls and replaced by
\* the former before the second identity escapes (rank_with_provider,
\* embed_bound, rank_hybrid).
RankingIsSound ==
    ranking.at = "done" =>
        LET ids == ranking.ids
            added == ToSet(ids) \ ToSet(lexical)
            kept == SubSeq(ids, 1, Len(ids) - Cardinality(added))
            left == ranking.docs \ ToSet(ids)
        IN /\ ToSet(ids) \subseteq ranking.docs \cap Synthetic /\ Cardinality(ToSet(ids)) = Len(ids)
           /\ IsPrefix(kept, lexical) /\ (left \cap ToSet(lexical) # {} => Len(ids) = RankLimit)
           /\ Cardinality(added) <= IF ranking.mode = "hybrid" THEN 1 ELSE 0
           /\ ranking.mode = "hybrid" /\ swaps < 2 =>
                LET m == ranking.generation.model
                IN /\ ranking.queryBy = m /\ \A d \in ranking.docs : ranking.vectors[d].made = m
                   /\ \A d \in added : \A e \in left \ ToSet(lexical) :
                          Cosine[m][d] - Cosine[m][e] >= MinimumMargin

=============================================================================
