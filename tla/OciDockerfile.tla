---------------------------- MODULE OciDockerfile ----------------------------
(***************************************************************************)
(* controlled_oci_dockerfile of scripts/platform/kind_reference.py: before  *)
(* a strict proof builds an image, the Dockerfile is read line by line,     *)
(* joined into instructions, and every FROM that names a locked base image  *)
(* by digest is rewritten to the image the mirror loaded.  A file that may  *)
(* reach any other image is refused.                                        *)
(*                                                                          *)
(* A physical line is blank, a comment, a parser directive or text; text    *)
(* ends with the continuation mark when more is TRUE.  Of the text only the *)
(* words that decide are kept: the keyword (empty when the line only goes   *)
(* on with an earlier one), the base and alias of a FROM, the stages a COPY *)
(* or RUN reads from, and whether its options use a form the code refuses.  *)
(***************************************************************************)
EXTENDS Naturals, Sequences, FiniteSets

CONSTANTS BaseImages,   \* OCI_DOCKERFILE_IMAGES of the file
          OciLocks,     \* image locks: base image -> its reference and local name
          Folded,       \* stage name -> its casefold
          DockerLines,  \* the physical lines files are made of
          MaxLines      \* bound on the lines of a file

(* The words of a line.  The names in a file are stage names or folded like *)
(* them; a local name has a tag (":"), which the name of a stage cannot.    *)
StageNames == {line.text.alias : line \in DockerLines} \ {""}
StageSources == [option : {"from", "mount"}, name : DOMAIN Folded \cup {""}, index : Nat]
Words == [keyword : STRING, base : STRING, alias : StageNames \cup {""},
          sources : SUBSET StageSources, odd : BOOLEAN]

ASSUME DockerfileAssumption ==
    /\ OciLocks \subseteq [BaseImages -> [ref : STRING, local : STRING]]
    /\ DockerLines \subseteq [kind : {"blank", "comment", "directive", "text"}, text : Words, more : BOOLEAN]
    /\ StageNames \subseteq DOMAIN Folded
    /\ \A l \in OciLocks, b \in BaseImages, n \in StageNames :
          l[b].local \in DOMAIN Folded => Folded[l[b].local] # Folded[n]

VARIABLES dockerfile,   \* the lines read so far
          ociLock,      \* the lock this build reads
          scan          \* the local variables of the loop

dockerfileVars == <<dockerfile, ociLock, scan>>

NoWords == [keyword |-> "", base |-> "", alias |-> "", sources |-> {}, odd |-> FALSE]
StageName(option, n) == [option |-> option, name |-> n, index |-> 0]
StageIndex(option, i) == [option |-> option, name |-> "", index |-> i]

(* The sources an instruction reads from: --from of COPY, --mount of RUN.   *)
Reads(t) == {x \in t.sources : x.option = CASE t.keyword = "COPY" -> "from"
                                             [] t.keyword = "RUN" -> "mount"
                                             [] OTHER -> "none"}

DockerfileInit ==
    /\ dockerfile = <<>>
    /\ ociLock \in OciLocks
    /\ scan = [joining |-> FALSE, part |-> NoWords, aliases |-> {}, stages |-> 0,
               observed |-> [b \in BaseImages |-> 0], rewritten |-> <<>>, verdict |-> "reading"]

Reject(s) == [s EXCEPT !.verdict = "refused"]

(* controlled_refs: two base images with one reference are refused.         *)
ControlledRefs == {ociLock[b].ref : b \in BaseImages}
BaseOf(ref) == CHOOSE b \in BaseImages : ociLock[b].ref = ref
LockAmbiguous == \E b, c \in BaseImages : b # c /\ ociLock[b].ref = ociLock[c].ref

(* _dockerfile_stage_source_allowed: a known alias in any case, or the      *)
(* number of a stage that has begun.                                        *)
StageSourceAllowed(s, source) ==
    IF source.name = "" THEN source.index < s.stages ELSE Folded[source.name] \in s.aliases

(* _validate_dockerfile_external_sources of an instruction that is no FROM. *)
SourcesAllowed(s, t) ==
    /\ ~t.odd
    /\ t.keyword \notin {"ADD", "ONBUILD"}
    /\ \A source \in Reads(t) : StageSourceAllowed(s, source)

Keeps(s, t) == [s EXCEPT !.rewritten = Append(@, t)]

(* The alias of an earlier stage, and a slip that counts the stage's own.   *)
EarlierOrSelf(s, t) ==
    t.base \in DOMAIN Folded /\ Folded[t.base] \in s.aliases \cup {Folded[n] : n \in {t.alias} \ {""}}
EarlierStage(s, t) == t.base \in DOMAIN Folded /\ Folded[t.base] \in s.aliases

(* A FROM: its base is a controlled reference, which is counted and         *)
(* rewritten, or the alias of an earlier stage; then the stage counts and   *)
(* its own alias is known.                                                  *)
From(s, t) ==
    LET controlled == t.base \in ControlledRefs
        written == IF controlled THEN [t EXCEPT !.base = ociLock[BaseOf(t.base)].local] ELSE t
    IN  IF t.odd \/ ~(controlled \/ EarlierStage(s, t))
          THEN Reject(s)
          ELSE [Keeps(s, written) EXCEPT
                  !.observed = [b \in BaseImages |-> @[b] + IF controlled /\ b = BaseOf(t.base) THEN 1 ELSE 0],
                  !.aliases = IF t.alias = "" THEN @ ELSE @ \cup {Folded[t.alias]},
                  !.stages = @ + 1]

Instruct(s, t) ==
    IF t.keyword = "" THEN Reject(s)
    ELSE IF t.keyword = "FROM" THEN From(s, t)
    ELSE IF SourcesAllowed(s, t) THEN Keeps(s, t) ELSE Reject(s)

(* The first part gives the keyword; all that may follow the base of a FROM *)
(* is its alias.                                                            *)
Join(first, t) ==
    [first EXCEPT !.alias = IF @ = "" THEN t.alias ELSE @,
                  !.sources = @ \cup t.sources,
                  !.odd = @ \/ t.odd \/ (first.keyword = "FROM" /\ t # [NoWords EXCEPT !.alias = t.alias])
                            \/ (first.alias # "" /\ t.alias # "")]

(* _dockerfile_logical_instructions, one physical line, and what the loop   *)
(* does with an instruction once it is complete.                            *)
Physical(s, line) ==
    LET whole == IF s.joining THEN Join(s.part, line.text) ELSE line.text
        done == [s EXCEPT !.joining = FALSE, !.part = NoWords]
    IN  CASE line.kind = "directive" -> Reject(s)
          [] line.kind \in {"blank", "comment"} -> IF s.joining THEN Reject(s) ELSE s
          [] line.kind = "text" ->
               IF line.more THEN [s EXCEPT !.joining = TRUE, !.part = whole] ELSE Instruct(done, whole)

ReadLine ==
    /\ scan.verdict = "reading"
    /\ Len(dockerfile) < MaxLines
    /\ \E line \in DockerLines :
          /\ dockerfile' = Append(dockerfile, line)
          /\ scan' = IF LockAmbiguous THEN Reject(scan) ELSE Physical(scan, line)
    /\ UNCHANGED ociLock

(* The end of the file: no dangling continuation, every base exactly once.  *)
EndOfFile ==
    /\ scan.verdict = "reading"
    /\ scan' = IF LockAmbiguous \/ scan.joining \/ (\E b \in BaseImages : scan.observed[b] # 1)
                 THEN Reject(scan) ELSE [scan EXCEPT !.verdict = "accepted"]
    /\ UNCHANGED <<dockerfile, ociLock>>

DockerfileNext == ReadLine \/ EndOfFile

DockerfileSpec == DockerfileInit /\ [][DockerfileNext]_dockerfileVars

-----------------------------------------------------------------------------
(* What Docker makes of the file it is given: the stages, in order, each on *)
(* an image or on the last earlier stage with that name in any case.        *)
Stages(instructions) == {i \in DOMAIN instructions : instructions[i].keyword = "FROM"}

(* The stages named n that have begun before position i.                    *)
EarlierStages(instructions, i, n) ==
    {j \in Stages(instructions) : /\ j < i /\ instructions[j].alias # "" /\ n \in DOMAIN Folded
                                  /\ Folded[instructions[j].alias] = Folded[n]}

(* Stages that Docker starts from an image rather than from a stage.        *)
OnImages(instructions) ==
    {i \in Stages(instructions) : EarlierStages(instructions, i, instructions[i].base) = {}}

ReadsStage(instructions, i, source) ==
    IF source.name = "" THEN source.index < Cardinality({j \in Stages(instructions) : j < i})
    ELSE EarlierStages(instructions, i, source.name) # {}

(* An accepted Dockerfile builds from the mirror alone: in the rewritten    *)
(* file Docker starts exactly one stage from each locked base image, under  *)
(* its local name, and every other stage, copy and mount from a stage of    *)
(* the file; nothing else that fetches is left, and no line was dropped or  *)
(* attached to a neighbour in between.                                      *)
DockerfileIsControlled ==
    scan.verdict = "accepted" =>
        LET file == scan.rewritten
            texts == {i \in DOMAIN dockerfile : dockerfile[i].kind = "text"}
        IN  /\ \A b \in BaseImages :
                  Cardinality({i \in OnImages(file) : file[i].base = ociLock[b].local}) = 1
            /\ \A i \in OnImages(file) : \E b \in BaseImages : file[i].base = ociLock[b].local
            /\ \A i \in DOMAIN file :
                  /\ file[i].keyword \notin {"", "ADD", "ONBUILD"}
                  /\ \A source \in Reads(file[i]) : ReadsStage(file, i, source)
            /\ Len(file) = Cardinality({i \in texts : ~dockerfile[i].more})
            /\ \A i \in texts : dockerfile[i].more => i + 1 \in texts
=============================================================================
