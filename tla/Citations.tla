------------------------------ MODULE Citations ------------------------------
(***************************************************************************)
(* The citations of a summarized answer: the ids given to the contexts,    *)
(* the footnotes of the answer that name them, their expansion to chunks,  *)
(* and the metadata that is sent with the answer.  A footnote is a marker  *)
(* and a citation: a block, with or without the index of a chunk.          *)
(***************************************************************************)
EXTENDS Naturals, Sequences, SequencesExt

CONSTANTS
  Blocks,      \* ids generate_ctx_block_id tells apart (26 * 26)
  MaxContexts, MaxChunks, MaxNotes \* bounds of the inputs

VARIABLES
  sources,  \* the contexts: the urls of their chunks and the chunks they cite
  body,     \* the markers in the text of the answer, in order
  notes     \* its footnotes

Whole == 99 \* the citation of a context without a chunk index
Unset == {Whole} \* citations is None

\* Mutation of BlockId: one id fewer is told apart.
ShortBlockId(n) == (n - 1) % (Blocks - 1)
\* generate_ctx_block_id: ids repeat after Blocks of them.
BlockId(n) == (n - 1) % Blocks

\* _parse_citation_id: anything but block-AA and block-AA-0 is skipped.
ParseCitationId(c) == c.block \in 0..(Blocks - 1)

\* citation_map, contexts_by_citation_id: the last context with an id.
HasContext(block) == \E n \in DOMAIN sources : BlockId(n) = block
ContextOf(block) ==
  CHOOSE n \in DOMAIN sources : BlockId(n) = block /\ \A k \in DOMAIN sources : BlockId(k) = block => k <= n
Cited(n) == {i \in DOMAIN sources[n].urls : sources[n].cited = Unset \/ i \in sources[n].cited}

\* The chunks a footnote comes to stand for.
Targets(c) ==
  IF ParseCitationId(c) /\ c.chunk = Whole /\ HasContext(c.block) /\ Cited(ContextOf(c.block)) # {}
    THEN [i \in 1..Len(SetToSortSeq(Cited(ContextOf(c.block)), <)) |->
            [block |-> c.block, chunk |-> SetToSortSeq(Cited(ContextOf(c.block)), <)[i]]]
    ELSE <<c>>
\* dict.fromkeys: the first occurrences, in order.
Distinct(s) == SelectSeq([i \in DOMAIN s |-> [at |-> i, of |-> s[i]]],
                         LAMBDA x : \A k \in 1..(x.at - 1) : s[k] # x.of)
Ids(s) == [i \in DOMAIN Distinct(s) |-> Distinct(s)[i].of]
\* split_markdown_footnotes: a marker defined twice keeps its last definition.
Definition(m) ==
  LET ns == {i \in DOMAIN notes : notes[i].marker = m}
  IN  notes[CHOOSE i \in ns : \A k \in ns : k <= i].citation
Defined(m) == \E i \in DOMAIN notes : notes[i].marker = m

\* normalize_chunk_level_citations: the citations renumbered, each marker
\* replaced by the numbers of its targets; other brackets stay as they are.
NormalNotes == Ids(FlattenSeq([i \in DOMAIN notes |-> Targets(Definition(notes[i].marker))]))
Changed == \E i \in DOMAIN notes : Targets(notes[i].citation) # <<notes[i].citation>>
Number(c) == CHOOSE i \in DOMAIN NormalNotes : NormalNotes[i] = c
\* Mutation of ReplaceMarker: only the first target of a marker is kept.
ReplaceFirst(m) == IF Defined(m) THEN <<Number(Targets(Definition(m))[1])>> ELSE <<m>>
ReplaceMarker(m) ==
  IF Defined(m) THEN [i \in DOMAIN Targets(Definition(m)) |-> Number(Targets(Definition(m))[i])] ELSE <<m>>
NormalBody == [i \in DOMAIN body |-> ReplaceMarker(body[i])]

\* build_answer_citations: the urls a citation leads to.
OriginUrls(c) ==
  IF ~ParseCitationId(c) \/ ~HasContext(c.block) THEN {}
  ELSE LET urls == sources[ContextOf(c.block)].urls
       IN  IF c.chunk = Whole THEN {urls[i] : i \in Cited(ContextOf(c.block))}
           ELSE {urls[i] : i \in DOMAIN urls \cap {c.chunk}}

CitationSet == [block : 0..Blocks, chunk : (1..MaxChunks) \cup {Whole}]
Init ==
  /\ sources \in UNION {[1..n -> UNION {[urls : {[i \in 1..k |-> i]}, cited : {Unset} \cup SUBSET (1..k)]
                                          : k \in 0..MaxChunks}] : n \in 1..MaxContexts}
  /\ notes \in UNION {[1..n -> [marker : 1..2, citation : CitationSet]] : n \in 0..MaxNotes}
  /\ body \in {<<1>>, <<2, 1>>}

-----------------------------------------------------------------------------
\* A marker keeps the urls it led to when the citations are expanded: the
\* renumbering mixes up no two footnotes and drops no chunk.
ExpansionKeepsUrls ==
  Changed => \A i \in DOMAIN body : Defined(body[i]) =>
    UNION {OriginUrls(NormalNotes[NormalBody[i][k]]) : k \in DOMAIN NormalBody[i]}
      = OriginUrls(Definition(body[i]))

\* With at most Blocks contexts a citation leads to the context that was
\* shown to the model under that id.
CitationLeadsToItsContext ==
  Len(sources) <= Blocks => \A n \in DOMAIN sources : ContextOf(BlockId(n)) = n
=============================================================================
