------------------------------ MODULE QAHistory ------------------------------
(***************************************************************************)
(* The questions and answers of a session: what SessionMemory stores in    *)
(* its knowledge box, or EphemeralSessionMemory in its process, the list   *)
(* of them the cache keeps beside it, and the history a question reads.    *)
(***************************************************************************)
EXTENDS Naturals, Sequences

CONSTANTS
  Questions,  \* of one session
  Ephemeral,  \* the session is an EphemeralSessionMemory
  Sequential, \* a question is asked when the previous one has been saved
  PageSize,   \* messages of a page of the conversation field
  Limit,      \* entries of the cached list: 20
  MaxEvictions \* bound: entries lost to expiry or to the LRU's size

VARIABLES
  asker,     \* where each question is
  page,      \* pages of the conversation it has read
  pages,     \* pages there were when it looked
  read,      \* what it has read, in the end its qa_history
  stored,    \* the conversation field, or interactions
  cache,     \* the cached list; an empty one is no entry
  evictions

qaVars == <<asker, page, pages, read, stored, cache, evictions>>

Goes(q, s) == asker' = [asker EXCEPT ![q] = s]
Last(s, n) == IF Len(s) <= n THEN s ELSE SubSeq(s, Len(s) - n + 1, Len(s))
PageCount == (Len(stored) + PageSize - 1) \div PageSize
Page(p) == SubSeq(stored, (p - 1) * PageSize + 1, IF p * PageSize > Len(stored) THEN Len(stored) ELSE p * PageSize)
\* Mutation of AppendAll: the list is not trimmed.
AppendUntrimmed(qas) == cache' = cache \o qas
\* append: the newest Limit entries are kept.
AppendAll(qas) == cache' = Last(cache \o qas, Limit)

QATypeOK ==
  /\ asker \in [Questions -> {"idle", "reading", "answering", "saving", "done"}]
  /\ page \in [Questions -> Nat] /\ pages \in [Questions -> Nat]
  /\ read \in [Questions -> Seq(Questions)]
  /\ stored \in Seq(Questions) /\ cache \in Seq(Questions)
  /\ Len(cache) <= Limit /\ evictions \in 0..MaxEvictions

QAInit ==
  /\ asker = [q \in Questions |-> "idle"]
  /\ page = [q \in Questions |-> 0] /\ pages = [q \in Questions |-> 0]
  /\ read = [q \in Questions |-> <<>>]
  /\ stored = <<>> /\ cache = <<>> /\ evictions = 0

\* qa_history: the cached list if there is one, else what is stored.
QaHistory(q) ==
  /\ asker[q] = "idle"
  /\ Sequential => \A o \in Questions : asker[o] \in {"idle", "done"}
  /\ IF cache # <<>> THEN Goes(q, "answering") /\ read' = [read EXCEPT ![q] = cache] /\ UNCHANGED pages
     ELSE IF Ephemeral \/ stored = <<>> THEN Goes(q, "answering") /\ read' = [read EXCEPT ![q] = stored] /\ UNCHANGED pages
     ELSE Goes(q, "reading") /\ pages' = [pages EXCEPT ![q] = PageCount] /\ UNCHANGED read
  /\ UNCHANGED <<page, stored, cache, evictions>>

\* A page of the conversation; all that has been read is appended to the cache.
ReadPage(q) ==
  /\ asker[q] = "reading"
  /\ LET qas == read[q] \o Page(page[q] + 1) IN
       /\ read' = [read EXCEPT ![q] = qas]
       /\ AppendAll(qas)
       /\ page' = [page EXCEPT ![q] = @ + 1]
       /\ IF page[q] + 1 = pages[q] THEN Goes(q, "answering") ELSE UNCHANGED asker
  /\ UNCHANGED <<pages, stored, evictions>>

\* Mutation of Save: a session with a knowledge box does not append it.
SaveStoredOnly(q) ==
  /\ asker[q] = "answering"
  /\ \/ Goes(q, "done") /\ UNCHANGED <<stored, cache>>
     \/ Ephemeral /\ Goes(q, "done") /\ stored' = Append(stored, q) /\ AppendAll(<<q>>)
     \/ ~Ephemeral /\ Goes(q, "saving") /\ UNCHANGED <<stored, cache>>
  /\ UNCHANGED <<page, pages, read, evictions>>
\* save: a question with a final answer is appended to the cached list ...
Save(q) ==
  /\ asker[q] = "answering"
  /\ \/ Goes(q, "done") /\ UNCHANGED <<stored, cache>>
     \/ Ephemeral /\ Goes(q, "done") /\ stored' = Append(stored, q) /\ AppendAll(<<q>>)
     \/ ~Ephemeral /\ Goes(q, "saving") /\ AppendAll(<<q>>) /\ UNCHANGED stored
  /\ UNCHANGED <<page, pages, read, evictions>>

\* ... and then to the conversation.
AddConversationMessage(q) ==
  /\ asker[q] = "saving"
  /\ Goes(q, "done") /\ stored' = Append(stored, q)
  /\ UNCHANGED <<page, pages, read, cache, evictions>>

\* The entry expires, or the LRU drops it.
Evict ==
  /\ cache # <<>> /\ evictions < MaxEvictions
  /\ cache' = <<>> /\ evictions' = evictions + 1
  /\ UNCHANGED <<asker, page, pages, read, stored>>

QANext ==
  \/ \E q \in Questions : QaHistory(q) \/ ReadPage(q) \/ Save(q) \/ AddConversationMessage(q)
  \/ Evict
QASpec == QAInit /\ [][QANext]_qaVars

-----------------------------------------------------------------------------
IsSuffix(s, t) == Len(s) <= Len(t) /\ s = SubSeq(t, Len(t) - Len(s) + 1, Len(t))

\* Questions asked one after another read the newest of the conversation, in
\* its order and without a gap, as long as it fits one page: from the cache
\* and from the store alike, whenever the entry was lost.
HistoryIsASuffix ==
  \A q \in Questions : asker[q] = "answering" => IsSuffix(read[q], stored)

\* The history of a session holds every question once, as the configuration of
\* the agents that read it says ("previous Q&A history from the current session").
NoQuestionTwice ==
  \A q \in Questions : asker[q] = "answering" =>
    \A i, k \in DOMAIN read[q] : read[q][i] = read[q][k] => i = k
=============================================================================
