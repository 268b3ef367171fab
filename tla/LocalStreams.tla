----------------------------- MODULE LocalStreams -----------------------------
(***************************************************************************)
(* The streams of messages of the in-process broker.  A stream is a list   *)
(* that only grows; the broker keeps the streams used last, and a          *)
(* subscriber holds on to the list it found, so that the two may come to   *)
(* differ.  A subscriber that is told nothing for long enough leaves, and  *)
(* subscribes again from the last message it was given, as the relay of    *)
(* the A2A executor does.                                                  *)
(***************************************************************************)
EXTENDS Naturals, Sequences, SequencesExt

CONSTANTS
  Topic,       \* the topic of each subscriber
  Topics,
  MaxStreams,  \* max_streams
  MaxMessages, \* bound: messages published
  MaxSubscribes\* bound: times a subscriber subscribes

Subscribers == DOMAIN Topic

VARIABLES
  streams,   \* _streams: topics and their lists, the one used last first
  lists,     \* the lists there have been: cursors
  counter,   \* _counter
  reader,    \* each subscriber: what it does, its list, last_index, its subscriptions
  received   \* what each has been given

localStreamsVars == <<streams, lists, counter, reader, received>>

LocalStreamsInit ==
  /\ streams = <<>> /\ lists = <<>> /\ counter = 0
  /\ reader = [s \in Subscribers |-> [at |-> "away", list |-> 0, index |-> 0, subscribed |-> 0]]
  /\ received = [s \in Subscribers |-> <<>>]

\* _get_or_create_stream: the list of the topic, which is now the one used last.
Cached(topic) == {e \in ToSet(streams) : e.topic = topic}
ListOf(topic) == IF Cached(topic) = {} THEN Len(lists) + 1 ELSE (CHOOSE e \in Cached(topic) : TRUE).list
Use(topic) ==
  LET others == IF Cached(topic) = {} THEN streams
                ELSE RemoveAt(streams, CHOOSE i \in DOMAIN streams : streams[i].topic = topic)
      used == <<[topic |-> topic, list |-> ListOf(topic)]>> \o others
  IN  streams' = SubSeq(used, 1, IF Len(used) > MaxStreams THEN MaxStreams ELSE Len(used))

Publish(topic) ==
  /\ counter < MaxMessages
  /\ Use(topic) /\ counter' = counter + 1
  /\ lists' = IF Cached(topic) = {} THEN Append(lists, <<counter'>>)
              ELSE [lists EXCEPT ![ListOf(topic)] = Append(@, counter')]
  /\ UNCHANGED <<reader, received>>

\* Mutation of Position: at the message of the cursor.
PositionOfCursor(list, cursor) ==
  IF cursor \in ToSet(list) THEN (CHOOSE i \in DOMAIN list : list[i] = cursor) - 1 ELSE 0

\* Mutation of Position: an unknown cursor stands for all that is there.
PositionAfterUnknown(list, cursor) ==
  IF cursor \in ToSet(list) THEN CHOOSE i \in DOMAIN list : list[i] = cursor ELSE Len(list)

\* Where to go on from a cursor: after it, or from the beginning of a list that
\* does not have it.
Position(list, cursor) == IF cursor \in ToSet(list) THEN CHOOSE i \in DOMAIN list : list[i] = cursor ELSE 0

Subscribe(s) ==
  /\ reader[s].at = "away" /\ reader[s].subscribed < MaxSubscribes
  /\ Use(Topic[s])
  /\ lists' = IF Cached(Topic[s]) = {} THEN Append(lists, <<>>) ELSE lists
  /\ LET list == ListOf(Topic[s])
         cursor == IF received[s] = <<>> THEN 0 ELSE Last(received[s])
     IN  reader' = [reader EXCEPT ![s] = [at |-> "reading", list |-> list, index |-> Position(lists'[list], cursor),
                                          subscribed |-> @.subscribed + 1]]
  /\ UNCHANGED <<counter, received>>

\* What is new is taken, and handed over without the lock; or there is nothing.
Read(s) ==
  LET r == reader[s]
      list == lists[r.list]
  IN  /\ r.at \in {"reading", "waiting"}
      /\ IF r.index < Len(list)
         THEN /\ received' = [received EXCEPT ![s] = @ \o SubSeq(list, r.index + 1, Len(list))]
              /\ reader' = [reader EXCEPT ![s].index = Len(list), ![s].at = "reading"]
         ELSE r.at = "reading" /\ reader' = [reader EXCEPT ![s].at = "waiting"] /\ UNCHANGED received
      /\ UNCHANGED <<streams, lists, counter>>

\* The wait times out, perhaps as a message comes.
TimeOut(s) ==
  /\ reader[s].at = "waiting" /\ reader' = [reader EXCEPT ![s].at = "away"]
  /\ UNCHANGED <<streams, lists, counter, received>>

LocalStreamsNext ==
  \/ \E topic \in Topics : Publish(topic)
  \/ \E s \in Subscribers : Subscribe(s) \/ Read(s) \/ TimeOut(s)

LocalStreamsSpec == LocalStreamsInit /\ [][LocalStreamsNext]_localStreamsVars

-----------------------------------------------------------------------------
\* A subscriber is given each message at most once and in the order they were
\* published, and skips none that the broker still has, however often it left
\* and whatever streams were forgotten meanwhile (broker/local.py, a2a/executor.py).
ReadInOrder ==
  \A s \in Subscribers :
    /\ \A i \in 2..Len(received[s]) : received[s][i - 1] < received[s][i]
    /\ received[s] # <<>> => \A e \in Cached(Topic[s]) : \A c \in ToSet(lists[e.list]) :
         c < Last(received[s]) => c \in ToSet(received[s])
================================================================================
