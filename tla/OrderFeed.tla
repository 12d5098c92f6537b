------------------------------ MODULE OrderFeed ------------------------------
(* broadcast.SubOrderNext over MatrixSubscribers: per room a goroutine that  *)
(* asks for the messages after its cursor From, stores the new cursor in the *)
(* cache, and then sends the orders one by one into the unbounded channel    *)
(* (a queue: InfiniteChannel implements Fifo) the program receives from.     *)
(* The process may crash at any point and starts again from the cache.       *)
(* A room is an append-only list; an empty From stands for its beginning.    *)
EXTENDS Naturals, Sequences, SequencesExt
CONSTANTS Rooms,
          CachedRooms, \* the rooms of options with CacheFrom
          Limit,       \* messages of one answer, 100
          MaxRoom, MaxCrash, MaxLost  \* bounds: messages of a room, crashes, failed cache calls
VARIABLES room,      \* the messages of a room: does another relay send it?
          from,      \* MatrixSubscriber.From, 0 for ""
          cached,    \* the cached cursor, 0 if there is none
          hand,      \* the orders Next has returned and that are not in the channel yet
          chan,      \* the channel of MakeInfinite
          received,  \* the orders the program has received, as <<room, position>>
          up, crashes, lost

vars == <<room, from, cached, hand, chan, received, up, crashes, lost>>

Init ==
  /\ room = [r \in Rooms |-> <<>>] /\ from = [r \in Rooms |-> 0] /\ cached = [r \in Rooms |-> 0]
  /\ hand = [r \in Rooms |-> <<>>] /\ chan = <<>> /\ received = <<>>
  /\ up = TRUE /\ crashes = 0 /\ lost = 0

\* Somebody sends a message; what this relay sends is filtered by NotSenders.
Message(r, other) ==
  /\ Len(room[r]) < MaxRoom
  /\ room' = [room EXCEPT ![r] = Append(@, other)]
  /\ UNCHANGED <<from, cached, hand, chan, received, up, crashes, lost>>

\* The end of an answer to RoomMessages from the cursor.
EndOf(r) == IF from[r] + Limit < Len(room[r]) THEN from[r] + Limit ELSE Len(room[r])

\* The chunk, in order, without the messages of this relay.
Chunk(r) == SelectSeq([i \in 1 .. EndOf(r) - from[r] |-> <<r, from[r] + i>>], LAMBDA m : room[r][m[2]])

CanLose == lost < MaxLost /\ lost' = lost + 1

\* A mutation: the cursor before the answer is stored.
CacheOld(r) == cached' = [cached EXCEPT ![r] = from[r]] /\ UNCHANGED lost

\* cache.Set of the new cursor; its error is not looked at.
CacheSet(r) ==
  IF r \notin CachedRooms THEN UNCHANGED <<cached, lost>>
  ELSE \/ cached' = [cached EXCEPT ![r] = EndOf(r)] /\ UNCHANGED lost
       \/ CanLose /\ UNCHANGED cached

\* One request of Next.  An empty chunk leads to the next request after a
\* second; an answer that moves nothing is left out.
Next1(r) ==
  /\ up /\ hand[r] = <<>> /\ from[r] < Len(room[r])
  /\ CacheSet(r)
  /\ from' = [from EXCEPT ![r] = EndOf(r)] /\ hand' = [hand EXCEPT ![r] = Chunk(r)]
  /\ UNCHANGED <<room, chan, received, up, crashes>>

\* in <- data
Push(r) ==
  /\ up /\ hand[r] # <<>>
  /\ chan' = Append(chan, Head(hand[r])) /\ hand' = [hand EXCEPT ![r] = Tail(@)]
  /\ UNCHANGED <<room, from, cached, received, up, crashes, lost>>

Receive ==
  /\ up /\ chan # <<>>
  /\ received' = Append(received, Head(chan)) /\ chan' = Tail(chan)
  /\ UNCHANGED <<room, from, cached, hand, up, crashes, lost>>

Crash ==
  /\ up /\ crashes < MaxCrash
  /\ crashes' = crashes + 1 /\ up' = FALSE
  /\ hand' = [r \in Rooms |-> <<>>] /\ chan' = <<>>
  /\ UNCHANGED <<room, from, cached, received, lost>>

\* NewSubscribers: the cursors from the cache; a cache.Get that fails or
\* finds an expired key gives "", as does a room without CacheFrom.
Restart ==
  /\ ~up
  /\ up' = TRUE
  /\ \/ from' = cached /\ UNCHANGED lost
     \/ CanLose /\ \E r \in CachedRooms : from' = [cached EXCEPT ![r] = 0]
  /\ UNCHANGED <<room, cached, hand, chan, received, crashes>>

Next ==
  \/ \E r \in Rooms : (\E other \in BOOLEAN : Message(r, other)) \/ Next1(r) \/ Push(r)
  \/ Receive \/ Crash \/ Restart

Spec == Init /\ [][Next]_vars

\* The goroutines of the rooms and the receiving program are scheduled.
FairSpec ==
  /\ Spec /\ \A r \in Rooms : WF_vars(Next1(r)) /\ WF_vars(Push(r))
  /\ WF_vars(Receive) /\ WF_vars(Restart)

------------------------------------------------------------------------------
(* Cursors stay within their room, a cached one never before the time, and   *)
(* only orders of other relays are under way.                                *)
TypeOK ==
  /\ \A r \in Rooms : from[r] \in 0 .. Len(room[r]) /\ cached[r] \in 0 .. Len(room[r])
  /\ \A r \in Rooms \ CachedRooms : cached[r] = 0
  /\ \A i \in DOMAIN chan : room[chan[i][1]][chan[i][2]]
  /\ \A r \in Rooms : hand[r] \in Seq({r} \X (1 .. MaxRoom))
  /\ up \in BOOLEAN /\ crashes \in 0 .. MaxCrash /\ lost \in 0 .. MaxLost

InOrderOf(s) == \A r \in Rooms : \A i, j \in DOMAIN s :
  i < j /\ s[i][1] = r /\ s[j][1] = r => s[i][2] < s[j][2]

(* With a cached cursor, as long as the cache works, an order of a room is   *)
(* received at most once and in the order of the room, through crashes and   *)
(* restarts: the cursor is stored before its orders are handed on.           *)
AtMostOnce == lost = 0 => InOrderOf(SelectSeq(received, LAMBDA m : m[1] \in CachedRooms))

(* Until the first crash nothing is left out: what was received, waits in    *)
(* the channel or is in hand are all the orders before the cursor.           *)
NoneLeftOut ==
  crashes = 0 => \A r \in Rooms :
    LET mine == SelectSeq(received \o chan \o hand[r], LAMBDA m : m[1] = r)
    IN  mine = SelectSeq([i \in 1 .. from[r] |-> <<r, i>>], LAMBDA m : room[r][m[2]])

(* At least once: without a cached cursor every order of another relay is    *)
(* received in the end, whatever crashes come between.                       *)
AllReceived ==
  \A r \in Rooms \ CachedRooms, n \in 1 .. MaxRoom :
    (n <= Len(room[r]) /\ room[r][n]) ~> (\E i \in DOMAIN received : received[i] = <<r, n>>)
==============================================================================
