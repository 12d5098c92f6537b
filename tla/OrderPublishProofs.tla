------------------------- MODULE OrderPublishProofs -------------------------
(***************************************************************************)
(* Proof of PublishReported for any orders, publishers, rooms and names.   *)
(***************************************************************************)
EXTENDS OrderPublish, TLAPS

\* The publishers have rooms from a set in which "done" is no room.
Configured(Rooms) == RoomsOf \in [Publishers -> Seq(Rooms)] /\ "done" \notin Rooms

TypeOK(Rooms) ==
    /\ sending \in [Orders -> [Publishers -> Seq(Rooms) \cup {<<"done">>}]]
    /\ failed \in [Orders -> [Publishers -> BOOLEAN]]
    /\ errs \in [Orders -> SUBSET {NameOf[p] : p \in Publishers}]
    /\ returned \in [Orders -> {"no", "running", "yes"}]

Done(o, p) == sending[o][p] = <<"done">>

\* As long as no room failed, a room of a publisher has the order or is still to do.
RoomKept(o, p) == ~failed[o][p] =>
    \A i \in DOMAIN RoomsOf[p] :
        \/ <<o, RoomsOf[p][i]>> \in posted
        \/ ~Done(o, p) /\ \E j \in DOMAIN sending[o][p] : sending[o][p][j] = RoomsOf[p][i]

\* The names with an error are those of the publishers that have failed and finished.
Reported(o) == errs[o] = {NameOf[p] : p \in {q \in Publishers : failed[o][q] /\ Done(o, q)}}

Waited(o) == returned[o] = "yes" => \A p \in Publishers : Done(o, p)

IInv(Rooms) ==
    /\ TypeOK(Rooms)
    /\ \A o \in Orders : Reported(o) /\ Waited(o) /\ \A p \in Publishers : RoomKept(o, p)

\* What remains to do after the first room.
LEMMA TailOf ==
    ASSUME NEW Rooms, NEW s \in Seq(Rooms), s # <<>>
    PROVE  /\ Tail(s) \in Seq(Rooms) /\ Head(s) \in Rooms
           /\ \A j \in DOMAIN s : s[j] = Head(s) \/ \E k \in DOMAIN Tail(s) : Tail(s)[k] = s[j]
<1>1. Len(s) \in Nat /\ Len(s) > 0 /\ DOMAIN s = 1 .. Len(s)
  OBVIOUS
<1>2. Tail(s) \in Seq(Rooms) /\ Len(Tail(s)) = Len(s) - 1 /\ DOMAIN Tail(s) = 1 .. (Len(s) - 1)
  BY <1>1
<1>3. \A k \in 1 .. (Len(s) - 1) : Tail(s)[k] = s[k + 1]
  BY <1>1
<1>4. ASSUME NEW j \in DOMAIN s, j # 1 PROVE \E k \in DOMAIN Tail(s) : Tail(s)[k] = s[j]
  <2>1. j - 1 \in DOMAIN Tail(s) /\ Tail(s)[j - 1] = s[j]
    BY <1>1, <1>2, <1>3, <1>4
  <2> QED BY <2>1
<1> QED BY <1>1, <1>2, <1>4

LEMMA NotDone ==
    ASSUME NEW Rooms, "done" \notin Rooms, NEW s \in Seq(Rooms)
    PROVE  s # <<"done">>
<1> SUFFICES ASSUME s = <<"done">> PROVE FALSE
  OBVIOUS
<1>1. Len(s) = 1 /\ s[1] = "done"
  OBVIOUS
<1>2. s[1] \in Rooms
  BY <1>1
<1> QED BY <1>1, <1>2

\* What the invariant says of an order that a step leaves alone.
LEMMA OrderFrame ==
    ASSUME NEW o \in Orders, Reported(o), Waited(o), \A p \in Publishers : RoomKept(o, p),
           sending'[o] = sending[o], failed'[o] = failed[o], errs'[o] = errs[o], returned'[o] = returned[o],
           posted \subseteq posted'
    PROVE  (Reported(o) /\ Waited(o) /\ \A p \in Publishers : RoomKept(o, p))'
BY DEF Reported, Waited, RoomKept, Done

\* A message to one room, sent or failed.
LEMMA SendStep ==
    ASSUME NEW Rooms, Configured(Rooms), IInv(Rooms), NEW o \in Orders, NEW p \in Publishers, Send(o, p)
    PROVE  IInv(Rooms)'
<1> DEFINE s == sending[o][p]
<1>t. TypeOK(Rooms) /\ Reported(o) /\ Waited(o) /\ \A q \in Publishers : RoomKept(o, q)
  BY DEF IInv
<1>1. s \in Seq(Rooms) /\ s # <<>> /\ returned[o] = "running" /\ ~Done(o, p)
  BY <1>t DEF Send, Busy, TypeOK, Done
<1>2. /\ Tail(s) \in Seq(Rooms) /\ Tail(s) # <<"done">>
      /\ \A j \in DOMAIN s : s[j] = Head(s) \/ \E k \in DOMAIN Tail(s) : Tail(s)[k] = s[j]
  BY <1>1, TailOf, NotDone DEF Configured
<1>3. sending' = [sending EXCEPT ![o][p] = Tail(s)] /\ UNCHANGED <<errs, returned>> /\ posted \subseteq posted'
  BY DEF Send
<1>4. \/ failed' = failed /\ posted' = posted \cup {<<o, Head(s)>>}
      \/ failed' = [failed EXCEPT ![o][p] = TRUE]
  BY DEF Send
<1> HIDE DEF s
<1>5. TypeOK(Rooms)'
  <2>1. sending' \in [Orders -> [Publishers -> Seq(Rooms) \cup {<<"done">>}]]
    BY <1>t, <1>2, <1>3 DEF TypeOK
  <2>2. failed' \in [Orders -> [Publishers -> BOOLEAN]]
    <3>1. CASE failed' = failed
      BY <1>t, <3>1 DEF TypeOK
    <3>2. CASE failed' = [failed EXCEPT ![o][p] = TRUE]
      <4>1. failed[o] \in [Publishers -> BOOLEAN]
        BY <1>t DEF TypeOK
      <4>2. [failed[o] EXCEPT ![p] = TRUE] \in [Publishers -> BOOLEAN]
        BY <4>1, Zenon
      <4>3. failed' = [failed EXCEPT ![o] = [failed[o] EXCEPT ![p] = TRUE]]
        BY <3>2
      <4> QED BY <1>t, <4>2, <4>3, Zenon DEF TypeOK
    <3> QED BY <1>4, <3>1, <3>2
  <2> QED BY <1>t, <1>3, <2>1, <2>2 DEF TypeOK
<1>6. /\ sending'[o][p] = Tail(s) /\ \A q \in Publishers \ {p} : sending'[o][q] = sending[o][q] /\ failed'[o][q] = failed[o][q]
      /\ \A r \in Orders \ {o} : sending'[r] = sending[r] /\ failed'[r] = failed[r]
  BY <1>t, <1>3, <1>4 DEF TypeOK
<1>7. ~Done(o, p)' /\ \A q \in Publishers \ {p} : Done(o, q)' <=> Done(o, q)
  BY <1>2, <1>6 DEF Done
<1>8. Reported(o)'
  BY <1>t, <1>1, <1>3, <1>6, <1>7 DEF Reported
<1>9. Waited(o)'
  BY <1>1, <1>3 DEF Waited
<1>10. RoomKept(o, p)'
  <2> SUFFICES ASSUME ~failed'[o][p], NEW i \in DOMAIN RoomsOf[p]
               PROVE  <<o, RoomsOf[p][i]>> \in posted' \/ \E k \in DOMAIN Tail(s) : Tail(s)[k] = RoomsOf[p][i]
    BY <1>6, <1>7 DEF RoomKept
  <2>1. failed' = failed /\ posted' = posted \cup {<<o, Head(s)>>}
    BY <1>t, <1>4 DEF TypeOK
  <2>2. <<o, RoomsOf[p][i]>> \in posted \/ \E j \in DOMAIN s : s[j] = RoomsOf[p][i]
    BY <1>t, <2>1 DEF RoomKept, s
  <2> QED BY <1>2, <2>1, <2>2
<1>11. ASSUME NEW q \in Publishers \ {p} PROVE RoomKept(o, q)'
  BY <1>t, <1>3, <1>6, <1>7 DEF RoomKept
<1>12. ASSUME NEW r \in Orders \ {o} PROVE (Reported(r) /\ Waited(r) /\ \A q \in Publishers : RoomKept(r, q))'
  BY <1>3, <1>6, OrderFrame DEF IInv
<1> QED BY <1>5, <1>8, <1>9, <1>10, <1>11, <1>12 DEF IInv

\* A publisher has sent to all of its rooms.
LEMMA FinishStep ==
    ASSUME NEW Rooms, Configured(Rooms), IInv(Rooms), NEW o \in Orders, NEW p \in Publishers, Finish(o, p)
    PROVE  IInv(Rooms)'
<1>t. TypeOK(Rooms) /\ Reported(o) /\ Waited(o) /\ \A q \in Publishers : RoomKept(o, q)
  BY DEF IInv
<1>1. /\ returned[o] = "running" /\ ~Done(o, p) /\ sending[o][p] = <<>>
      /\ errs' = [errs EXCEPT ![o] = IF failed[o][p] THEN errs[o] \cup {NameOf[p]} ELSE errs[o]]
      /\ sending' = [sending EXCEPT ![o][p] = <<"done">>] /\ UNCHANGED <<failed, posted, returned>>
  BY DEF Finish, Busy, Done, Report
<1>2. /\ Done(o, p)' /\ \A q \in Publishers \ {p} : sending'[o][q] = sending[o][q]
      /\ errs'[o] = IF failed[o][p] THEN errs[o] \cup {NameOf[p]} ELSE errs[o]
      /\ \A r \in Orders \ {o} : sending'[r] = sending[r] /\ errs'[r] = errs[r]
  BY <1>t, <1>1 DEF TypeOK, Done
<1>3. TypeOK(Rooms)'
  <2>1. sending' \in [Orders -> [Publishers -> Seq(Rooms) \cup {<<"done">>}]]
    BY <1>t, <1>1 DEF TypeOK
  <2>2. errs' \in [Orders -> SUBSET {NameOf[q] : q \in Publishers}]
    BY <1>t, <1>1 DEF TypeOK
  <2> QED BY <1>t, <1>1, <2>1, <2>2 DEF TypeOK
<1>4. \A q \in Publishers \ {p} : Done(o, q)' <=> Done(o, q)
  BY <1>2 DEF Done
<1>5. Reported(o)'
  <2>1. CASE failed[o][p]
    BY <1>t, <1>1, <1>2, <1>4, <2>1 DEF Reported
  <2>2. CASE ~failed[o][p]
    BY <1>t, <1>1, <1>2, <1>4, <2>2 DEF Reported
  <2> QED BY <2>1, <2>2
<1>6. Waited(o)'
  BY <1>1 DEF Waited
<1>7. RoomKept(o, p)'
  BY <1>t, <1>1 DEF RoomKept
<1>8. ASSUME NEW q \in Publishers \ {p} PROVE RoomKept(o, q)'
  BY <1>t, <1>1, <1>2, <1>4 DEF RoomKept
<1>9. ASSUME NEW r \in Orders \ {o} PROVE (Reported(r) /\ Waited(r) /\ \A q \in Publishers : RoomKept(r, q))'
  BY <1>1, <1>2, OrderFrame DEF IInv
<1> QED BY <1>3, <1>5, <1>6, <1>7, <1>8, <1>9 DEF IInv

\* PubOrder is called, or returns after it has waited for all goroutines.
LEMMA CallStep ==
    ASSUME NEW Rooms, IInv(Rooms), NEW o \in Orders, PubOrder(o) \/ Return(o)
    PROVE  IInv(Rooms)'
<1>t. TypeOK(Rooms) /\ \A r \in Orders : Reported(r) /\ Waited(r) /\ \A q \in Publishers : RoomKept(r, q)
  BY DEF IInv
<1>1. sending' = sending /\ failed' = failed /\ posted' = posted /\ errs' = errs
  BY DEF PubOrder, Return
<1>2. \A r \in Orders : (Reported(r) /\ \A q \in Publishers : RoomKept(r, q))'
  <2>1. ASSUME NEW r \in Orders PROVE Reported(r)'
    BY <1>t, <1>1 DEF Reported, Done
  <2>2. ASSUME NEW r \in Orders, NEW q \in Publishers PROVE RoomKept(r, q)'
    BY <1>t, <1>1 DEF RoomKept, Done
  <2> QED BY <2>1, <2>2
<1>3. CASE PubOrder(o)
  <2>1. returned' = [returned EXCEPT ![o] = "running"]
    BY <1>3 DEF PubOrder
  <2>2. TypeOK(Rooms)' /\ \A r \in Orders : Waited(r)'
    BY <1>t, <1>1, <2>1 DEF TypeOK, Waited, Done
  <2> QED BY <1>2, <2>2 DEF IInv
<1>4. CASE Return(o)
  <2>1. returned' = [returned EXCEPT ![o] = "yes"] /\ \A q \in Publishers : Done(o, q)
    BY <1>4 DEF Return, AllDone, Busy, Done
  <2>2. TypeOK(Rooms)' /\ \A r \in Orders : Waited(r)'
    BY <1>t, <1>1, <2>1 DEF TypeOK, Waited, Done
  <2> QED BY <1>2, <2>2 DEF IInv
<1> QED BY <1>3, <1>4

\* Every step keeps the inductive invariant.
LEMMA InvariantStep ==
    ASSUME NEW Rooms, Configured(Rooms), IInv(Rooms), [Next]_vars
    PROVE  IInv(Rooms)'
<1>1. CASE UNCHANGED vars
  <2>1. TypeOK(Rooms)'
    BY <1>1 DEF vars, IInv, TypeOK
  <2>2. ASSUME NEW o \in Orders PROVE (Reported(o) /\ Waited(o) /\ \A p \in Publishers : RoomKept(o, p))'
    BY <1>1, OrderFrame DEF vars, IInv
  <2> QED BY <2>1, <2>2 DEF IInv
<1> QED BY <1>1, SendStep, FinishStep, CallStep DEF Next

LEMMA InvariantInit ==
    ASSUME NEW Rooms, Configured(Rooms), Init
    PROVE  IInv(Rooms)
<1>1. TypeOK(Rooms)
  BY DEF Init, Configured, TypeOK
<1>2. ASSUME NEW o \in Orders, NEW p \in Publishers PROVE RoomKept(o, p)
  <2>1. ~Done(o, p)
    BY NotDone DEF Init, Configured, Done
  <2> QED BY <2>1 DEF Init, RoomKept
<1>3. ASSUME NEW o \in Orders PROVE Reported(o) /\ Waited(o)
  BY DEF Init, Reported, Waited
<1> QED BY <1>1, <1>2, <1>3 DEF IInv

\* When PubOrder has returned, the invariant gives both parts of PublishReported.
LEMMA InvariantReports ==
    ASSUME NEW Rooms, IInv(Rooms)
    PROVE  PublishReported
<1>1. ASSUME NEW o \in Orders, returned[o] = "yes"
      PROVE  errs[o] = {NameOf[p] : p \in {q \in Publishers : failed[o][q]}}
  BY <1>1 DEF IInv, Waited, Reported
<1>2. ASSUME NEW o \in Orders, returned[o] = "yes", errs[o] = {}, NEW p \in Publishers, NEW i \in DOMAIN RoomsOf[p]
      PROVE  <<o, RoomsOf[p][i]>> \in posted
  <2>1. ~failed[o][p] /\ Done(o, p)
    BY <1>1, <1>2 DEF IInv, Waited
  <2> QED BY <2>1 DEF IInv, RoomKept
<1> QED BY <1>1, <1>2 DEF PublishReported, NilMeansPosted, ErrorsReported

\* PubOrder reports no error only if the order is in every room of every publisher,
\* and otherwise the names of exactly the publishers that failed: for any number of
\* orders published at once, of publishers, shared names and rooms.
THEOREM PublishIsReported ==
    ASSUME NEW Rooms, Configured(Rooms)
    PROVE  Spec => []PublishReported
<1>1. Init => IInv(Rooms)
  BY InvariantInit
<1>2. IInv(Rooms) /\ [Next]_vars => IInv(Rooms)'
  BY InvariantStep
<1>3. IInv(Rooms) => PublishReported
  BY InvariantReports
<1> QED BY <1>1, <1>2, <1>3, PTL DEF Spec
=============================================================================
