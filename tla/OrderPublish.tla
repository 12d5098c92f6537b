---------------------------- MODULE OrderPublish ----------------------------
(* broadcast.PubOrder over MatrixPublishers: a goroutine per publisher sends *)
(* the order to the rooms of the publisher one after the other, goes on      *)
(* after a failure, and reports its failures under the publisher's name;     *)
(* PubOrder waits for all of them.  Several orders are published at a time.  *)
EXTENDS Naturals, Sequences, FiniteSets
CONSTANTS Orders, Publishers,
          RoomsOf,  \* the rooms of a publisher, a sequence
          NameOf    \* Publisher.Name, the same for all publishers of a sort
VARIABLES sending,  \* per order and publisher: the rooms still to do, or "done"
          failed,   \* per order and publisher: a room has failed
          posted,   \* what is in the rooms: <<order, room>>
          errs,     \* per order: the names with an error
          returned  \* per order: PubOrder has not been called, runs, has returned

vars == <<sending, failed, posted, errs, returned>>

Init ==
  /\ sending = [o \in Orders |-> [p \in Publishers |-> RoomsOf[p]]]
  /\ failed = [o \in Orders |-> [p \in Publishers |-> FALSE]]
  /\ posted = {} /\ errs = [o \in Orders |-> {}] /\ returned = [o \in Orders |-> "no"]

\* A goroutine for each publisher.
PubOrder(o) ==
  /\ returned[o] = "no"
  /\ returned' = [returned EXCEPT ![o] = "running"]
  /\ UNCHANGED <<sending, failed, posted, errs>>

Busy(o, p) == returned[o] = "running" /\ sending[o][p] # <<"done">>

\* SendMessages to the next room.  When it fails the message may be there or
\* not.
Send(o, p) ==
  /\ Busy(o, p) /\ sending[o][p] # <<>>
  /\ sending' = [sending EXCEPT ![o][p] = Tail(@)]
  /\ \/ posted' = posted \cup {<<o, Head(sending[o][p])>>} /\ UNCHANGED failed
     \/ /\ failed' = [failed EXCEPT ![o][p] = TRUE]
        /\ posted' \in {posted, posted \cup {<<o, Head(sending[o][p])>>}}
  /\ UNCHANGED <<errs, returned>>

\* A mutation: a publisher without an error clears what another has reported
\* under the name they share.
ReportClears(o, p) ==
  errs' = [errs EXCEPT ![o] = IF failed[o][p] THEN @ \cup {NameOf[p]} ELSE @ \ {NameOf[p]}]

\* The error of the publisher goes under its name, guarded by errsMtx.
Report(o, p) == errs' = [errs EXCEPT ![o] = IF failed[o][p] THEN @ \cup {NameOf[p]} ELSE @]

Finish(o, p) ==
  /\ Busy(o, p) /\ sending[o][p] = <<>>
  /\ Report(o, p)
  /\ sending' = [sending EXCEPT ![o][p] = <<"done">>]
  /\ UNCHANGED <<failed, posted, returned>>

\* wg.Wait()
AllDone(o) == \A p \in Publishers : ~Busy(o, p)

Return(o) ==
  /\ returned[o] = "running" /\ AllDone(o)
  /\ returned' = [returned EXCEPT ![o] = "yes"]
  /\ UNCHANGED <<sending, failed, posted, errs>>

Next == \E o \in Orders :
  PubOrder(o) \/ Return(o) \/ \E p \in Publishers : Send(o, p) \/ Finish(o, p)

Spec == Init /\ [][Next]_vars

-----------------------------------------------------------------------------
(* When PubOrder returns no error the order is in every room of every        *)
(* publisher.                                                                *)
NilMeansPosted ==
  \A o \in Orders : returned[o] = "yes" /\ errs[o] = {} =>
    \A p \in Publishers : \A i \in DOMAIN RoomsOf[p] : <<o, RoomsOf[p][i]>> \in posted

(* When PubOrder returns, the names with an error are exactly those of the   *)
(* publishers that failed, although publishers share a name and race, and    *)
(* orders are published at the same time.                                    *)
ErrorsReported ==
  \A o \in Orders : returned[o] = "yes" =>
    errs[o] = {NameOf[p] : p \in {q \in Publishers : failed[o][q]}}

(* PubOrder tells its caller what happened: without an error the order is in *)
(* every room of every publisher, and the names with an error are exactly    *)
(* those of the publishers that failed, although they share a name and race. *)
PublishReported == NilMeansPosted /\ ErrorsReported
=============================================================================
