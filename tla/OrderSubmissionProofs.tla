------------------------ MODULE OrderSubmissionProofs ------------------------
(***************************************************************************)
(* Theorems about OrderSubmission for every set of callers, previews, keys  *)
(* and orders, and every choice of the limits.                              *)
(***************************************************************************)
EXTENDS OrderSubmission, FiniteSetTheorems, TLAPS

USE DEF Steps, SubStates, Settled, controls, documents, submission, network,
        broker, local, vars

-----------------------------------------------------------------------------
\* Types.  Some updates are well typed only because a call in progress has a
\* preview and an accepted answer has an order.

Targets == \A c \in Callers :
             IF pc[c] = "idle" THEN target[c] = None ELSE target[c] \in Previews

AcceptedIsBooked == \A p \in Previews :
                      reply[p] = "accepted" => \E o \in OrderIds : owner[o] = p

TypeInv == TypeOK /\ Targets /\ AcceptedIsBooked

LEMMA MatchesAreRows ==
  ASSUME NEW p, NEW answer, NEW rows, NEW open
  PROVE  Matches(p, answer, rows, open) \subseteq rows \cup open
BY DEF Matches

LEMMA TypeInit == Init => TypeInv
<1> SUFFICES ASSUME Init PROVE TypeInv
  OBVIOUS
<1>1. /\ kill \in BOOLEAN /\ demo \in BOOLEAN
      /\ preview \in [Previews -> {"none", "approved", "submitted"}]
      /\ previewLive \in [Previews -> BOOLEAN]
      /\ snapshotLive \in [Previews -> BOOLEAN]
  BY DEF Init
<1>2. /\ sub \in [Previews -> SubStates]
      /\ subKey \in [Previews -> Keys \cup {None}]
      /\ subOrder \in [Previews -> OrderIds \cup {None}]
      /\ subLinked \in [Previews -> BOOLEAN]
      /\ run \in [Previews -> Settled \cup {"none"}]
  BY DEF Init
<1>3. /\ wire \subseteq Previews
      /\ reply \in [Previews -> {"none", "accepted", "refused", "fault",
                                 "unauthorized"}]
      /\ owner \in [OrderIds -> Previews \cup {None}]
      /\ book \in [OrderIds -> {"free", "pending", "position", "closed",
                                "cancelled"}]
      /\ protected \in [OrderIds -> BOOLEAN]
      /\ echoed \in [OrderIds -> BOOLEAN]
  BY DEF Init
<1>4. /\ pc \in [Callers -> Steps]
      /\ target \in [Callers -> Previews \cup {None}]
      /\ key \in [Callers -> Keys \cup {None}]
      /\ seen \in [Callers -> SUBSET OrderIds]
  BY DEF Init
<1>5. /\ response \in [Callers -> OrderIds \cup {None}]
      /\ found \in [Callers -> OrderIds \cup {None}]
      /\ outcome \in [Callers -> Settled]
      /\ position \in [Callers -> OrderIds \cup {None}]
      /\ retried \in [Callers -> BOOLEAN]
  BY DEF Init
<1>6. Targets /\ AcceptedIsBooked
  BY DEF Init, Targets, AcceptedIsBooked
<1> QED
  BY <1>1, <1>2, <1>3, <1>4, <1>5, <1>6 DEF TypeOK, TypeInv

LEMMA TypeStep == TypeInv /\ [Next]_vars => TypeInv'
<1> SUFFICES ASSUME TypeInv, [Next]_vars PROVE TypeInv'
  OBVIOUS
<1> USE NoneIsFresh DEF TypeInv, TypeOK, Targets, AcceptedIsBooked
<1>1. CASE SetKillSwitch \/ SetDemoEnabled
  <2>1. kill' \in BOOLEAN /\ demo' \in BOOLEAN
    BY <1>1 DEF SetKillSwitch, SetDemoEnabled
  <2> QED
    BY <1>1, <2>1 DEF SetKillSwitch, SetDemoEnabled
<1>2. ASSUME NEW p \in Previews, ExpirePreview(p)
      PROVE  TypeInv'
  BY <1>2 DEF ExpirePreview
<1>3. ASSUME NEW p \in Previews, ExpireSnapshot(p)
      PROVE  TypeInv'
  BY <1>3 DEF ExpireSnapshot
<1>4. ASSUME NEW p \in Previews, BrokerDeclines(p)
      PROVE  TypeInv'
  BY <1>4 DEF BrokerDeclines, Deliver
<1>5. ASSUME NEW p \in Previews, NEW o \in OrderIds, BrokerAccepts(p, o)
      PROVE  TypeInv'
  BY <1>5, ChoiceAssumption DEF BrokerAccepts, Deliver
<1>6. ASSUME NEW o \in OrderIds, Fill(o) \/ Finish(o)
      PROVE  TypeInv'
  BY <1>6 DEF Fill, Finish
<1>7. ASSUME NEW c \in Callers, NEW p \in Previews, ReviewCheck(c, p)
      PROVE  TypeInv'
  BY <1>7 DEF ReviewCheck, Goto
<1>8. ASSUME NEW c \in Callers, NEW p \in Previews, LateBegin(c, p)
      PROVE  TypeInv'
  BY <1>8 DEF LateBegin, Goto
<1>9. ASSUME NEW c \in Callers, NEW p \in Previews, NEW k \in Keys, Begin(c, p, k)
      PROVE  TypeInv'
  BY <1>9 DEF Begin, Goto
<1>10. ASSUME NEW c \in Callers, ReviewInsert(c) PROVE TypeInv'
  BY <1>10 DEF ReviewInsert, Return, Goto
<1>11. ASSUME NEW c \in Callers, ReviewFails(c) PROVE TypeInv'
  BY <1>11 DEF ReviewFails, Return, Goto
<1>12. ASSUME NEW c \in Callers, ClaimWins(c) PROVE TypeInv'
  BY <1>12 DEF ClaimWins, ClaimFree, Goto
<1>13. ASSUME NEW c \in Callers, ClaimLoses(c) PROVE TypeInv'
  BY <1>13 DEF ClaimLoses, Return, Goto
<1>14. ASSUME NEW c \in Callers, CheckAccount(c) PROVE TypeInv'
  BY <1>14 DEF CheckAccount, Goto
<1>15. ASSUME NEW c \in Callers, CheckEntries(c) PROVE TypeInv'
  BY <1>15 DEF CheckEntries, Goto
<1>16. ASSUME NEW c \in Callers, ReadPositions(c) PROVE TypeInv'
  BY <1>16 DEF ReadPositions, Open, Goto
<1>17. ASSUME NEW c \in Callers, FinalCheck(c) PROVE TypeInv'
  BY <1>17 DEF FinalCheck, Goto
<1>18. ASSUME NEW c \in Callers, CheckFails(c) PROVE TypeInv'
  BY <1>18 DEF CheckFails, Reject, Return, Goto
<1>19. ASSUME NEW c \in Callers, Post(c) PROVE TypeInv'
  BY <1>19 DEF Post, Goto
<1>20. ASSUME NEW c \in Callers, Unauthorized(c) PROVE TypeInv'
  BY <1>20 DEF Unauthorized, Hear, Goto
<1>21. ASSUME NEW c \in Callers, LoggedIn(c) PROVE TypeInv'
  BY <1>21 DEF LoggedIn, Goto
<1>22. ASSUME NEW c \in Callers, Refused(c) PROVE TypeInv'
  BY <1>22 DEF Refused, Reject, Hear, Return, Goto
<1>23. ASSUME NEW c \in Callers, Answered(c) PROVE TypeInv'
  BY <1>23 DEF Answered, Hear, Goto
<1>24. ASSUME NEW c \in Callers, Ambiguous(c) PROVE TypeInv'
  BY <1>24 DEF Ambiguous, Hear, Goto
<1>25. ASSUME NEW c \in Callers, PollVerifies(c) PROVE TypeInv'
  BY <1>25, MatchesAreRows DEF PollVerifies, Goto, Booked, Open
<1>26. ASSUME NEW c \in Callers, PollFindsNothing(c) PROVE TypeInv'
  BY <1>26 DEF PollFindsNothing, Goto
<1>27. ASSUME NEW c \in Callers, PollDiffers(c) PROVE TypeInv'
  <2>1. PICK rows \in SUBSET Booked, open \in SUBSET Open :
          \E o \in Matches(target[c], response[c], rows, open) :
            /\ found' = [found EXCEPT ![c] = IF o \in rows THEN o ELSE response[c]]
            /\ IF o \in open /\ ~protected[o]
               THEN Goto(c, "closing") /\ position' = [position EXCEPT ![c] = o]
               ELSE Goto(c, "store") /\ UNCHANGED position
    BY <1>27 DEF PollDiffers
  <2>2. PICK o \in Matches(target[c], response[c], rows, open) :
            /\ found' = [found EXCEPT ![c] = IF o \in rows THEN o ELSE response[c]]
            /\ IF o \in open /\ ~protected[o]
               THEN Goto(c, "closing") /\ position' = [position EXCEPT ![c] = o]
               ELSE Goto(c, "store") /\ UNCHANGED position
    BY <2>1
  <2>8. rows \subseteq OrderIds /\ open \subseteq OrderIds
    BY DEF Booked, Open
  <2>9. o \in OrderIds
    BY <2>8, MatchesAreRows
  <2>3. /\ \/ pc' = [pc EXCEPT ![c] = "closing"]
           \/ pc' = [pc EXCEPT ![c] = "store"]
        /\ \/ position' = [position EXCEPT ![c] = o]
           \/ UNCHANGED position
    BY <2>2 DEF Goto
  <2>4. position' \in [Callers -> OrderIds \cup {None}]
    BY <2>3, <2>9
  <2>5. (IF o \in rows THEN o ELSE response[c]) \in OrderIds \cup {None}
    BY <2>9
  <2>6. found' = [found EXCEPT ![c] = IF o \in rows THEN o ELSE response[c]]
    BY <2>2
  <2>7. found' \in [Callers -> OrderIds \cup {None}]
    BY <2>5, <2>6
  <2> QED
    BY <1>27, <2>3, <2>4, <2>7 DEF PollDiffers
<1>28. ASSUME NEW c \in Callers, EmergencyClose(c) PROVE TypeInv'
  BY <1>28 DEF EmergencyClose, ClosePosition, Goto
<1>29. ASSUME NEW c \in Callers, EmergencyCloseFails(c) PROVE TypeInv'
  BY <1>29 DEF EmergencyCloseFails, ClosePosition, Goto
<1>30. ASSUME NEW c \in Callers, StoreOutcome(c) PROVE TypeInv'
  BY <1>30 DEF StoreOutcome, Goto
<1>31. ASSUME NEW c \in Callers, StoreClashes(c) PROVE TypeInv'
  BY <1>31 DEF StoreClashes, Return, Goto
<1>32. ASSUME NEW c \in Callers, MarkPreview(c) PROVE TypeInv'
  BY <1>32 DEF MarkPreview, Goto
<1>33. ASSUME NEW c \in Callers, RecordRun(c) PROVE TypeInv'
  BY <1>33 DEF RecordRun, Goto
<1>34. ASSUME NEW c \in Callers, LinkRun(c) PROVE TypeInv'
  BY <1>34 DEF LinkRun, Return, Goto
<1>35. ASSUME NEW c \in Callers, LateVerifies(c) PROVE TypeInv'
  <2>1. PICK rows \in SUBSET Booked, open \in SUBSET Open :
          \E o \in Matches(target[c], response[c], rows, open) :
            subOrder' = [subOrder EXCEPT ![target[c]] =
                           IF o \in rows THEN o ELSE response[c]]
    BY <1>35 DEF LateVerifies
  <2>2. PICK o \in Matches(target[c], response[c], rows, open) :
          subOrder' = [subOrder EXCEPT ![target[c]] =
                         IF o \in rows THEN o ELSE response[c]]
    BY <2>1
  <2>3. (IF o \in rows THEN o ELSE response[c]) \in OrderIds \cup {None}
    BY MatchesAreRows DEF Booked, Open
  <2>4. subOrder' \in [Previews -> OrderIds \cup {None}]
    BY <2>2, <2>3
  <2> QED
    BY <1>35, <2>4 DEF LateVerifies, Goto
<1>36. ASSUME NEW c \in Callers, LateRun(c) PROVE TypeInv'
  BY <1>36 DEF LateRun, Return, Goto
<1>37. ASSUME NEW c \in Callers, LateEnds(c) PROVE TypeInv'
  BY <1>37 DEF LateEnds, Return, Goto
<1>38. ASSUME NEW c \in Callers, Die(c) PROVE TypeInv'
  <2>1. CASE pc[c] = "placing"
    <3>1. Hear(c) /\ Return(c) BY <1>38, <2>1 DEF Die
    <3>2. /\ reply' \in [Previews -> {"none", "accepted", "refused", "fault", "unauthorized"}]
          /\ \A p \in Previews : reply'[p] = "accepted" => reply[p] = "accepted"
      BY <3>1 DEF Hear
    <3> QED BY <1>38, <3>1, <3>2 DEF Die, Return, Goto
  <2>2. CASE pc[c] # "placing" BY <1>38, <2>2 DEF Die, Return, Goto
  <2> QED BY <2>1, <2>2
<1>39. ASSUME NEW c \in Callers, CallStep(c) PROVE TypeInv'
  BY <1>10, <1>11, <1>12, <1>13, <1>14, <1>15, <1>16, <1>17, <1>18, <1>19,
     <1>20, <1>21, <1>22, <1>23, <1>24, <1>25, <1>26, <1>27, <1>28, <1>29,
     <1>30, <1>31, <1>32, <1>33, <1>34, <1>35, <1>36, <1>37, <1>39
  DEF CallStep
<1>40. CASE UNCHANGED vars
  BY <1>40
<1> QED
  BY <1>1, <1>2, <1>3, <1>4, <1>5, <1>6, <1>7, <1>8, <1>9, <1>38, <1>39, <1>40
  DEF Next, Owner, Clock, Broker, NewCall

\* Every variable keeps its type, whatever the calls, the broker, the clock
\* and the owner do.
THEOREM TypeCorrect == Spec => []TypeOK
<1>1. Init => TypeInv
  BY TypeInit
<1>2. TypeInv /\ [Next]_vars => TypeInv'
  BY TypeStep
<1>3. TypeInv => TypeOK
  BY DEF TypeInv
<1> QED
  BY <1>1, <1>2, <1>3, PTL DEF Spec

-----------------------------------------------------------------------------
\* The inductive invariant.

Unposted  == {"account", "entries", "positions", "orders", "sending", "relogin"}
Claiming  == Unposted \cup {"placing", "polling", "closing", "store"}
Recording == {"mark", "record", "link"}
Late      == {"late", "lateRun"}

\* A preview in the hands of a call has no other holder: the claim made it so.
OneHolder ==
  \A c, d \in Callers : c # d =>
    /\ pc[c] \in Claiming \cup Recording /\ pc[d] \in Claiming \cup Recording
         => target[c] # target[d]
    /\ pc[c] = "reviewing" => target[d] # target[c]

\* What the rows say while a call works on them.
RowsFollowCalls ==
  \A c \in Callers :
    /\ pc[c] = "reviewing" => preview[target[c]] = "none"
    /\ pc[c] \in Claiming => sub[target[c]] = "claimed"
    /\ pc[c] \in Recording => /\ sub[target[c]] = outcome[c]
                              /\ ~subLinked[target[c]]
    /\ pc[c] \in {"mark", "record"} => run[target[c]] = "none"
    /\ pc[c] \in {"record", "link"} => preview[target[c]] = "submitted"
    /\ pc[c] = "link" => run[target[c]] = outcome[c]
    /\ pc[c] \in Late => /\ sub[target[c]] \in {"unknown", "verified"}
                         /\ run[target[c]] \in {"unknown", "verified"}
                         /\ subLinked[target[c]]
    /\ pc[c] = "lateRun" => sub[target[c]] = "verified"

NoOrderYet(p) == p \notin wire /\ \A o \in OrderIds : owner[o] # p

\* Where a request can still be, and where an order can already be.
OrdersFollowPosts ==
  \A p \in Previews :
    /\ sub[p] \in {"none", "rejected"} => NoOrderYet(p)
    /\ \A c \in Callers : pc[c] \in Unposted /\ target[c] = p => NoOrderYet(p)
    /\ p \in wire => \A o \in OrderIds : owner[o] # p
    /\ reply[p] # "none" => /\ p \notin wire
                            /\ \E c \in Callers : pc[c] = "placing" /\ target[c] = p
    /\ ProvesRefusal(reply[p]) => NoOrderYet(p)
    /\ \A o, q \in OrderIds : owner[o] = p /\ owner[q] = p => o = q

RowsAgree ==
  \A p \in Previews :
    /\ subLinked[p] => run[p] # "none"
    /\ run[p] # "none" =>
         /\ sub[p] \in Settled /\ preview[p] = "submitted"
         /\ run[p] = sub[p] \/ (run[p] = "unknown" /\ sub[p] = "verified")

IInv == TypeInv /\ OneHolder /\ RowsFollowCalls /\ OrdersFollowPosts /\ RowsAgree

LEMMA IInvInit == Init => IInv
<1> SUFFICES ASSUME Init PROVE IInv
  OBVIOUS
<1>1. TypeInv
  BY TypeInit
<1>2. OneHolder /\ RowsFollowCalls
  BY DEF Init, OneHolder, RowsFollowCalls, Claiming, Unposted, Recording, Late
<1>3. OrdersFollowPosts /\ RowsAgree
  BY NoneIsFresh DEF Init, OrdersFollowPosts, RowsAgree, NoOrderYet, Unposted,
     ProvesRefusal
<1> QED
  BY <1>1, <1>2, <1>3 DEF IInv

LEMMA HolderStep ==
  IInv /\ [Next]_vars => OneHolder'
<1> SUFFICES ASSUME IInv, [Next]_vars PROVE OneHolder'
  OBVIOUS
<1> USE NoneIsFresh DEF IInv, TypeInv, TypeOK, Targets, OneHolder,
            RowsFollowCalls, RowsAgree, Claiming, Unposted, Recording, Late
<1>1. CASE SetKillSwitch \/ SetDemoEnabled
  BY <1>1 DEF SetKillSwitch, SetDemoEnabled
<1>2. ASSUME NEW p \in Previews, ExpirePreview(p)
      PROVE  OneHolder'
  BY <1>2 DEF ExpirePreview
<1>3. ASSUME NEW p \in Previews, ExpireSnapshot(p)
      PROVE  OneHolder'
  BY <1>3 DEF ExpireSnapshot
<1>4. ASSUME NEW p \in Previews, BrokerDeclines(p)
      PROVE  OneHolder'
  BY <1>4 DEF BrokerDeclines, Deliver
<1>5. ASSUME NEW p \in Previews, NEW o \in OrderIds, BrokerAccepts(p, o)
      PROVE  OneHolder'
  BY <1>5 DEF BrokerAccepts, Deliver
<1>6. ASSUME NEW o \in OrderIds, Fill(o) \/ Finish(o)
      PROVE  OneHolder'
  BY <1>6 DEF Fill, Finish
<1>7. ASSUME NEW c \in Callers, NEW p \in Previews, ReviewCheck(c, p)
      PROVE  OneHolder'
  BY <1>7 DEF ReviewCheck, Goto
<1>8. ASSUME NEW c \in Callers, NEW p \in Previews, LateBegin(c, p)
      PROVE  OneHolder'
  BY <1>8 DEF LateBegin, Goto
<1>9. ASSUME NEW c \in Callers, NEW p \in Previews, NEW k \in Keys, Begin(c, p, k)
      PROVE  OneHolder'
  BY <1>9 DEF Begin, Goto
<1>10. ASSUME NEW c \in Callers, ReviewInsert(c) PROVE OneHolder'
  BY <1>10 DEF ReviewInsert, Return, Goto
<1>11. ASSUME NEW c \in Callers, ReviewFails(c) PROVE OneHolder'
  BY <1>11 DEF ReviewFails, Return, Goto
<1>12. ASSUME NEW c \in Callers, ClaimWins(c) PROVE OneHolder'
  BY <1>12 DEF ClaimWins, ClaimFree, Goto
<1>13. ASSUME NEW c \in Callers, ClaimLoses(c) PROVE OneHolder'
  BY <1>13 DEF ClaimLoses, Return, Goto
<1>14. ASSUME NEW c \in Callers, CheckAccount(c) PROVE OneHolder'
  BY <1>14 DEF CheckAccount, Goto
<1>15. ASSUME NEW c \in Callers, CheckEntries(c) PROVE OneHolder'
  BY <1>15 DEF CheckEntries, Goto
<1>16. ASSUME NEW c \in Callers, ReadPositions(c) PROVE OneHolder'
  BY <1>16 DEF ReadPositions, Open, Goto
<1>17. ASSUME NEW c \in Callers, FinalCheck(c) PROVE OneHolder'
  BY <1>17 DEF FinalCheck, Goto
<1>18. ASSUME NEW c \in Callers, CheckFails(c) PROVE OneHolder'
  BY <1>18 DEF CheckFails, Reject, Return, Goto
<1>19. ASSUME NEW c \in Callers, Post(c) PROVE OneHolder'
  BY <1>19 DEF Post, Goto
<1>20. ASSUME NEW c \in Callers, Unauthorized(c) PROVE OneHolder'
  BY <1>20 DEF Unauthorized, Hear, Goto
<1>21. ASSUME NEW c \in Callers, LoggedIn(c) PROVE OneHolder'
  BY <1>21 DEF LoggedIn, Goto
<1>22. ASSUME NEW c \in Callers, Refused(c) PROVE OneHolder'
  BY <1>22 DEF Refused, Reject, Hear, Return, Goto
<1>23. ASSUME NEW c \in Callers, Answered(c) PROVE OneHolder'
  BY <1>23 DEF Answered, Hear, Goto
<1>24. ASSUME NEW c \in Callers, Ambiguous(c) PROVE OneHolder'
  BY <1>24 DEF Ambiguous, Hear, Goto
<1>25. ASSUME NEW c \in Callers, PollVerifies(c) PROVE OneHolder'
  BY <1>25 DEF PollVerifies, Goto
<1>26. ASSUME NEW c \in Callers, PollFindsNothing(c) PROVE OneHolder'
  BY <1>26 DEF PollFindsNothing, Goto
<1>27. ASSUME NEW c \in Callers, PollDiffers(c) PROVE OneHolder'
  BY <1>27 DEF PollDiffers, Goto
<1>28. ASSUME NEW c \in Callers, EmergencyClose(c) PROVE OneHolder'
  BY <1>28 DEF EmergencyClose, ClosePosition, Goto
<1>29. ASSUME NEW c \in Callers, EmergencyCloseFails(c) PROVE OneHolder'
  BY <1>29 DEF EmergencyCloseFails, ClosePosition, Goto
<1>30. ASSUME NEW c \in Callers, StoreOutcome(c) PROVE OneHolder'
  BY <1>30 DEF StoreOutcome, Goto
<1>31. ASSUME NEW c \in Callers, StoreClashes(c) PROVE OneHolder'
  BY <1>31 DEF StoreClashes, Return, Goto
<1>32. ASSUME NEW c \in Callers, MarkPreview(c) PROVE OneHolder'
  BY <1>32 DEF MarkPreview, Goto
<1>33. ASSUME NEW c \in Callers, RecordRun(c) PROVE OneHolder'
  BY <1>33 DEF RecordRun, Goto
<1>34. ASSUME NEW c \in Callers, LinkRun(c) PROVE OneHolder'
  BY <1>34 DEF LinkRun, Return, Goto
<1>35. ASSUME NEW c \in Callers, LateVerifies(c) PROVE OneHolder'
  BY <1>35 DEF LateVerifies, Goto
<1>36. ASSUME NEW c \in Callers, LateRun(c) PROVE OneHolder'
  BY <1>36 DEF LateRun, Return, Goto
<1>37. ASSUME NEW c \in Callers, LateEnds(c) PROVE OneHolder'
  BY <1>37 DEF LateEnds, Return, Goto
<1>38. ASSUME NEW c \in Callers, Die(c) PROVE OneHolder'
  BY <1>38 DEF Die, Hear, Return, Goto
<1>39. CASE UNCHANGED vars
  BY <1>39
<1> QED
  BY <1>1, <1>2, <1>3, <1>4, <1>5, <1>6, <1>7, <1>8, <1>9, <1>10, <1>11,
     <1>12, <1>13, <1>14, <1>15, <1>16, <1>17, <1>18, <1>19, <1>20, <1>21,
     <1>22, <1>23, <1>24, <1>25, <1>26, <1>27, <1>28, <1>29, <1>30, <1>31,
     <1>32, <1>33, <1>34, <1>35, <1>36, <1>37, <1>38, <1>39
  DEF Next, Owner, Clock, Broker, CallStep, NewCall

LEMMA RowsStep ==
  IInv /\ [Next]_vars => RowsFollowCalls'
<1> SUFFICES ASSUME IInv, [Next]_vars PROVE RowsFollowCalls'
  OBVIOUS
<1> USE NoneIsFresh DEF IInv, TypeInv, TypeOK, Targets, OneHolder,
            RowsFollowCalls, RowsAgree, Claiming, Unposted, Recording, Late
<1>1. CASE SetKillSwitch \/ SetDemoEnabled
  BY <1>1 DEF SetKillSwitch, SetDemoEnabled
<1>2. ASSUME NEW p \in Previews, ExpirePreview(p)
      PROVE  RowsFollowCalls'
  BY <1>2 DEF ExpirePreview
<1>3. ASSUME NEW p \in Previews, ExpireSnapshot(p)
      PROVE  RowsFollowCalls'
  BY <1>3 DEF ExpireSnapshot
<1>4. ASSUME NEW p \in Previews, BrokerDeclines(p)
      PROVE  RowsFollowCalls'
  BY <1>4 DEF BrokerDeclines, Deliver
<1>5. ASSUME NEW p \in Previews, NEW o \in OrderIds, BrokerAccepts(p, o)
      PROVE  RowsFollowCalls'
  BY <1>5 DEF BrokerAccepts, Deliver
<1>6. ASSUME NEW o \in OrderIds, Fill(o) \/ Finish(o)
      PROVE  RowsFollowCalls'
  BY <1>6 DEF Fill, Finish
<1>7. ASSUME NEW c \in Callers, NEW p \in Previews, ReviewCheck(c, p)
      PROVE  RowsFollowCalls'
  BY <1>7 DEF ReviewCheck, Goto
<1>8. ASSUME NEW c \in Callers, NEW p \in Previews, LateBegin(c, p)
      PROVE  RowsFollowCalls'
  BY <1>8 DEF LateBegin, Goto
<1>9. ASSUME NEW c \in Callers, NEW p \in Previews, NEW k \in Keys, Begin(c, p, k)
      PROVE  RowsFollowCalls'
  BY <1>9 DEF Begin, Goto
<1>10. ASSUME NEW c \in Callers, ReviewInsert(c) PROVE RowsFollowCalls'
  BY <1>10 DEF ReviewInsert, Return, Goto
<1>11. ASSUME NEW c \in Callers, ReviewFails(c) PROVE RowsFollowCalls'
  BY <1>11 DEF ReviewFails, Return, Goto
<1>12. ASSUME NEW c \in Callers, ClaimWins(c) PROVE RowsFollowCalls'
  BY <1>12 DEF ClaimWins, ClaimFree, Goto
<1>13. ASSUME NEW c \in Callers, ClaimLoses(c) PROVE RowsFollowCalls'
  BY <1>13 DEF ClaimLoses, Return, Goto
<1>14. ASSUME NEW c \in Callers, CheckAccount(c) PROVE RowsFollowCalls'
  BY <1>14 DEF CheckAccount, Goto
<1>15. ASSUME NEW c \in Callers, CheckEntries(c) PROVE RowsFollowCalls'
  BY <1>15 DEF CheckEntries, Goto
<1>16. ASSUME NEW c \in Callers, ReadPositions(c) PROVE RowsFollowCalls'
  BY <1>16 DEF ReadPositions, Open, Goto
<1>17. ASSUME NEW c \in Callers, FinalCheck(c) PROVE RowsFollowCalls'
  BY <1>17 DEF FinalCheck, Goto
<1>18. ASSUME NEW c \in Callers, CheckFails(c) PROVE RowsFollowCalls'
  BY <1>18 DEF CheckFails, Reject, Return, Goto
<1>19. ASSUME NEW c \in Callers, Post(c) PROVE RowsFollowCalls'
  BY <1>19 DEF Post, Goto
<1>20. ASSUME NEW c \in Callers, Unauthorized(c) PROVE RowsFollowCalls'
  BY <1>20 DEF Unauthorized, Hear, Goto
<1>21. ASSUME NEW c \in Callers, LoggedIn(c) PROVE RowsFollowCalls'
  BY <1>21 DEF LoggedIn, Goto
<1>22. ASSUME NEW c \in Callers, Refused(c) PROVE RowsFollowCalls'
  BY <1>22 DEF Refused, Reject, Hear, Return, Goto
<1>23. ASSUME NEW c \in Callers, Answered(c) PROVE RowsFollowCalls'
  BY <1>23 DEF Answered, Hear, Goto
<1>24. ASSUME NEW c \in Callers, Ambiguous(c) PROVE RowsFollowCalls'
  BY <1>24 DEF Ambiguous, Hear, Goto
<1>25. ASSUME NEW c \in Callers, PollVerifies(c) PROVE RowsFollowCalls'
  BY <1>25 DEF PollVerifies, Goto
<1>26. ASSUME NEW c \in Callers, PollFindsNothing(c) PROVE RowsFollowCalls'
  BY <1>26 DEF PollFindsNothing, Goto
<1>27. ASSUME NEW c \in Callers, PollDiffers(c) PROVE RowsFollowCalls'
  BY <1>27 DEF PollDiffers, Goto
<1>28. ASSUME NEW c \in Callers, EmergencyClose(c) PROVE RowsFollowCalls'
  BY <1>28 DEF EmergencyClose, ClosePosition, Goto
<1>29. ASSUME NEW c \in Callers, EmergencyCloseFails(c) PROVE RowsFollowCalls'
  BY <1>29 DEF EmergencyCloseFails, ClosePosition, Goto
<1>30. ASSUME NEW c \in Callers, StoreOutcome(c) PROVE RowsFollowCalls'
  BY <1>30 DEF StoreOutcome, Goto
<1>31. ASSUME NEW c \in Callers, StoreClashes(c) PROVE RowsFollowCalls'
  BY <1>31 DEF StoreClashes, Return, Goto
<1>32. ASSUME NEW c \in Callers, MarkPreview(c) PROVE RowsFollowCalls'
  BY <1>32 DEF MarkPreview, Goto
<1>33. ASSUME NEW c \in Callers, RecordRun(c) PROVE RowsFollowCalls'
  BY <1>33 DEF RecordRun, Goto
<1>34. ASSUME NEW c \in Callers, LinkRun(c) PROVE RowsFollowCalls'
  BY <1>34 DEF LinkRun, Return, Goto
<1>35. ASSUME NEW c \in Callers, LateVerifies(c) PROVE RowsFollowCalls'
  BY <1>35 DEF LateVerifies, Goto
<1>36. ASSUME NEW c \in Callers, LateRun(c) PROVE RowsFollowCalls'
  BY <1>36 DEF LateRun, Return, Goto
<1>37. ASSUME NEW c \in Callers, LateEnds(c) PROVE RowsFollowCalls'
  BY <1>37 DEF LateEnds, Return, Goto
<1>38. ASSUME NEW c \in Callers, Die(c) PROVE RowsFollowCalls'
  BY <1>38 DEF Die, Hear, Return, Goto
<1>39. CASE UNCHANGED vars
  BY <1>39
<1> QED
  BY <1>1, <1>2, <1>3, <1>4, <1>5, <1>6, <1>7, <1>8, <1>9, <1>10, <1>11,
     <1>12, <1>13, <1>14, <1>15, <1>16, <1>17, <1>18, <1>19, <1>20, <1>21,
     <1>22, <1>23, <1>24, <1>25, <1>26, <1>27, <1>28, <1>29, <1>30, <1>31,
     <1>32, <1>33, <1>34, <1>35, <1>36, <1>37, <1>38, <1>39
  DEF Next, Owner, Clock, Broker, CallStep, NewCall

LEMMA OrdersStep ==
  IInv /\ [Next]_vars => OrdersFollowPosts'
<1> SUFFICES ASSUME IInv, [Next]_vars PROVE OrdersFollowPosts'
  OBVIOUS
<1> USE NoneIsFresh DEF IInv, TypeInv, TypeOK, Targets, OneHolder,
            RowsFollowCalls, OrdersFollowPosts, NoOrderYet, ProvesRefusal, Claiming, Unposted, Recording
<1>1. CASE SetKillSwitch \/ SetDemoEnabled
  BY <1>1 DEF SetKillSwitch, SetDemoEnabled
<1>2. ASSUME NEW p \in Previews, ExpirePreview(p)
      PROVE  OrdersFollowPosts'
  BY <1>2 DEF ExpirePreview
<1>3. ASSUME NEW p \in Previews, ExpireSnapshot(p)
      PROVE  OrdersFollowPosts'
  BY <1>3 DEF ExpireSnapshot
<1>4. ASSUME NEW p \in Previews, BrokerDeclines(p)
      PROVE  OrdersFollowPosts'
  BY <1>4 DEF BrokerDeclines, Deliver
<1>5. ASSUME NEW p \in Previews, NEW o \in OrderIds, BrokerAccepts(p, o)
      PROVE  OrdersFollowPosts'
  BY <1>5 DEF BrokerAccepts, Deliver
<1>6. ASSUME NEW o \in OrderIds, Fill(o) \/ Finish(o)
      PROVE  OrdersFollowPosts'
  BY <1>6 DEF Fill, Finish
<1>7. ASSUME NEW c \in Callers, NEW p \in Previews, ReviewCheck(c, p)
      PROVE  OrdersFollowPosts'
  BY <1>7 DEF ReviewCheck, Goto
<1>8. ASSUME NEW c \in Callers, NEW p \in Previews, LateBegin(c, p)
      PROVE  OrdersFollowPosts'
  BY <1>8 DEF LateBegin, Goto
<1>9. ASSUME NEW c \in Callers, NEW p \in Previews, NEW k \in Keys, Begin(c, p, k)
      PROVE  OrdersFollowPosts'
  BY <1>9 DEF Begin, Goto
<1>10. ASSUME NEW c \in Callers, ReviewInsert(c) PROVE OrdersFollowPosts'
  BY <1>10 DEF ReviewInsert, Return, Goto
<1>11. ASSUME NEW c \in Callers, ReviewFails(c) PROVE OrdersFollowPosts'
  BY <1>11 DEF ReviewFails, Return, Goto
<1>12. ASSUME NEW c \in Callers, ClaimWins(c) PROVE OrdersFollowPosts'
  BY <1>12 DEF ClaimWins, ClaimFree, Goto
<1>13. ASSUME NEW c \in Callers, ClaimLoses(c) PROVE OrdersFollowPosts'
  BY <1>13 DEF ClaimLoses, Return, Goto
<1>14. ASSUME NEW c \in Callers, CheckAccount(c) PROVE OrdersFollowPosts'
  BY <1>14 DEF CheckAccount, Goto
<1>15. ASSUME NEW c \in Callers, CheckEntries(c) PROVE OrdersFollowPosts'
  BY <1>15 DEF CheckEntries, Goto
<1>16. ASSUME NEW c \in Callers, ReadPositions(c) PROVE OrdersFollowPosts'
  BY <1>16 DEF ReadPositions, Open, Goto
<1>17. ASSUME NEW c \in Callers, FinalCheck(c) PROVE OrdersFollowPosts'
  BY <1>17 DEF FinalCheck, Goto
<1>18. ASSUME NEW c \in Callers, CheckFails(c) PROVE OrdersFollowPosts'
  BY <1>18 DEF CheckFails, Reject, Return, Goto
<1>19. ASSUME NEW c \in Callers, Post(c) PROVE OrdersFollowPosts'
  BY <1>19 DEF Post, Goto
<1>20. ASSUME NEW c \in Callers, Unauthorized(c) PROVE OrdersFollowPosts'
  BY <1>20 DEF Unauthorized, Hear, Goto
<1>21. ASSUME NEW c \in Callers, LoggedIn(c) PROVE OrdersFollowPosts'
  BY <1>21 DEF LoggedIn, Goto
<1>22. ASSUME NEW c \in Callers, Refused(c) PROVE OrdersFollowPosts'
  BY <1>22 DEF Refused, Reject, Hear, Return, Goto
<1>23. ASSUME NEW c \in Callers, Answered(c) PROVE OrdersFollowPosts'
  BY <1>23 DEF Answered, Hear, Goto
<1>24. ASSUME NEW c \in Callers, Ambiguous(c) PROVE OrdersFollowPosts'
  BY <1>24 DEF Ambiguous, Hear, Goto
<1>25. ASSUME NEW c \in Callers, PollVerifies(c) PROVE OrdersFollowPosts'
  BY <1>25 DEF PollVerifies, Goto
<1>26. ASSUME NEW c \in Callers, PollFindsNothing(c) PROVE OrdersFollowPosts'
  BY <1>26 DEF PollFindsNothing, Goto
<1>27. ASSUME NEW c \in Callers, PollDiffers(c) PROVE OrdersFollowPosts'
  BY <1>27 DEF PollDiffers, Goto
<1>28. ASSUME NEW c \in Callers, EmergencyClose(c) PROVE OrdersFollowPosts'
  <2>1. UNCHANGED <<sub, wire, reply, owner, target>> /\ pc[c] = "closing"
                        /\ pc' = [pc EXCEPT ![c] = "store"]
    BY <1>28 DEF EmergencyClose, Goto
  <2> QED
    BY <2>1
<1>29. ASSUME NEW c \in Callers, EmergencyCloseFails(c) PROVE OrdersFollowPosts'
  <2>1. UNCHANGED <<sub, wire, reply, owner, target>> /\ pc[c] = "closing"
                        /\ pc' = [pc EXCEPT ![c] = "store"]
    BY <1>29 DEF EmergencyCloseFails, Goto
  <2> QED
    BY <2>1
<1>30. ASSUME NEW c \in Callers, StoreOutcome(c) PROVE OrdersFollowPosts'
  <2>1. /\ UNCHANGED <<wire, reply, owner, target>> /\ pc[c] = "store"
        /\ pc' = [pc EXCEPT ![c] = "mark"]
        /\ sub' = [sub EXCEPT ![target[c]] = outcome[c]]
    BY <1>30 DEF StoreOutcome, Goto
  <2>2. outcome[c] \in Settled
    OBVIOUS
  <2> QED
    BY <2>1, <2>2
<1>31. ASSUME NEW c \in Callers, StoreClashes(c) PROVE OrdersFollowPosts'
  BY <1>31 DEF StoreClashes, Return, Goto
<1>32. ASSUME NEW c \in Callers, MarkPreview(c) PROVE OrdersFollowPosts'
  BY <1>32 DEF MarkPreview, Goto
<1>33. ASSUME NEW c \in Callers, RecordRun(c) PROVE OrdersFollowPosts'
  BY <1>33 DEF RecordRun, Goto
<1>34. ASSUME NEW c \in Callers, LinkRun(c) PROVE OrdersFollowPosts'
  BY <1>34 DEF LinkRun, Return, Goto
<1>35. ASSUME NEW c \in Callers, LateVerifies(c) PROVE OrdersFollowPosts'
  BY <1>35 DEF LateVerifies, Goto
<1>36. ASSUME NEW c \in Callers, LateRun(c) PROVE OrdersFollowPosts'
  BY <1>36 DEF LateRun, Return, Goto
<1>37. ASSUME NEW c \in Callers, LateEnds(c) PROVE OrdersFollowPosts'
  BY <1>37 DEF LateEnds, Return, Goto
<1>38. ASSUME NEW c \in Callers, Die(c) PROVE OrdersFollowPosts'
  BY <1>38 DEF Die, Hear, Return, Goto
<1>39. CASE UNCHANGED vars
  BY <1>39
<1> QED
  BY <1>1, <1>2, <1>3, <1>4, <1>5, <1>6, <1>7, <1>8, <1>9, <1>10, <1>11,
     <1>12, <1>13, <1>14, <1>15, <1>16, <1>17, <1>18, <1>19, <1>20, <1>21,
     <1>22, <1>23, <1>24, <1>25, <1>26, <1>27, <1>28, <1>29, <1>30, <1>31,
     <1>32, <1>33, <1>34, <1>35, <1>36, <1>37, <1>38, <1>39
  DEF Next, Owner, Clock, Broker, CallStep, NewCall

LEMMA AgreeStep ==
  IInv /\ [Next]_vars => RowsAgree'
<1> SUFFICES ASSUME IInv, [Next]_vars PROVE RowsAgree'
  OBVIOUS
<1> USE NoneIsFresh DEF IInv, TypeInv, TypeOK, Targets, RowsFollowCalls,
            RowsAgree, Claiming, Unposted, Recording, Late
<1>1. CASE SetKillSwitch \/ SetDemoEnabled
  BY <1>1 DEF SetKillSwitch, SetDemoEnabled
<1>2. ASSUME NEW p \in Previews, ExpirePreview(p)
      PROVE  RowsAgree'
  BY <1>2 DEF ExpirePreview
<1>3. ASSUME NEW p \in Previews, ExpireSnapshot(p)
      PROVE  RowsAgree'
  BY <1>3 DEF ExpireSnapshot
<1>4. ASSUME NEW p \in Previews, BrokerDeclines(p)
      PROVE  RowsAgree'
  BY <1>4 DEF BrokerDeclines, Deliver
<1>5. ASSUME NEW p \in Previews, NEW o \in OrderIds, BrokerAccepts(p, o)
      PROVE  RowsAgree'
  BY <1>5 DEF BrokerAccepts, Deliver
<1>6. ASSUME NEW o \in OrderIds, Fill(o) \/ Finish(o)
      PROVE  RowsAgree'
  BY <1>6 DEF Fill, Finish
<1>7. ASSUME NEW c \in Callers, NEW p \in Previews, ReviewCheck(c, p)
      PROVE  RowsAgree'
  BY <1>7 DEF ReviewCheck, Goto
<1>8. ASSUME NEW c \in Callers, NEW p \in Previews, LateBegin(c, p)
      PROVE  RowsAgree'
  BY <1>8 DEF LateBegin, Goto
<1>9. ASSUME NEW c \in Callers, NEW p \in Previews, NEW k \in Keys, Begin(c, p, k)
      PROVE  RowsAgree'
  BY <1>9 DEF Begin, Goto
<1>10. ASSUME NEW c \in Callers, ReviewInsert(c) PROVE RowsAgree'
  BY <1>10 DEF ReviewInsert, Return, Goto
<1>11. ASSUME NEW c \in Callers, ReviewFails(c) PROVE RowsAgree'
  BY <1>11 DEF ReviewFails, Return, Goto
<1>12. ASSUME NEW c \in Callers, ClaimWins(c) PROVE RowsAgree'
  BY <1>12 DEF ClaimWins, ClaimFree, Goto
<1>13. ASSUME NEW c \in Callers, ClaimLoses(c) PROVE RowsAgree'
  BY <1>13 DEF ClaimLoses, Return, Goto
<1>14. ASSUME NEW c \in Callers, CheckAccount(c) PROVE RowsAgree'
  BY <1>14 DEF CheckAccount, Goto
<1>15. ASSUME NEW c \in Callers, CheckEntries(c) PROVE RowsAgree'
  BY <1>15 DEF CheckEntries, Goto
<1>16. ASSUME NEW c \in Callers, ReadPositions(c) PROVE RowsAgree'
  BY <1>16 DEF ReadPositions, Open, Goto
<1>17. ASSUME NEW c \in Callers, FinalCheck(c) PROVE RowsAgree'
  BY <1>17 DEF FinalCheck, Goto
<1>18. ASSUME NEW c \in Callers, CheckFails(c) PROVE RowsAgree'
  BY <1>18 DEF CheckFails, Reject, Return, Goto
<1>19. ASSUME NEW c \in Callers, Post(c) PROVE RowsAgree'
  BY <1>19 DEF Post, Goto
<1>20. ASSUME NEW c \in Callers, Unauthorized(c) PROVE RowsAgree'
  BY <1>20 DEF Unauthorized, Hear, Goto
<1>21. ASSUME NEW c \in Callers, LoggedIn(c) PROVE RowsAgree'
  BY <1>21 DEF LoggedIn, Goto
<1>22. ASSUME NEW c \in Callers, Refused(c) PROVE RowsAgree'
  BY <1>22 DEF Refused, Reject, Hear, Return, Goto
<1>23. ASSUME NEW c \in Callers, Answered(c) PROVE RowsAgree'
  BY <1>23 DEF Answered, Hear, Goto
<1>24. ASSUME NEW c \in Callers, Ambiguous(c) PROVE RowsAgree'
  BY <1>24 DEF Ambiguous, Hear, Goto
<1>25. ASSUME NEW c \in Callers, PollVerifies(c) PROVE RowsAgree'
  BY <1>25 DEF PollVerifies, Goto
<1>26. ASSUME NEW c \in Callers, PollFindsNothing(c) PROVE RowsAgree'
  BY <1>26 DEF PollFindsNothing, Goto
<1>27. ASSUME NEW c \in Callers, PollDiffers(c) PROVE RowsAgree'
  BY <1>27 DEF PollDiffers, Goto
<1>28. ASSUME NEW c \in Callers, EmergencyClose(c) PROVE RowsAgree'
  BY <1>28 DEF EmergencyClose, ClosePosition, Goto
<1>29. ASSUME NEW c \in Callers, EmergencyCloseFails(c) PROVE RowsAgree'
  BY <1>29 DEF EmergencyCloseFails, ClosePosition, Goto
<1>30. ASSUME NEW c \in Callers, StoreOutcome(c) PROVE RowsAgree'
  BY <1>30 DEF StoreOutcome, Goto
<1>31. ASSUME NEW c \in Callers, StoreClashes(c) PROVE RowsAgree'
  BY <1>31 DEF StoreClashes, Return, Goto
<1>32. ASSUME NEW c \in Callers, MarkPreview(c) PROVE RowsAgree'
  BY <1>32 DEF MarkPreview, Goto
<1>33. ASSUME NEW c \in Callers, RecordRun(c) PROVE RowsAgree'
  BY <1>33 DEF RecordRun, Goto
<1>34. ASSUME NEW c \in Callers, LinkRun(c) PROVE RowsAgree'
  BY <1>34 DEF LinkRun, Return, Goto
<1>35. ASSUME NEW c \in Callers, LateVerifies(c) PROVE RowsAgree'
  BY <1>35 DEF LateVerifies, Goto
<1>36. ASSUME NEW c \in Callers, LateRun(c) PROVE RowsAgree'
  BY <1>36 DEF LateRun, Return, Goto
<1>37. ASSUME NEW c \in Callers, LateEnds(c) PROVE RowsAgree'
  BY <1>37 DEF LateEnds, Return, Goto
<1>38. ASSUME NEW c \in Callers, Die(c) PROVE RowsAgree'
  BY <1>38 DEF Die, Hear, Return, Goto
<1>39. CASE UNCHANGED vars
  BY <1>39
<1> QED
  BY <1>1, <1>2, <1>3, <1>4, <1>5, <1>6, <1>7, <1>8, <1>9, <1>10, <1>11,
     <1>12, <1>13, <1>14, <1>15, <1>16, <1>17, <1>18, <1>19, <1>20, <1>21,
     <1>22, <1>23, <1>24, <1>25, <1>26, <1>27, <1>28, <1>29, <1>30, <1>31,
     <1>32, <1>33, <1>34, <1>35, <1>36, <1>37, <1>38, <1>39
  DEF Next, Owner, Clock, Broker, CallStep, NewCall

LEMMA IInvStep == IInv /\ [Next]_vars => IInv'
BY TypeStep, HolderStep, RowsStep, OrdersStep, AgreeStep DEF IInv

\* The inductive invariant holds in every reachable state.
THEOREM Invariant == Spec => []IInv
BY IInvInit, IInvStep, PTL DEF Spec

-----------------------------------------------------------------------------
\* The safety invariants.

\* Whatever the calls do, a preview never has two orders at the broker: the
\* claim lets one call pass, and a call sends again only what was refused.
THEOREM OneOrder == Spec => []AtMostOneOrder
<1>1. IInv => AtMostOneOrder
  <2> SUFFICES ASSUME IInv, NEW p \in Previews
               PROVE  Cardinality(OrdersOf(p)) <= 1
    BY DEF AtMostOneOrder
  <2>1. \A o, q \in OrdersOf(p) : o = q
    BY DEF IInv, OrdersFollowPosts, OrdersOf
  <2>2. CASE OrdersOf(p) = {}
    BY <2>2, FS_EmptySet
  <2>3. CASE OrdersOf(p) # {}
    <3>1. PICK o \in OrdersOf(p) : OrdersOf(p) = {o}
      BY <2>1, <2>3
    <3>2. Cardinality({o}) = 1
      BY FS_Singleton
    <3> QED
      BY <3>1, <3>2
  <2> QED
    BY <2>2, <2>3
<1> QED
  BY <1>1, Invariant, PTL

\* A submission answered "rejected" has no order and no request under way.
THEOREM RejectionIsTrue == Spec => []RejectedIsTrue
<1>1. IInv => RejectedIsTrue
  BY DEF IInv, OrdersFollowPosts, RejectedIsTrue, NoOrderYet, OrdersOf
<1> QED
  BY <1>1, Invariant, PTL

\* The execution record of a preview agrees with its submission.
THEOREM RunsAgree == Spec => []RunAgrees
<1>1. IInv => RunAgrees
  BY DEF IInv, RowsAgree, RunAgrees
<1> QED
  BY <1>1, Invariant, PTL

-----------------------------------------------------------------------------
\* The five things a step can do to the answers and to the broker's books.

Claims(p)   == /\ sub[p] = "none"
               /\ sub' = [sub EXCEPT ![p] = "claimed"]
               /\ UNCHANGED owner
Settles(p)  == /\ sub[p] = "claimed"
               /\ \E s \in Settled \cup {"rejected"} :
                    /\ s = "rejected" => NoOrderYet(p)
                    /\ sub' = [sub EXCEPT ![p] = s]
               /\ UNCHANGED owner
Resolves(p) == /\ sub[p] = "unknown"
               /\ sub' = [sub EXCEPT ![p] = "verified"]
               /\ UNCHANGED owner
Books(p)    == /\ sub[p] \notin {"none", "rejected"}
               /\ \A o \in OrderIds : owner[o] # p
               /\ \E o \in OrderIds : /\ owner[o] = None
                                      /\ owner' = [owner EXCEPT ![o] = p]
               /\ UNCHANGED sub

AnswerStep == \/ UNCHANGED <<sub, owner>>
              \/ \E p \in Previews : Claims(p) \/ Settles(p) \/ Resolves(p) \/ Books(p)

\* The actions that touch the answers or the ownership of orders.
LEMMA AnswerActions ==
  [Next]_vars =>
    \/ UNCHANGED <<sub, owner>>
    \/ \E c \in Callers : \/ ClaimWins(c) \/ CheckFails(c) \/ Refused(c)
                          \/ StoreOutcome(c) \/ LateVerifies(c)
    \/ \E p \in Previews, o \in OrderIds : BrokerAccepts(p, o)
BY DEF Next, Owner, SetKillSwitch, SetDemoEnabled, Clock, ExpirePreview,
   ExpireSnapshot, Broker, BrokerDeclines, Fill, Finish, CallStep, NewCall, Die,
   ReviewCheck, LateBegin, Begin, ReviewInsert, ReviewFails, ClaimLoses,
   CheckAccount, CheckEntries, ReadPositions, FinalCheck, Post, Unauthorized,
   LoggedIn, Answered, Ambiguous, PollVerifies, PollFindsNothing, PollDiffers,
   EmergencyClose, EmergencyCloseFails, StoreClashes, MarkPreview, RecordRun,
   LinkRun, LateRun, LateEnds

LEMMA AnswerSteps == IInv /\ [Next]_vars => AnswerStep
<1> SUFFICES ASSUME IInv, [Next]_vars PROVE AnswerStep
  OBVIOUS
<1> USE DEF IInv, TypeInv, TypeOK, Targets
<1>1. ASSUME NEW c \in Callers, ClaimWins(c) PROVE AnswerStep
  <2>1. target[c] \in Previews
    BY <1>1 DEF ClaimWins
  <2> QED
    BY <2>1, <1>1 DEF ClaimWins, ClaimFree, AnswerStep, Claims
<1>2. ASSUME NEW c \in Callers, CheckFails(c) PROVE AnswerStep
  <2>1. /\ target[c] \in Previews /\ sub[target[c]] = "claimed"
        /\ NoOrderYet(target[c])
    BY <1>2 DEF RowsFollowCalls, OrdersFollowPosts, Claiming, Unposted, CheckFails
  <2>2. sub' = [sub EXCEPT ![target[c]] = "rejected"] /\ UNCHANGED owner
    BY <1>2 DEF CheckFails, Reject
  <2> QED
    BY <2>1, <2>2 DEF AnswerStep, Settles
<1>3. ASSUME NEW c \in Callers, Refused(c) PROVE AnswerStep
  <2>1. /\ target[c] \in Previews /\ sub[target[c]] = "claimed"
        /\ NoOrderYet(target[c])
    BY <1>3 DEF RowsFollowCalls, OrdersFollowPosts, Claiming, Unposted, Refused
  <2>2. sub' = [sub EXCEPT ![target[c]] = "rejected"] /\ UNCHANGED owner
    BY <1>3 DEF Refused, Reject
  <2> QED
    BY <2>1, <2>2 DEF AnswerStep, Settles
<1>4. ASSUME NEW c \in Callers, StoreOutcome(c) PROVE AnswerStep
  <2>1. target[c] \in Previews /\ sub[target[c]] = "claimed"
    BY <1>4 DEF RowsFollowCalls, Claiming, StoreOutcome
  <2>2. /\ outcome[c] \in Settled /\ UNCHANGED owner
        /\ sub' = [sub EXCEPT ![target[c]] = outcome[c]]
    BY <1>4 DEF StoreOutcome
  <2> QED
    BY <2>1, <2>2 DEF AnswerStep, Settles
<1>5. ASSUME NEW c \in Callers, LateVerifies(c) PROVE AnswerStep
  <2>1. target[c] \in Previews /\ sub[target[c]] \in {"unknown", "verified"}
    BY <1>5 DEF RowsFollowCalls, Late, LateVerifies
  <2>2. sub' = [sub EXCEPT ![target[c]] = "verified"] /\ UNCHANGED owner
    BY <1>5 DEF LateVerifies
  <2>3. CASE sub[target[c]] = "unknown"
    BY <2>1, <2>2, <2>3 DEF AnswerStep, Resolves
  <2>4. CASE sub[target[c]] = "verified"
    <3>1. sub' = sub
      BY <2>2, <2>4
    <3> QED
      BY <2>2, <3>1 DEF AnswerStep
  <2> QED
    BY <2>1, <2>3, <2>4
<1>6. ASSUME NEW p \in Previews, NEW o \in OrderIds, BrokerAccepts(p, o)
      PROVE  AnswerStep
  <2>1. sub[p] \notin {"none", "rejected"} /\ \A q \in OrderIds : owner[q] # p
    BY <1>6 DEF OrdersFollowPosts, NoOrderYet, BrokerAccepts
  <2>2. owner[o] = None /\ owner' = [owner EXCEPT ![o] = p] /\ UNCHANGED sub
    BY <1>6 DEF BrokerAccepts
  <2> QED
    BY <2>1, <2>2 DEF AnswerStep, Books
<1>7. CASE UNCHANGED <<sub, owner>>
  BY <1>7 DEF AnswerStep
<1> QED
  BY <1>1, <1>2, <1>3, <1>4, <1>5, <1>6, <1>7, AnswerActions

\* Only "unknown" is ever replaced, and only by "verified".
THEOREM AnswersAreFinal == Spec => AnswerIsFinal
<1>1. IInv /\ [Next]_vars =>
        \A p \in Previews :
          /\ sub[p] \in {"rejected", "verified", "protection_failure"} => sub'[p] = sub[p]
          /\ sub[p] = "unknown" => sub'[p] \in {"unknown", "verified"}
  <2> SUFFICES ASSUME IInv, [Next]_vars, NEW p \in Previews
               PROVE  /\ sub[p] \in {"rejected", "verified", "protection_failure"}
                            => sub'[p] = sub[p]
                      /\ sub[p] = "unknown" => sub'[p] \in {"unknown", "verified"}
    OBVIOUS
  <2>1. sub \in [Previews -> SubStates]
    BY DEF IInv, TypeInv, TypeOK
  <2>2. CASE UNCHANGED <<sub, owner>>
    BY <2>2
  <2>3. ASSUME NEW q \in Previews, Claims(q) \/ Settles(q) \/ Resolves(q) \/ Books(q)
        PROVE  /\ sub[p] \in {"rejected", "verified", "protection_failure"}
                     => sub'[p] = sub[p]
               /\ sub[p] = "unknown" => sub'[p] \in {"unknown", "verified"}
    BY <2>1, <2>3 DEF Claims, Settles, Resolves, Books
  <2> QED
    BY <2>2, <2>3, AnswerSteps DEF AnswerStep
<1> QED
  BY <1>1, Invariant, PTL DEF Spec, AnswerIsFinal

-----------------------------------------------------------------------------
\* The refinement: what the trader sees is the abstract command.

Placed == {p \in Previews : OrdersOf(p) # {}}

LEMMA CommandInit == Init => Command!CmdInit
BY NoneIsFresh DEF Init, Command!CmdInit, OrdersOf

LEMMA CommandStep == IInv /\ [Next]_vars => [Command!CmdNext]_(Command!cmdVars)
<1> SUFFICES ASSUME IInv, [Next]_vars
             PROVE  [Command!CmdNext]_(Command!cmdVars)
  OBVIOUS
<1>1. owner \in [OrderIds -> Previews \cup {None}]
  BY DEF IInv, TypeInv, TypeOK
<1>2. UNCHANGED owner => UNCHANGED Placed
  BY DEF Placed, OrdersOf
<1>3. CASE UNCHANGED <<sub, owner>>
  BY <1>2, <1>3 DEF Command!cmdVars, Placed
<1>4. ASSUME NEW p \in Previews, Claims(p) PROVE Command!CmdNext
  BY <1>2, <1>4 DEF Claims, Placed, Command!CmdNext, Command!ClaimOnce
<1>5. ASSUME NEW p \in Previews, Settles(p) PROVE Command!CmdNext
  <2>1. PICK s \in Settled \cup {"rejected"} :
          /\ s = "rejected" => NoOrderYet(p)
          /\ sub' = [sub EXCEPT ![p] = s]
    BY <1>5 DEF Settles
  <2>2. s \in Command!Settled
    BY DEF Command!Settled
  <2>3. s = "rejected" => p \notin Placed
    BY <2>1 DEF NoOrderYet, Placed, OrdersOf
  <2>4. UNCHANGED Placed
    BY <1>2, <1>5 DEF Settles
  <2>5. Command!Settle(p)
    BY <1>5, <2>1, <2>2, <2>3, <2>4 DEF Settles, Placed, Command!Settle
  <2> QED
    BY <2>5 DEF Command!CmdNext
<1>6. ASSUME NEW p \in Previews, Resolves(p) PROVE Command!CmdNext
  BY <1>2, <1>6 DEF Resolves, Placed, Command!CmdNext, Command!Resolve
<1>7. ASSUME NEW p \in Previews, Books(p) PROVE Command!CmdNext
  <2>1. PICK o \in OrderIds : owner[o] = None /\ owner' = [owner EXCEPT ![o] = p]
    BY <1>7 DEF Books
  <2>2. p \notin Placed
    BY <1>7 DEF Books, Placed, OrdersOf
  <2>3. Placed' = Placed \cup {p}
    BY <1>1, <2>1, NoneIsFresh DEF Placed, OrdersOf
  <2>4. Command!PlaceOnce(p)
    BY <1>7, <2>2, <2>3 DEF Books, Placed, Command!PlaceOnce
  <2> QED
    BY <2>4 DEF Command!CmdNext
<1> QED
  BY <1>3, <1>4, <1>5, <1>6, <1>7, AnswerSteps DEF AnswerStep

\* The code implements the abstract command.
THEOREM Refinement == Spec => ImplementsCommand
BY CommandInit, CommandStep, Invariant, PTL
   DEF Spec, ImplementsCommand, Command!CmdSpec

-----------------------------------------------------------------------------
\* What a matched row shows.  A call knows only the order number it was given;
\* an order it closes is its own, and what it verifies exists.

BackedAt(p) == \E o \in Booked : SetupOf[owner[o]] = SetupOf[p] /\ protected[o]

Answering == Recording \cup {"store"}

OnlyOrdersAreBooked == \A o \in OrderIds : owner[o] = None => book[o] = "free"

MatchInv ==
  \A c \in Callers :
    /\ pc[c] \notin Late \cup {"polling", "closing", "store"} => response[c] = None
    /\ pc[c] = "polling" /\ response[c] # None => owner[response[c]] = target[c]
    /\ pc[c] = "closing" => /\ position[c] \in OrderIds
                            /\ owner[position[c]] = target[c]
    /\ pc[c] \notin Answering => outcome[c] = "unknown"
    /\ pc[c] = "store" /\ outcome[c] = "verified" => BackedAt(target[c])

MInv == IInv /\ OnlyOrdersAreBooked /\ MatchInv /\ VerifiedIsBacked

LEMMA MInvInit == Init => MInv
BY IInvInit DEF Init, MInv, OnlyOrdersAreBooked, MatchInv, VerifiedIsBacked, Late, Answering, Recording

LEMMA BookingStays ==
  IInv /\ [Next]_vars =>
    \A o \in OrderIds : owner[o] # None => owner'[o] = owner[o] /\ protected'[o] = protected[o]
<1> DEFINE Same == \A o \in OrderIds :
             owner[o] # None => owner'[o] = owner[o] /\ protected'[o] = protected[o]
<1> SUFFICES ASSUME IInv, [Next]_vars PROVE Same
  OBVIOUS
<1>1. CASE UNCHANGED <<owner, protected>>
  BY <1>1
<1>2. ASSUME NEW p \in Previews, NEW o \in OrderIds, BrokerAccepts(p, o) PROVE Same
  BY <1>2 DEF BrokerAccepts, IInv, TypeInv, TypeOK
<1>3. \/ UNCHANGED <<owner, protected>>
      \/ \E p \in Previews, o \in OrderIds : BrokerAccepts(p, o)
  BY DEF Next, Owner, SetKillSwitch, SetDemoEnabled, Clock, ExpirePreview,
     ExpireSnapshot, Broker, BrokerDeclines, Fill, Finish, CallStep, NewCall, Die,
     ReviewCheck, LateBegin, Begin, ReviewInsert, ReviewFails, ClaimWins, ClaimLoses,
     CheckAccount, CheckEntries, ReadPositions, FinalCheck, CheckFails, Reject, Post,
     Unauthorized, LoggedIn, Refused, Answered, Ambiguous, PollVerifies,
     PollFindsNothing, PollDiffers, EmergencyClose, EmergencyCloseFails,
     StoreOutcome, StoreClashes, MarkPreview, RecordRun, LinkRun, LateVerifies,
     LateRun, LateEnds
<1> QED
  BY <1>1, <1>2, <1>3

LEMMA BackingStays ==
  ASSUME IInv, [Next]_vars, NEW p, BackedAt(p)
  PROVE  BackedAt(p)'
<1>1. PICK o \in Booked : SetupOf[owner[o]] = SetupOf[p] /\ protected[o]
  BY DEF BackedAt
<1>2. o \in OrderIds /\ owner[o] # None
  BY DEF Booked
<1>3. owner'[o] = owner[o] /\ protected'[o] = protected[o]
  BY <1>2, BookingStays
<1> QED
  BY <1>1, <1>2, <1>3 DEF BackedAt, Booked

LEMMA BookedStep == MInv /\ [Next]_vars => OnlyOrdersAreBooked'
<1> SUFFICES ASSUME MInv, [Next]_vars PROVE OnlyOrdersAreBooked'
  OBVIOUS
<1> USE NoneIsFresh DEF MInv, IInv, TypeInv, TypeOK, Targets, OnlyOrdersAreBooked
<1>1. ASSUME NEW p \in Previews, NEW o \in OrderIds, BrokerAccepts(p, o)
      PROVE  OnlyOrdersAreBooked'
  BY <1>1 DEF BrokerAccepts
<1>2. ASSUME NEW o \in OrderIds, Fill(o) \/ Finish(o)
      PROVE  OnlyOrdersAreBooked'
  BY <1>2 DEF Fill, Finish
<1>3. ASSUME NEW c \in Callers, EmergencyClose(c) PROVE OnlyOrdersAreBooked'
  <2>1. /\ UNCHANGED owner /\ pc[c] = "closing"
        /\ book' = book \/ book' = [book EXCEPT ![position[c]] =
                                      IF @ = "position" THEN "closed" ELSE @]
    BY <1>3 DEF EmergencyClose, ClosePosition
  <2> QED
    BY <2>1
<1>4. ASSUME NEW c \in Callers, EmergencyCloseFails(c) PROVE OnlyOrdersAreBooked'
  <2>1. /\ UNCHANGED owner /\ pc[c] = "closing"
        /\ book' = book \/ book' = [book EXCEPT ![position[c]] =
                                      IF @ = "position" THEN "closed" ELSE @]
    BY <1>4 DEF EmergencyCloseFails, ClosePosition
  <2> QED
    BY <2>1
<1>5. CASE UNCHANGED <<owner, book>>
  BY <1>5
<1>6. \/ UNCHANGED <<owner, book>>
      \/ \E p \in Previews, o \in OrderIds : BrokerAccepts(p, o)
      \/ \E o \in OrderIds : Fill(o) \/ Finish(o)
      \/ \E c \in Callers : EmergencyClose(c) \/ EmergencyCloseFails(c)
  BY DEF Next, Owner, SetKillSwitch, SetDemoEnabled, Clock, ExpirePreview,
     ExpireSnapshot, Broker, BrokerDeclines, CallStep, NewCall, Die,
     ReviewCheck, LateBegin, Begin, ReviewInsert, ReviewFails, ClaimWins, ClaimLoses,
     CheckAccount, CheckEntries, ReadPositions, FinalCheck, CheckFails, Reject, Post,
     Unauthorized, LoggedIn, Refused, Answered, Ambiguous, PollVerifies,
     PollFindsNothing, PollDiffers, StoreOutcome, StoreClashes, MarkPreview,
     RecordRun, LinkRun, LateVerifies, LateRun, LateEnds
<1> QED
  BY <1>1, <1>2, <1>3, <1>4, <1>5, <1>6

LEMMA VerifyBacks ==
  ASSUME MInv, NEW p \in Previews, NEW answer, NEW rows \in SUBSET Booked,
         NEW open \in SUBSET Open, NEW o \in Matches(p, answer, rows, open),
         Verifies(p, o)
  PROVE  BackedAt(p)
BY MatchesAreRows DEF MInv, OnlyOrdersAreBooked, Booked, Open, Verifies, BackedAt

LEMMA UnprotectedIsOwn ==
  ASSUME NEW p \in Previews, NEW answer, NEW rows, NEW open,
         NEW o \in Matches(p, answer, rows, open), ~protected[o]
  PROVE  o = answer \/ owner[o] = p
BY DEF Matches, CompositeMatch

LEMMA MatchStep == MInv /\ [Next]_vars => MatchInv'
<1> SUFFICES ASSUME MInv, [Next]_vars PROVE MatchInv'
  OBVIOUS
<1>b. /\ \A o \in OrderIds : owner[o] # None => owner'[o] = owner[o]
      /\ \A p \in Previews : BackedAt(p) => BackedAt(p)'
  BY BookingStays, BackingStays DEF MInv
<1> USE NoneIsFresh, <1>b DEF MInv, IInv, TypeInv, TypeOK, Targets, MatchInv, Late,
        Answering, Recording
<1>1. CASE SetKillSwitch \/ SetDemoEnabled
  BY <1>1 DEF SetKillSwitch, SetDemoEnabled
<1>2. ASSUME NEW p \in Previews, ExpirePreview(p)
      PROVE  MatchInv'
  BY <1>2 DEF ExpirePreview
<1>3. ASSUME NEW p \in Previews, ExpireSnapshot(p)
      PROVE  MatchInv'
  BY <1>3 DEF ExpireSnapshot
<1>4. ASSUME NEW p \in Previews, BrokerDeclines(p)
      PROVE  MatchInv'
  BY <1>4 DEF BrokerDeclines, Deliver
<1>5. ASSUME NEW p \in Previews, NEW o \in OrderIds, BrokerAccepts(p, o)
      PROVE  MatchInv'
  BY <1>5 DEF BrokerAccepts, Deliver
<1>6. ASSUME NEW o \in OrderIds, Fill(o) \/ Finish(o)
      PROVE  MatchInv'
  BY <1>6 DEF Fill, Finish
<1>7. ASSUME NEW c \in Callers, NEW p \in Previews, ReviewCheck(c, p)
      PROVE  MatchInv'
  BY <1>7 DEF ReviewCheck, Goto
<1>8. ASSUME NEW c \in Callers, NEW p \in Previews, LateBegin(c, p)
      PROVE  MatchInv'
  BY <1>8 DEF LateBegin, Goto
<1>9. ASSUME NEW c \in Callers, NEW p \in Previews, NEW k \in Keys, Begin(c, p, k)
      PROVE  MatchInv'
  BY <1>9 DEF Begin, Goto
<1>10. ASSUME NEW c \in Callers, ReviewInsert(c) PROVE MatchInv'
  BY <1>10 DEF ReviewInsert, Return, Goto
<1>11. ASSUME NEW c \in Callers, ReviewFails(c) PROVE MatchInv'
  BY <1>11 DEF ReviewFails, Return, Goto
<1>12. ASSUME NEW c \in Callers, ClaimWins(c) PROVE MatchInv'
  BY <1>12 DEF ClaimWins, Goto
<1>13. ASSUME NEW c \in Callers, ClaimLoses(c) PROVE MatchInv'
  BY <1>13 DEF ClaimLoses, Return, Goto
<1>14. ASSUME NEW c \in Callers, CheckAccount(c) PROVE MatchInv'
  BY <1>14 DEF CheckAccount, Goto
<1>15. ASSUME NEW c \in Callers, CheckEntries(c) PROVE MatchInv'
  BY <1>15 DEF CheckEntries, Goto
<1>16. ASSUME NEW c \in Callers, ReadPositions(c) PROVE MatchInv'
  BY <1>16 DEF ReadPositions, Open, Goto
<1>17. ASSUME NEW c \in Callers, FinalCheck(c) PROVE MatchInv'
  BY <1>17 DEF FinalCheck, Goto
<1>18. ASSUME NEW c \in Callers, CheckFails(c) PROVE MatchInv'
  BY <1>18 DEF CheckFails, Reject, Return, Goto
<1>19. ASSUME NEW c \in Callers, Post(c) PROVE MatchInv'
  BY <1>19 DEF Post, Goto
<1>20. ASSUME NEW c \in Callers, Unauthorized(c) PROVE MatchInv'
  BY <1>20 DEF Unauthorized, Hear, Goto
<1>21. ASSUME NEW c \in Callers, LoggedIn(c) PROVE MatchInv'
  BY <1>21 DEF LoggedIn, Goto
<1>22. ASSUME NEW c \in Callers, Refused(c) PROVE MatchInv'
  BY <1>22 DEF Refused, Reject, Hear, Return, Goto
<1>23. ASSUME NEW c \in Callers, Answered(c) PROVE MatchInv'
  BY <1>23 DEF Answered, Hear, Goto
<1>24. ASSUME NEW c \in Callers, Ambiguous(c) PROVE MatchInv'
  BY <1>24 DEF Ambiguous, Hear, Goto
<1>25. ASSUME NEW c \in Callers, PollVerifies(c) PROVE MatchInv'
  <2>1. BackedAt(target[c])
    BY <1>25, VerifyBacks DEF PollVerifies
  <2>2. /\ pc[c] = "polling" /\ pc' = [pc EXCEPT ![c] = "store"]
        /\ outcome' = [outcome EXCEPT ![c] = "verified"]
        /\ UNCHANGED <<target, response, position, owner>>
    BY <1>25 DEF PollVerifies, Goto
  <2> QED
    BY <2>1, <2>2
<1>26. ASSUME NEW c \in Callers, PollFindsNothing(c) PROVE MatchInv'
  BY <1>26 DEF PollFindsNothing, Goto
<1>27. ASSUME NEW c \in Callers, PollDiffers(c) PROVE MatchInv'
  <2>1. PICK rows \in SUBSET Booked, open \in SUBSET Open :
          \E o \in Matches(target[c], response[c], rows, open) :
            IF o \in open /\ ~protected[o]
            THEN Goto(c, "closing") /\ position' = [position EXCEPT ![c] = o]
            ELSE Goto(c, "store") /\ UNCHANGED position
    BY <1>27 DEF PollDiffers
  <2>2. PICK o \in Matches(target[c], response[c], rows, open) :
            IF o \in open /\ ~protected[o]
            THEN Goto(c, "closing") /\ position' = [position EXCEPT ![c] = o]
            ELSE Goto(c, "store") /\ UNCHANGED position
    BY <2>1
  <2>3. /\ pc[c] = "polling" /\ target[c] \in Previews
        /\ UNCHANGED <<target, response, outcome, owner>>
    BY <1>27 DEF PollDiffers
  <2>4. CASE o \in open /\ ~protected[o]
    <3>1. o \in OrderIds /\ owner[o] = target[c]
      BY <2>3, <2>4, UnprotectedIsOwn DEF Open
    <3>2. pc' = [pc EXCEPT ![c] = "closing"] /\ position' = [position EXCEPT ![c] = o]
      BY <2>2, <2>4 DEF Goto
    <3> QED
      BY <2>3, <3>1, <3>2
  <2>5. CASE ~(o \in open /\ ~protected[o])
    <3>1. pc' = [pc EXCEPT ![c] = "store"] /\ UNCHANGED position
      BY <2>2, <2>5 DEF Goto
    <3> QED
      BY <2>3, <3>1
  <2> QED
    BY <2>4, <2>5
<1>28. ASSUME NEW c \in Callers, EmergencyClose(c) PROVE MatchInv'
  BY <1>28 DEF EmergencyClose, ClosePosition, Goto
<1>29. ASSUME NEW c \in Callers, EmergencyCloseFails(c) PROVE MatchInv'
  BY <1>29 DEF EmergencyCloseFails, ClosePosition, Goto
<1>30. ASSUME NEW c \in Callers, StoreOutcome(c) PROVE MatchInv'
  BY <1>30 DEF StoreOutcome, Goto
<1>31. ASSUME NEW c \in Callers, StoreClashes(c) PROVE MatchInv'
  BY <1>31 DEF StoreClashes, Return, Goto
<1>32. ASSUME NEW c \in Callers, MarkPreview(c) PROVE MatchInv'
  BY <1>32 DEF MarkPreview, Goto
<1>33. ASSUME NEW c \in Callers, RecordRun(c) PROVE MatchInv'
  BY <1>33 DEF RecordRun, Goto
<1>34. ASSUME NEW c \in Callers, LinkRun(c) PROVE MatchInv'
  BY <1>34 DEF LinkRun, Return, Goto
<1>35. ASSUME NEW c \in Callers, LateVerifies(c) PROVE MatchInv'
  BY <1>35 DEF LateVerifies, Goto
<1>36. ASSUME NEW c \in Callers, LateRun(c) PROVE MatchInv'
  BY <1>36 DEF LateRun, Return, Goto
<1>37. ASSUME NEW c \in Callers, LateEnds(c) PROVE MatchInv'
  BY <1>37 DEF LateEnds, Return, Goto
<1>38. ASSUME NEW c \in Callers, Die(c) PROVE MatchInv'
  BY <1>38 DEF Die, Hear, Return, Goto
<1>39. CASE UNCHANGED vars
  BY <1>39
<1> QED
  BY <1>1, <1>2, <1>3, <1>4, <1>5, <1>6, <1>7, <1>8, <1>9, <1>10, <1>11,
     <1>12, <1>13, <1>14, <1>15, <1>16, <1>17, <1>18, <1>19, <1>20, <1>21,
     <1>22, <1>23, <1>24, <1>25, <1>26, <1>27, <1>28, <1>29, <1>30, <1>31,
     <1>32, <1>33, <1>34, <1>35, <1>36, <1>37, <1>38, <1>39
  DEF Next, Owner, Clock, Broker, CallStep, NewCall

LEMMA VerifiedStep == MInv /\ [Next]_vars => VerifiedIsBacked'
<1> DEFINE Shown == \A p \in Previews : sub'[p] = "verified" => BackedAt(p)
<1> SUFFICES ASSUME MInv, [Next]_vars PROVE Shown
  BY BackingStays DEF MInv, VerifiedIsBacked, BackedAt
<1>b. \A p \in Previews : sub[p] = "verified" => BackedAt(p)
  BY DEF MInv, VerifiedIsBacked, BackedAt
<1> HIDE DEF Shown
<1>a. UNCHANGED sub => Shown
  BY <1>b DEF Shown
<1> USE DEF MInv, IInv, TypeInv, TypeOK, Targets
<1>1. ASSUME NEW c \in Callers, ClaimWins(c) PROVE Shown
  BY <1>1, <1>b DEF ClaimWins, Shown
<1>2. ASSUME NEW c \in Callers, CheckFails(c) PROVE Shown
  BY <1>2, <1>b DEF CheckFails, Reject, Shown
<1>3. ASSUME NEW c \in Callers, Refused(c) PROVE Shown
  BY <1>3, <1>b DEF Refused, Reject, Shown
<1>4. ASSUME NEW c \in Callers, StoreOutcome(c) PROVE Shown
  BY <1>4, <1>b DEF StoreOutcome, MatchInv, Shown
<1>5. ASSUME NEW c \in Callers, LateVerifies(c) PROVE Shown
  <2>1. BackedAt(target[c])
    BY <1>5, VerifyBacks DEF LateVerifies
  <2>2. sub' = [sub EXCEPT ![target[c]] = "verified"]
    BY <1>5 DEF LateVerifies
  <2> QED
    BY <2>1, <2>2, <1>b DEF Shown
<1>6. CASE UNCHANGED sub
  BY <1>6, <1>a
<1>7. (\E p \in Previews, o \in OrderIds : BrokerAccepts(p, o)) => UNCHANGED sub
  BY DEF BrokerAccepts
<1> QED
  BY <1>1, <1>2, <1>3, <1>4, <1>5, <1>6, <1>7, AnswerActions

LEMMA MatchInvariant == Spec => []MInv
<1>1. MInv /\ [Next]_vars => MInv'
  BY IInvStep, BookedStep, MatchStep, VerifiedStep DEF MInv
<1> QED
  BY <1>1, MInvInit, PTL DEF Spec

\* A verified answer rests on an order with these very terms and both stops.
THEOREM VerifiedRestsOnOrder == Spec => []VerifiedIsBacked
<1>1. MInv => VerifiedIsBacked
  BY DEF MInv
<1> QED
  BY <1>1, MatchInvariant, PTL

\* The emergency close only ever closes the position of its own submission.
THEOREM ClosesItsOwn == Spec => EmergencyClosesOwn
<1>1. MInv => \A c \in Callers : pc[c] = "closing" => owner[position[c]] = target[c]
  BY DEF MInv, MatchInv
<1>2. MInv /\ [Next]_vars =>
        \A c \in Callers : pc[c] = "closing" /\ book' # book /\ pc'[c] = "store" =>
          owner[position[c]] = target[c]
  BY <1>1
<1> QED
  BY <1>2, MatchInvariant, PTL DEF Spec, EmergencyClosesOwn
=============================================================================
