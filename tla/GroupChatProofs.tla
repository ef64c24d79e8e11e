-------------------------- MODULE GroupChatProofs --------------------------
(* Proofs about GroupChat, for any bots, messages and deliveries: a message   *)
(* is taken once, and by a bot that it is for.                                *)
EXTENDS GroupChat, TLAPS

USE DEF ShapeOf, MyIdentity, GoTo

\* What the assumptions say of the message of a delivery.
LEMMA ShapeFacts ==
  ASSUME TypeOK, NEW d \in Deliveries
  PROVE  /\ BotOf[d] \in Bots /\ MsgOf[d] \in Messages
         /\ ShapeOf(d) \in Shape
         /\ ShapeOf(d).kind = "welcome" =>
               ShapeOf(d).mentions = {} /\ ShapeOf(d).names = {} /\ ShapeOf(d).parent = None
BY GroupAssumption DEF TypeOK

\* The initial state satisfies the invariant.
LEMMA InitDelivery == Init => DeliveryInv
<1> SUFFICES ASSUME Init PROVE DeliveryInv
  OBVIOUS
<1>1. TypeOK
  BY GroupAssumption DEF Init, TypeOK
<1>2. \A d \in Deliveries : stage[d] = "unsent"
  BY DEF Init
<1>3. TakenOnce /\ TakenIsRecorded /\ AskedOnce /\ TakenIsMine
  BY <1>2 DEF TakenOnce, TakenIsRecorded, AskedOnce, TakenIsMine, Taken, InWorker
<1>4. RepliesAreMine
  BY DEF Init, RepliesAreMine
<1> QED BY <1>1, <1>3, <1>4 DEF DeliveryInv

-----------------------------------------------------------------------------
(* What a step leaves as it is *)

\* The steps of one delivery, and the stages each of them leads from and to.
Step(d) == Receive(d) \/ ReceiverStep(d) \/ WorkerStep(d)

\* A step moves one delivery and no message changes.
LEMMA StepMoves ==
  ASSUME TypeOK, NEW d \in Deliveries, Step(d)
  PROVE  /\ shape' = shape
         /\ stage' = [stage EXCEPT ![d] = stage'[d]]
BY DEF Step, ReceiverStep, WorkerStep, Receive, Identify, IdentityAnswered,
       LookupParent, Dispatch, Take, Probe, Answer, TypeOK

\* Any step keeps the types.
LEMMA StepType == ASSUME TypeOK, NEW d \in Deliveries, Step(d) PROVE TypeOK'
<1> USE DEF TypeOK, InReceiver, InWorker, Settled
<1>0. BotOf[d] \in Bots /\ MsgOf[d] \in Messages /\ (Fault => faults' \in 0..MaxFaults)
  BY GroupAssumption DEF Fault
<1>1. CASE Receive(d)
  BY <1>1 DEF Receive
<1>2. CASE Identify(d)
  BY <1>0, <1>2 DEF Identify, AfterIdentify
<1>3. CASE IdentityAnswered(d)
  BY <1>0, <1>3 DEF IdentityAnswered, AfterIdentify
<1>4. CASE LookupParent(d)
  BY <1>0, <1>4 DEF LookupParent
<1>5. CASE Dispatch(d)
  BY <1>0, <1>5 DEF Dispatch, IdOf, TakenAs
<1>6. CASE Take(d)
  BY <1>6 DEF Take
<1>7. CASE Probe(d)
  BY <1>0, <1>7 DEF Probe
<1>8. CASE Answer(d)
  BY <1>8 DEF Answer
<1> QED
  BY <1>1, <1>2, <1>3, <1>4, <1>5, <1>6, <1>7, <1>8 DEF Step, ReceiverStep, WorkerStep

\* What a bot knows of its id changes only while it is asked for, once.
LEMMA IdentityIsFinal ==
  ASSUME TypeOK, AskedOnce, NEW d \in Deliveries, Step(d), NEW b \in Bots,
         identity[b] \in {"known", "failed"}
  PROVE  identity'[b] = identity[b]
<1>1. CASE Identify(d)
  BY <1>1, ShapeFacts DEF Identify, TypeOK
<1>2. CASE IdentityAnswered(d)
  BY <1>2, ShapeFacts DEF IdentityAnswered, TypeOK, AskedOnce
<1>3. CASE UNCHANGED identity
  BY <1>3
<1> QED
  BY <1>1, <1>2, <1>3
  DEF Step, ReceiverStep, WorkerStep, Receive, LookupParent, Dispatch, Take, Probe, Answer

\* Only Dispatch takes a message, and only from the stage "decide".
LEMMA TakenBy ==
  ASSUME TypeOK, NEW d \in Deliveries, Step(d),
         NEW e \in Deliveries, stage'[e] \in Taken, stage[e] \notin Taken
  PROVE  /\ e = d /\ stage[d] = "decide"
         /\ Dispatch(d) /\ ~Ignored(d) /\ IdOf(d) \notin recent
         /\ recent' = recent \cup {IdOf(d)}
<1> USE DEF Taken, InWorker
<1>1. e = d
  BY StepMoves DEF TypeOK
<1>2. CASE Receive(d)
  BY <1>1, <1>2 DEF Receive, TypeOK
<1>3. CASE Identify(d)
  BY <1>1, <1>3 DEF Identify, AfterIdentify, TypeOK
<1>4. CASE IdentityAnswered(d)
  BY <1>1, <1>4 DEF IdentityAnswered, AfterIdentify, TypeOK
<1>5. CASE LookupParent(d)
  BY <1>1, <1>5 DEF LookupParent, TypeOK
<1>6. CASE Dispatch(d)
  BY <1>1, <1>6 DEF Dispatch, TakenAs, TypeOK
<1>7. CASE WorkerStep(d)
  BY <1>1, <1>7 DEF WorkerStep, Take, Probe, Answer, TypeOK
<1> QED
  BY <1>1, <1>2, <1>3, <1>4, <1>5, <1>6, <1>7 DEF Step, ReceiverStep

-----------------------------------------------------------------------------
(* One delivery at most takes a message *)

\* What is taken is recorded: recent only grows, and Dispatch adds what it takes.
LEMMA StepRecorded ==
  ASSUME TypeOK, TakenIsRecorded, NEW d \in Deliveries, Step(d)
  PROVE  TakenIsRecorded'
<1> SUFFICES ASSUME NEW e \in Deliveries, stage'[e] \in Taken PROVE IdOf(e)' \in recent'
  BY DEF TakenIsRecorded
<1>1. IdOf(e)' = IdOf(e)
  BY StepMoves DEF IdOf
<1>2. recent \subseteq recent'
  BY DEF Step, ReceiverStep, WorkerStep, Receive, Identify, IdentityAnswered,
         LookupParent, Dispatch, Take, Probe, Answer
<1>3. CASE stage[e] \in Taken
  BY <1>1, <1>2, <1>3 DEF TakenIsRecorded
<1>4. CASE stage[e] \notin Taken
  BY <1>1, <1>4, TakenBy
<1> QED BY <1>3, <1>4

\* The message that a step takes was not taken before: its id would be recorded.
LEMMA StepOnce ==
  ASSUME TypeOK, TakenIsRecorded, TakenOnce, NEW d \in Deliveries, Step(d)
  PROVE  TakenOnce'
<1> SUFFICES ASSUME NEW e \in Deliveries, NEW f \in Deliveries, e # f,
                    stage'[e] \in Taken, stage'[f] \in Taken
             PROVE  IdOf(e)' # IdOf(f)'
  BY DEF TakenOnce
<1>1. IdOf(e)' = IdOf(e) /\ IdOf(f)' = IdOf(f)
  BY StepMoves DEF IdOf
<1>2. CASE stage[e] \in Taken /\ stage[f] \in Taken
  BY <1>1, <1>2 DEF TakenOnce
<1>3. CASE stage[e] \notin Taken
  <2>1. e = d /\ IdOf(e) \notin recent
    BY <1>3, TakenBy
  <2>2. stage[f] \in Taken
    BY <2>1, TakenBy
  <2> QED BY <1>1, <2>1, <2>2 DEF TakenIsRecorded
<1>4. CASE stage[f] \notin Taken
  <2>1. f = d /\ IdOf(f) \notin recent
    BY <1>4, TakenBy
  <2>2. stage[e] \in Taken
    BY <2>1, TakenBy
  <2> QED BY <1>1, <2>1, <2>2 DEF TakenIsRecorded
<1> QED BY <1>2, <1>3, <1>4

-----------------------------------------------------------------------------
(* A bot takes what is for it *)

\* botIDOnce lets one goroutine of a bot ask, and the others wait for its answer.
LEMMA StepAsked ==
  ASSUME TypeOK, AskedOnce, NEW d \in Deliveries, Step(d)
  PROVE  AskedOnce'
<1> USE DEF AskedOnce, Taken, InWorker, InReceiver, Settled
<1>0. BotOf \in [Deliveries -> Bots]
  BY GroupAssumption
<1>1. CASE Receive(d)
  BY <1>0, <1>1 DEF Receive, TypeOK
<1>2. CASE Identify(d)
  BY <1>0, <1>2 DEF Identify, AfterIdentify, TypeOK
<1>3. CASE IdentityAnswered(d)
  BY <1>0, <1>3 DEF IdentityAnswered, AfterIdentify, TypeOK
<1>4. CASE LookupParent(d)
  BY <1>0, <1>4 DEF LookupParent, TypeOK
<1>5. CASE Dispatch(d)
  BY <1>0, <1>5 DEF Dispatch, TakenAs, TypeOK
<1>6. CASE WorkerStep(d)
  BY <1>0, <1>6 DEF WorkerStep, Take, Probe, Answer, TypeOK
<1> QED BY <1>1, <1>2, <1>3, <1>4, <1>5, <1>6 DEF Step, ReceiverStep

\* isReplyToBot is asked when the bot has its id, or has given it up.
LEMMA StepReplies ==
  ASSUME TypeOK, AskedOnce, RepliesAreMine, NEW d \in Deliveries, Step(d)
  PROVE  RepliesAreMine'
<1> SUFFICES ASSUME NEW e \in repliesToMe'
             PROVE  /\ MyIdentity(e)' \in {"known", "failed"}
                    /\ MyIdentity(e)' = "known" => ShapeOf(e)'.parent = BotOf[e]
  BY DEF RepliesAreMine
<1>1. e \in Deliveries /\ BotOf[e] \in Bots
  BY StepType, GroupAssumption DEF TypeOK
<1>2. shape' = shape
  BY StepMoves
<1>3. CASE e \in repliesToMe
  <2>1. identity'[BotOf[e]] = identity[BotOf[e]]
    BY <1>1, <1>3, IdentityIsFinal DEF RepliesAreMine
  <2> QED BY <1>2, <1>3, <2>1 DEF RepliesAreMine
<1>4. CASE e \notin repliesToMe
  <2>1. LookupParent(d) /\ e = d /\ IsReplyToBot(d)
    BY <1>4 DEF Step, ReceiverStep, WorkerStep, Receive, Identify, IdentityAnswered,
                LookupParent, Dispatch, Take, Probe, Answer
  <2>2. MyIdentity(d) \in {"known", "failed"} /\ identity' = identity
    BY <2>1 DEF LookupParent, AskedOnce
  <2> QED BY <1>2, <2>1, <2>2 DEF IsReplyToBot
<1> QED BY <1>3, <1>4

\* What the filters say of a message that was taken does not change any more.
LEMMA StepMine ==
  ASSUME TypeOK, AskedOnce, TakenIsMine, NEW d \in Deliveries, Step(d)
  PROVE  TakenIsMine'
<1> SUFFICES ASSUME NEW e \in Deliveries, stage'[e] \in Taken PROVE ~Ignored(e)'
  BY DEF TakenIsMine
<1>1. shape' = shape
  BY StepMoves
<1>2. CASE stage[e] \notin Taken
  <2>1. e = d /\ Dispatch(d) /\ ~Ignored(d)
    BY <1>2, TakenBy
  <2> QED BY <2>1 DEF Dispatch, Ignored, MentionsMe, NamesMe, NamesOther
<1>3. CASE stage[e] \in Taken /\ ShapeOf(e).kind = "welcome"
  BY <1>1, <1>3, ShapeFacts DEF Ignored, MentionsMe, NamesMe, NamesOther
<1>4. CASE stage[e] \in Taken /\ ShapeOf(e).kind # "welcome"
  <2>1. identity'[BotOf[e]] = identity[BotOf[e]]
    BY <1>4, IdentityIsFinal, ShapeFacts DEF AskedOnce
  <2>2. e \in repliesToMe' <=> e \in repliesToMe
    <3>1. CASE LookupParent(d)
      BY <1>4, <3>1 DEF LookupParent, Taken, InWorker
    <3> QED
      BY <3>1 DEF Step, ReceiverStep, WorkerStep, Receive, Identify, IdentityAnswered,
                  Dispatch, Take, Probe, Answer
  <2>3. ~Ignored(e)
    BY <1>4 DEF TakenIsMine
  <2> QED BY <1>1, <2>1, <2>2, <2>3 DEF Ignored, MentionsMe, NamesMe, NamesOther
<1> QED BY <1>2, <1>3, <1>4

-----------------------------------------------------------------------------
(* The theorems *)

\* Every step of a delivery, and every stuttering step, keeps the invariant.
LEMMA NextDelivery == DeliveryInv /\ [Next]_vars => DeliveryInv'
<1> SUFFICES ASSUME DeliveryInv, [Next]_vars PROVE DeliveryInv'
  OBVIOUS
<1> USE DEF DeliveryInv
<1>1. CASE UNCHANGED vars
  BY <1>1 DEF vars, TypeOK, TakenOnce, TakenIsRecorded, AskedOnce, RepliesAreMine,
              TakenIsMine, Ignored, MentionsMe, NamesMe, NamesOther, IdOf
<1>2. ASSUME NEW d \in Deliveries, Step(d) PROVE DeliveryInv'
  BY <1>2, StepType, StepRecorded, StepOnce, StepAsked, StepReplies, StepMine
<1> QED BY <1>1, <1>2 DEF Next, Step

\* Whatever Feishu delivers, however often and to however many bots, a message is
\* taken by one delivery at most (Manager.isDuplicate, one for all receivers): the
\* inductive invariant that the other theorems rest on.
THEOREM DeliveryInvariant == Spec => []DeliveryInv
<1>1. Init => DeliveryInv
  BY InitDelivery
<1>2. DeliveryInv /\ [Next]_vars => DeliveryInv'
  BY NextDelivery
<1> QED BY <1>1, <1>2, PTL DEF Spec

\* A bot that knows its id has taken a message only if it is one of those the
\* message is for, or the message is for nobody in particular.
LEMMA TakenIsAddressed ==
  ASSUME DeliveryInv, NEW d \in Deliveries, stage[d] \in Taken, MyIdentity(d) = "known"
  PROVE  Addressees(MsgOf[d]) = {} \/ BotOf[d] \in Addressees(MsgOf[d])
<1>1. ShapeOf(d) \in Shape
  BY ShapeFacts DEF DeliveryInv
<1>2. ~Ignored(d)
  BY DEF DeliveryInv, TakenIsMine
<1>3. CASE ShapeOf(d).mentions # {}
  BY <1>2, <1>3 DEF Ignored, MentionsMe, Addressees
<1>4. CASE ShapeOf(d).parent # None
  <2>1. ShapeOf(d).parent = BotOf[d]
    BY <1>2, <1>4 DEF Ignored, DeliveryInv, RepliesAreMine
  <2> QED BY <1>4, <2>1 DEF Addressees
<1>5. CASE ShapeOf(d).mentions = {} /\ ShapeOf(d).parent = None
  BY <1>2, <1>5 DEF Ignored, NamesMe, NamesOther, Addressees
<1> QED BY <1>3, <1>4, <1>5

\* The filters of the receiver and the order in which they learn the bot's id and
\* the parent's sender let no bot that knows its id speak in another's place.
THEOREM SpeaksOnlyWhenAddressed == Spec => []SpeaksWhenAddressed
<1>1. DeliveryInv => SpeaksWhenAddressed
  BY TakenIsAddressed DEF SpeaksWhenAddressed, Taken, InWorker
<1> QED BY <1>1, DeliveryInvariant, PTL

\* The worker probes what is not said to its bot, and nothing that is.
LEMMA StepProbes ==
  ASSUME DeliveryInv, NEW d \in Deliveries, Step(d), NEW e \in Deliveries,
         ProbeEnabled, MyIdentity(e) = "known", stage[e] = "queued"
  PROVE  /\ stage'[e] = "running" => BotOf[e] \in Addressees(MsgOf[e])
         /\ stage'[e] = "probing" => Addressees(MsgOf[e]) # {BotOf[e]}
<1> USE DEF DeliveryInv
<1>1. stage'[e] # "queued" => e = d /\ Take(d)
  BY DEF Step, ReceiverStep, WorkerStep, Receive, Identify, IdentityAnswered,
         LookupParent, Dispatch, Take, Probe, Answer, TypeOK
<1>2. ShapeOf(e) \in Shape /\ BotOf[e] \in Bots /\ BotOf[e] # None
  BY ShapeFacts, GroupAssumption DEF Members
<1>3. ~Ignored(e)
  BY DEF TakenIsMine, Taken, InWorker
<1>4. CASE stage'[e] = "running"
  <2>1. ~ShouldProbe(e)
    BY <1>1, <1>4 DEF Take, TypeOK
  <2> QED
    BY <1>2, <1>4, <2>1 DEF ShouldProbe, MentionsMe, NamesMe, Addressees, RepliesAreMine
<1>5. CASE stage'[e] = "probing"
  <2>1. ShouldProbe(e)
    BY <1>1, <1>5 DEF Take, TypeOK
  <2>2. ShapeOf(e).parent # BotOf[e]
    BY <1>2, <1>3, <2>1 DEF Ignored, ShouldProbe
  <2>3. BotOf[e] \notin Addressees(MsgOf[e])
    BY <2>1, <2>2 DEF ShouldProbe, MentionsMe, NamesMe, Addressees
  <2> QED BY <1>5, <2>3
<1> QED BY <1>4, <1>5

\* Session.probe.enabled: shouldProceedAfterProbe asks of every message that is not
\* said to the bot whether it should answer, and of no message that is.
THEOREM ProbesUnlessAddressed == Spec => ProbedUnlessAddressed
<1>1. DeliveryInv /\ [Next]_vars => [\A d \in Deliveries : Probes(d)]_vars
  BY StepProbes DEF Next, Step, Probes
<1> QED BY <1>1, DeliveryInvariant, PTL DEF Spec, ProbedUnlessAddressed
=============================================================================
