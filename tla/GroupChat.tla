----------------------------- MODULE GroupChat -----------------------------
(***************************************************************************)
(* One Feishu group with several bots of one server: what becomes of a      *)
(* message of the group in internal/feishu/receiver.go (one Receiver per    *)
(* bot, all of them deliver to one Manager), in the deduplication and the   *)
(* /stop of session/manager.go, and in the probe of session/worker.go.      *)
(*                                                                          *)
(* Feishu delivers a message to every bot of the group, and may deliver it  *)
(* again. Each delivery is handled by a goroutine of its own until it       *)
(* reaches the queue of the bot's worker, which takes one at a time. The    *)
(* text of a message is left out but for whom it mentions, answers and      *)
(* names, and whether it is a command.                                      *)
(***************************************************************************)
EXTENDS Naturals

CONSTANTS
    Bots,         \* the apps of the configuration that are in the group
    Someone,      \* a member of the group that is none of them
    Messages,     \* messages of the group, and welcome events
    Shapes,       \* what the messages may look like
    Deliveries,   \* events that Feishu delivers, re-deliveries included
    BotOf,        \* BotOf[d]: the bot the event is delivered to
    MsgOf,        \* MsgOf[d]: the message
    ProbeEnabled, \* session.probe.enabled
    MaxFaults,    \* bound on the failed requests to Feishu and failed probes
    None

Members == Bots \cup {Someone}

\* mentions: the @-mentions of the text; parent: whose message it replies to, and
\* by which kind of id Feishu names that sender; names: the app ids that stand in
\* the text. A command is a command only as the whole text: rewritten to its
\* display name, a mention of a bot before it makes it ordinary talk.
Shape == [kind : {"talk", "/stop", "/new", "welcome", "other"},
          mentions : SUBSET Members,
          parent : Members \cup {None}, parentIdType : {"app_id", "open_id"},
          names : SUBSET Bots]

ASSUME GroupAssumption ==
    /\ Someone \notin Bots
    /\ None \notin Members
    /\ Shapes \subseteq Shape
    /\ \A s \in Shapes : s.kind \in {"/stop", "/new", "welcome"} =>
          s.mentions = {} /\ s.names = {}
    /\ \A s \in Shapes : s.kind = "welcome" => s.parent = None
    /\ BotOf \in [Deliveries -> Bots]
    /\ MsgOf \in [Deliveries -> Messages]
    /\ None \notin Messages
    /\ ProbeEnabled \in BOOLEAN
    /\ MaxFaults \in Nat

VARIABLES
    shape,       \* shape[m]: what message m looks like
    stage,       \* stage[d]: how far delivery d has come
    identity,    \* identity[b]: what Receiver b knows of its botOpenID
    repliesToMe, \* deliveries for which isReplyToBot returned true
    recent,      \* the keys of recentMsgIDs
    faults

vars == <<shape, stage, identity, repliesToMe, recent, faults>>

\* "identify" is before botIDOnce.Do, "asking" inside it; "lookup" before the
\* request for the parent message; "decide" before the filters and Dispatch.
InReceiver == {"identify", "asking", "lookup", "decide"}
\* Taken by the Manager for the bot: in the worker's queue, with the worker, over.
InWorker == {"queued", "probing", "running"}
Settled  == {"unsupported", "ignored", "duplicate", "stopped", "done", "silent", "answered"}
Taken    == InWorker \cup {"stopped", "done", "silent", "answered"}

Init ==
    /\ shape \in [Messages -> Shapes]
    /\ stage = [d \in Deliveries |-> "unsent"]
    /\ identity = [b \in Bots |-> "unknown"]
    /\ repliesToMe = {}
    /\ recent = {}
    /\ faults = 0

Fault == faults < MaxFaults /\ faults' = faults + 1

ShapeOf(d) == shape[MsgOf[d]]
MyIdentity(d) == identity[BotOf[d]]
GoTo(d, s) == stage' = [stage EXCEPT ![d] = s]

-----------------------------------------------------------------------------
(* Receiver.handleMessage, handleBotAddedToGroup, handleUserAddedToGroup *)

\* parseContent: nothing is made of an unsupported message. A welcome event goes
\* straight to Dispatch. An attachment that cannot be downloaded is replaced by a
\* text that says so, so that this failure changes nothing here.
Receive(d) ==
    /\ stage[d] = "unsent"
    /\ \/ ShapeOf(d).kind = "other" /\ GoTo(d, "unsupported")
       \/ ShapeOf(d).kind = "welcome" /\ GoTo(d, "decide")
       \/ ShapeOf(d).kind \in {"talk", "/stop", "/new"} /\ GoTo(d, "identify")
    /\ UNCHANGED <<shape, identity, repliesToMe, recent, faults>>

\* lookupParentMessage is called for a reply only.
AfterIdentify(d) == IF ShapeOf(d).parent = None THEN "decide" ELSE "lookup"

\* resolveBotOpenID: the first caller asks, inside botIDOnce.Do; callers that come
\* before it has the answer wait, later ones take what it found.
Identify(d) ==
    /\ stage[d] = "identify"
    /\ \/ /\ MyIdentity(d) = "unknown"
          /\ identity' = [identity EXCEPT ![BotOf[d]] = "asking"]
          /\ GoTo(d, "asking")
       \/ /\ MyIdentity(d) \in {"known", "failed"}
          /\ GoTo(d, AfterIdentify(d))
          /\ UNCHANGED identity
    /\ UNCHANGED <<shape, repliesToMe, recent, faults>>

\* The answer of /open-apis/bot/v3/info. A failure is final: Once is done.
IdentityAnswered(d) ==
    /\ stage[d] = "asking"
    /\ \/ identity' = [identity EXCEPT ![BotOf[d]] = "known"] /\ UNCHANGED faults
       \/ identity' = [identity EXCEPT ![BotOf[d]] = "failed"] /\ Fault
    /\ GoTo(d, AfterIdentify(d))
    /\ UNCHANGED <<shape, repliesToMe, recent>>

\* isReplyToBot. The parent's sender is compared by app id, or by open id: without
\* an open id of its own, a bot takes every app's message for its own.
IsReplyToBot(d) ==
    LET s == ShapeOf(d) IN
    /\ s.parent \in Bots
    /\ \/ s.parent = BotOf[d]
       \/ s.parentIdType = "open_id" /\ MyIdentity(d) = "failed"

\* A parent that cannot be looked up is nobody's.
LookupParent(d) ==
    /\ stage[d] = "lookup"
    /\ \/ /\ repliesToMe' = IF IsReplyToBot(d) THEN repliesToMe \cup {d} ELSE repliesToMe
          /\ UNCHANGED faults
       \/ Fault /\ UNCHANGED repliesToMe
    /\ GoTo(d, "decide")
    /\ UNCHANGED <<shape, identity, recent>>

\* messageMentionsBot: without an open id of its own, every mention is one of it.
MentionsMe(d) ==
    LET s == ShapeOf(d) IN
    IF MyIdentity(d) = "known" THEN BotOf[d] \in s.mentions ELSE s.mentions # {}

\* nameTargetFlags
NamesMe(d)    == BotOf[d] \in ShapeOf(d).names
NamesOther(d) == ShapeOf(d).names \ {BotOf[d]} # {}

\* Mutant: a mention of somebody else is no reason to stay silent.
Ignored_NotForMention(d) ==
    \/ d \notin repliesToMe /\ ShapeOf(d).parent # None
    \/ ~NamesMe(d) /\ NamesOther(d)

\* shouldIgnoreForOtherMention, shouldIgnoreForOtherReply, shouldIgnoreForOtherName
Ignored(d) ==
    \/ ~MentionsMe(d) /\ ShapeOf(d).mentions # {}
    \/ d \notin repliesToMe /\ ShapeOf(d).parent # None
    \/ ~NamesMe(d) /\ NamesOther(d)

\* The message id that Feishu gives a message is the same for every bot that it is
\* delivered to; the welcome events carry none.
IdOf(d) == IF ShapeOf(d).kind = "welcome" THEN None ELSE MsgOf[d]

TakenAs(d) == IF ShapeOf(d).kind = "/stop" THEN "stopped" ELSE "queued"

\* Mutant: isDuplicate is asked before the filters, so that a bot that ignores a
\* message has recorded its id all the same.
Dispatch_DedupFirst(d) ==
    /\ stage[d] = "decide"
    /\ recent' = recent \cup {IdOf(d)}
    /\ GoTo(d, IF IdOf(d) \in recent THEN "duplicate"
               ELSE IF Ignored(d) THEN "ignored" ELSE TakenAs(d))
    /\ UNCHANGED <<shape, identity, repliesToMe, faults>>

\* Mutant: each bot is deduplicated by itself.
Dispatch_DedupPerBot(d) ==
    LET again == \E e \in Deliveries :
                    BotOf[e] = BotOf[d] /\ IdOf(e) = IdOf(d) /\ stage[e] \in Taken
    IN
    /\ stage[d] = "decide"
    /\ IF Ignored(d)
       THEN GoTo(d, "ignored") /\ UNCHANGED recent
       ELSE /\ recent' = recent \cup {IdOf(d)}
            /\ GoTo(d, IF again THEN "duplicate" ELSE TakenAs(d))
    /\ UNCHANGED <<shape, identity, repliesToMe, faults>>

\* The filters, then Manager.Dispatch. All receivers share one Manager, and its
\* isDuplicate knows a message by its id alone: the first bot that takes a message
\* takes it from the others. /stop is answered at once, on the bot's own channel.
Dispatch(d) ==
    /\ stage[d] = "decide"
    /\ \/ Ignored(d) /\ GoTo(d, "ignored") /\ UNCHANGED recent
       \/ ~Ignored(d) /\ IdOf(d) \in recent /\ GoTo(d, "duplicate") /\ UNCHANGED recent
       \/ /\ ~Ignored(d) /\ IdOf(d) \notin recent
          /\ recent' = recent \cup {IdOf(d)}
          /\ GoTo(d, TakenAs(d))
    /\ UNCHANGED <<shape, identity, repliesToMe, faults>>

-----------------------------------------------------------------------------
(* Worker.process for the group's channel of a bot *)

\* Mutant: the app id of the bot in the text is not looked at.
ShouldProbe_NamesForgotten(d) ==
    /\ ProbeEnabled
    /\ ~MentionsMe(d) /\ d \notin repliesToMe

\* The welcome prompt of the receiver mentions nobody: it is probed like any talk.
ShouldProbe(d) ==
    /\ ProbeEnabled
    /\ ~MentionsMe(d) /\ d \notin repliesToMe /\ ~NamesMe(d)

WorkerFree(b) == \A d \in Deliveries : BotOf[d] = b => stage[d] \notin {"probing", "running"}

\* The worker takes a message; handleBuiltInCommands; shouldProceedAfterProbe.
Take(d) ==
    /\ stage[d] = "queued"
    /\ WorkerFree(BotOf[d])
    /\ \/ ShapeOf(d).kind = "/new" /\ GoTo(d, "done")
       \/ ShapeOf(d).kind # "/new" /\ ShouldProbe(d) /\ GoTo(d, "probing")
       \/ ShapeOf(d).kind # "/new" /\ ~ShouldProbe(d) /\ GoTo(d, "running")
    /\ UNCHANGED <<shape, identity, repliesToMe, recent, faults>>

\* runProbe: RESPOND, anything else, or an error, after which the bot answers.
Probe(d) ==
    /\ stage[d] = "probing"
    /\ \/ GoTo(d, "running") /\ UNCHANGED faults
       \/ GoTo(d, "silent") /\ UNCHANGED faults
       \/ GoTo(d, "running") /\ Fault
    /\ UNCHANGED <<shape, identity, repliesToMe, recent>>

\* The rest of process: an answer, or an error message, is sent to the group.
Answer(d) ==
    /\ stage[d] = "running"
    /\ GoTo(d, "answered")
    /\ UNCHANGED <<shape, identity, repliesToMe, recent, faults>>

-----------------------------------------------------------------------------
ReceiverStep(d) == Identify(d) \/ IdentityAnswered(d) \/ LookupParent(d) \/ Dispatch(d)
WorkerStep(d)   == Take(d) \/ Probe(d) \/ Answer(d)

Next == \E d \in Deliveries : Receive(d) \/ ReceiverStep(d) \/ WorkerStep(d)

Spec == Init /\ [][Next]_vars

\* Every handler goroutine runs, every request to Feishu returns, and Claude
\* answers; that a message is delivered to a bot is up to Feishu.
Fairness == \A d \in Deliveries : WF_vars(ReceiverStep(d)) /\ WF_vars(WorkerStep(d))

FairSpec == Spec /\ Fairness

-----------------------------------------------------------------------------
\* Every variable keeps its shape; whoever asks for a bot's id is alone.
TypeOK ==
    /\ shape \in [Messages -> Shapes]
    /\ stage \in [Deliveries -> {"unsent"} \cup InReceiver \cup InWorker \cup Settled]
    /\ identity \in [Bots -> {"unknown", "asking", "known", "failed"}]
    /\ repliesToMe \subseteq Deliveries
    /\ recent \subseteq Messages \cup {None}
    /\ faults \in 0..MaxFaults

(* Invariants *)

\* design.md 5.2 and 8: within the window of the deduplication one bot at most
\* takes a message, and takes it once, however often and to however many bots
\* Feishu delivers it and however their handlers interleave.
TakenOnce ==
    \A d, e \in Deliveries :
        d # e /\ stage[d] \in Taken /\ stage[e] \in Taken => IdOf(d) # IdOf(e)

\* What is taken was recorded: no later delivery of it can be taken as well.
TakenIsRecorded == \A d \in Deliveries : stage[d] \in Taken => IdOf(d) \in recent

\* botIDOnce: whoever asks for a bot's id is alone, and a message is looked at
\* further only when the bot has, or has given up, its id. From then on what the
\* filters and the probe are told of it is what it was.
AskedOnce ==
    /\ \A d \in Deliveries : stage[d] = "asking" => MyIdentity(d) = "asking"
    /\ \A d, e \in Deliveries :
          stage[d] = "asking" /\ stage[e] = "asking" /\ BotOf[d] = BotOf[e] => d = e
    /\ \A d \in Deliveries :
          stage[d] \in {"lookup", "decide"} \cup Taken /\ ShapeOf(d).kind # "welcome"
          => MyIdentity(d) \in {"known", "failed"}
    /\ \A d \in Deliveries :
          stage[d] \in {"identify", "asking", "lookup"} => ShapeOf(d).kind # "welcome"

\* A delivery taken for a reply to its bot is one, unless the bot has no id.
RepliesAreMine ==
    \A d \in repliesToMe :
        /\ MyIdentity(d) \in {"known", "failed"}
        /\ MyIdentity(d) = "known" => ShapeOf(d).parent = BotOf[d]

\* The filters still say of a message what they said when it was taken, although
\* the bot's id and the parent were found out by other goroutines meanwhile.
TakenIsMine == \A d \in Deliveries : stage[d] \in Taken => ~Ignored(d)

\* All of it: an inductive invariant.
DeliveryInv ==
    TypeOK /\ TakenOnce /\ TakenIsRecorded /\ AskedOnce /\ RepliesAreMine /\ TakenIsMine

\* Whom the message is for, if it says so.
Addressees(m) == shape[m].mentions \cup ({shape[m].parent} \ {None}) \cup shape[m].names

\* requirements.md 7, design.md 8: a bot that knows its own id answers talk only when
\* it is one of those the message is for, or the message is for nobody in particular.
SpeaksWhenAddressed ==
    \A d \in Deliveries :
        /\ stage[d] \in InWorker \cup {"answered"}
        /\ ShapeOf(d).kind = "talk"
        /\ MyIdentity(d) = "known"
        => Addressees(MsgOf[d]) = {} \/ BotOf[d] \in Addressees(MsgOf[d])

(* Action properties *)

Probes(d) ==
    ProbeEnabled /\ MyIdentity(d) = "known" /\ stage[d] = "queued" =>
        /\ stage'[d] = "running" => BotOf[d] \in Addressees(MsgOf[d])
        /\ stage'[d] = "probing" => Addressees(MsgOf[d]) # {BotOf[d]}

\* requirements.md 7: with the probe enabled, what is not said to a bot that knows
\* its id goes to Claude only after the probe; what is said to it goes at once.
ProbedUnlessAddressed == [][\A d \in Deliveries : Probes(d)]_vars

(* Liveness *)

\* The other bots of the group do not keep a message from the one bot that it is
\* for: when it reaches that bot it is answered, unless another bot could not get
\* its id and took the message for its own, or its parent could not be looked up.
AddressedIsAnswered ==
    \A d \in Deliveries :
        stage[d] = "identify" /\ Addressees(MsgOf[d]) = {BotOf[d]} ~>
            \/ \E e \in Deliveries : /\ MsgOf[e] = MsgOf[d]
                                     /\ BotOf[e] = BotOf[d]
                                     /\ stage[e] = "answered"
            \/ \E c \in Bots \ {BotOf[d]} : identity[c] = "failed"
            \/ ShapeOf(d).parent # None /\ faults > 0

(* What a document says of the code, and is not so *)

\* requirements.md 7: "no answer when another bot is mentioned explicitly".
SilentWhenOthersMentioned ==
    \A d \in Deliveries :
        stage[d] = "answered" /\ ShapeOf(d).mentions # {} => BotOf[d] \in ShapeOf(d).mentions

\* receiver.go: the welcome of a bot that was added, or of a user that joined. The
\* probe decides whether it is sent.
WelcomeIsSent ==
    \A d \in Deliveries :
        ShapeOf(d).kind = "welcome" /\ stage[d] = "decide" ~> stage[d] = "answered"

\* What a user may expect: each bot that a message mentions answers it.
EachMentionedAnswers ==
    \A d \in Deliveries :
        /\ stage[d] = "decide"
        /\ BotOf[d] \in ShapeOf(d).mentions
        /\ MyIdentity(d) = "known"
        ~> \E e \in Deliveries : /\ MsgOf[e] = MsgOf[d]
                                 /\ BotOf[e] = BotOf[d]
                                 /\ stage[e] = "answered"
=============================================================================
