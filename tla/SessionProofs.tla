---------------------------- MODULE SessionProofs ----------------------------
(***************************************************************************)
(* What a process keeps from its start to its end, for every configuration, *)
(* number of chats, retries and attempts: it trades on an account that was  *)
(* checked on this connection, no monitor works on a connection that is     *)
(* being replaced, and a recovery that does not succeed leaves the          *)
(* emergency stop behind, unless that cannot be written.                    *)
(***************************************************************************)
EXTENDS Session, TLAPS

----------------------------------------------------------------------------
(* One notification.                                                        *)

\* The chats before the present one have received the message unless their
\* failures are counted.
Progress ==
    /\ mail = "sending" => missed < chat
    /\ mail = "sending" /\ missed = 0 => \A c \in Chat : c < chat => got[c] >= 1
    /\ DeliveredToAll

MailInv == MailTypeOK /\ Progress

LEMMA BlankInv ==
    ASSUME NEW phase0 \in {"none", "sending"} \cup Ended, Blank(phase0),
           phase0 # "delivered"
    PROVE  MailInv'
<1>1. 1 \in Chat /\ Chats \in Nat
  BY DeliveryAssumption DEF Chat
<1> QED
  BY <1>1 DEF Blank, MailInv, MailTypeOK, Progress, DeliveredToAll, Chat

LEMMA SendInv == Send => MailInv'
<1>1. ASSUME Enabled PROVE Send => Blank("sending")
  BY <1>1 DEF Send
<1>2. ASSUME ~Enabled PROVE Send => Blank("unattempted")
  BY <1>2 DEF Send
<1> QED  BY <1>1, <1>2, BlankInv DEF Ended

LEMMA SettleInv == Settle => MailInv'
  BY BlankInv DEF Settle

\* An attempt, counted in the history of the chat it went to.
LEMMA ReceivedGrows ==
    ASSUME MailInv, NEW arrived \in BOOLEAN, Received(arrived)
    PROVE  /\ got' \in [Chat -> Nat]
           /\ \A c \in Chat : got'[c] >= got[c]
           /\ arrived => got'[chat] >= 1
<1>1. got \in [Chat -> Nat] /\ chat \in Chat
  BY DEF MailInv, MailTypeOK
<1>2. CASE arrived
  <2>1. got' = [got EXCEPT ![chat] = got[chat] + 1]
    BY <1>2 DEF Received
  <2> QED  BY <1>1, <2>1
<1>3. CASE ~arrived
  <2>1. got' = got
    BY <1>3 DEF Received
  <2> QED  BY <1>1, <2>1, <1>3
<1> QED  BY <1>2, <1>3

LEMMA AnsweredInv == MailInv /\ Answered => MailInv'
<1> SUFFICES ASSUME MailInv, Answered PROVE MailInv'
  OBVIOUS
<1>1. /\ got' \in [Chat -> Nat] /\ \A c \in Chat : got'[c] >= got[c]
      /\ got'[chat] >= 1
  BY ReceivedGrows DEF Answered
<1>2. /\ mail = "sending" /\ chat \in 1..Chats /\ Chats \in Nat /\ tries \in Nat
      /\ missed \in 0..Chats /\ missed < chat
      /\ got \in [Chat -> Nat]
      /\ missed = 0 => \A c \in Chat : c < chat => got[c] >= 1
  BY DeliveryAssumption DEF Answered, MailInv, MailTypeOK, Progress, Chat
<1>3. missed = 0 => \A c \in Chat : c <= chat => got'[c] >= 1
  <2> SUFFICES ASSUME missed = 0, NEW c \in Chat, c <= chat PROVE got'[c] >= 1
    OBVIOUS
  <2>1. CASE c = chat
    BY <2>1, <1>1
  <2>2. CASE c # chat
    <3>1. c < chat /\ got[c] >= 1 /\ got'[c] >= got[c]
      BY <2>2, <1>1, <1>2 DEF Chat
    <3> QED  BY <3>1, <1>1, <1>2
  <2> QED  BY <2>1, <2>2
<1>4. CASE chat < Chats
  <2>1. chat' = chat + 1 /\ tries' = 0 /\ missed' = missed /\ mail' = "sending"
    BY <1>2, <1>4 DEF Answered, NextChat
  <2> QED
    BY <1>1, <1>2, <1>3, <1>4, <2>1
    DEF MailInv, MailTypeOK, Progress, DeliveredToAll, Chat
<1>5. CASE ~(chat < Chats)
  <2>1. /\ mail' = IF missed = 0 THEN "delivered" ELSE "failed"
        /\ missed' = missed /\ chat' = chat /\ tries' = tries
    BY <1>5 DEF Answered, NextChat
  <2>2. chat = Chats
    BY <1>2, <1>5
  <2> QED
    BY <1>1, <1>2, <1>3, <2>1, <2>2
    DEF MailInv, MailTypeOK, Progress, DeliveredToAll, Chat, Ended
<1> QED  BY <1>4, <1>5

LEMMA AttemptFailsInv == MailInv /\ AttemptFails => MailInv'
<1> SUFFICES ASSUME MailInv, AttemptFails PROVE MailInv'
  OBVIOUS
<1>1. got' \in [Chat -> Nat] /\ \A c \in Chat : got'[c] >= got[c]
  BY ReceivedGrows DEF AttemptFails
<1>2. /\ mail = "sending" /\ chat \in 1..Chats /\ Chats \in Nat /\ tries \in Nat
      /\ missed \in 0..Chats /\ missed < chat
      /\ got \in [Chat -> Nat]
      /\ missed = 0 => \A c \in Chat : c < chat => got[c] >= 1
  BY DeliveryAssumption DEF AttemptFails, MailInv, MailTypeOK, Progress, Chat
<1>3. CASE tries < MaxRetries
  <2>1. /\ tries' = tries + 1 /\ mail' = "sending" /\ chat' = chat
        /\ missed' = missed
    BY <1>2, <1>3 DEF AttemptFails
  <2>2. missed = 0 => \A c \in Chat : c < chat => got'[c] >= 1
    BY <1>1, <1>2
  <2> QED
    BY <1>1, <1>2, <2>1, <2>2
    DEF MailInv, MailTypeOK, Progress, DeliveredToAll, Chat
<1>4. CASE ~(tries < MaxRetries)
  <2>1. NextChat(missed + 1)
    BY <1>4 DEF AttemptFails
  <2>2. missed + 1 # 0 /\ missed + 1 \in 0..Chats
    BY <1>2
  <2>3. CASE chat < Chats
    BY <1>1, <1>2, <2>1, <2>2, <2>3
    DEF NextChat, MailInv, MailTypeOK, Progress, DeliveredToAll, Chat
  <2>4. CASE ~(chat < Chats)
    BY <1>1, <1>2, <2>1, <2>2, <2>4
    DEF NextChat, MailInv, MailTypeOK, Progress, DeliveredToAll, Chat, Ended
  <2> QED  BY <2>3, <2>4
<1> QED  BY <1>3, <1>4

LEMMA AnswerIsOddInv == MailInv /\ AnswerIsOdd => MailInv'
<1> SUFFICES ASSUME MailInv, AnswerIsOdd PROVE MailInv'
  OBVIOUS
<1>1. got' \in [Chat -> Nat]
  BY ReceivedGrows DEF AnswerIsOdd
<1> QED
  BY <1>1 DEF AnswerIsOdd, MailInv, MailTypeOK, Progress, DeliveredToAll, Ended

LEMMA SendingInv == MailInv /\ Sending => MailInv'
  BY AnsweredInv, AttemptFailsInv, AnswerIsOddInv DEF Sending

----------------------------------------------------------------------------
(* The process.                                                             *)

\* Where an attempt at recovery is, and where the process is on its way out.
Trying == {"attemptNotice", "retryNotice", "reconnect", "connect", "positions",
           "orders", "executions", "contracts", "delta"}
Leaving == {"stopNotice", "errorNotice", "shutdown", "ended"}

ProcessTypeOK ==
    /\ conf \in Configs
    /\ pc \in PC
    /\ phase \in {"startup", "recovery"}
    /\ monitor \in {"none", "running", "dead"}
    /\ attempt \in 0..Limit
    /\ errors \in 0..1
    /\ foreign \in ForeignStatus /\ before \in ForeignStatus

FlagsOK ==
    /\ conn \in BOOLEAN /\ estop \in BOOLEAN /\ knew \in BOOLEAN
    /\ journaled \in BOOLEAN /\ suspect \in BOOLEAN /\ checked \in BOOLEAN
    /\ opened \in BOOLEAN /\ unwritten \in BOOLEAN

\* What a recovery is part of.
PhaseInv ==
    /\ phase = "recovery" => pc \in Trying \cup Leaving
    /\ phase = "startup" => pc \notin {"attemptNotice", "retryNotice",
                                       "reconnect", "delta"}

\* A counted error is being reported or recovered from, or ends the process.
ErrorsInv == errors # 0 => pc = "failNotice" \/ phase = "recovery" \/ pc \in Leaving

\* A recovery is left with success or with the emergency stop.
AttemptInv ==
    attempt # 0 => phase = "recovery" /\ (pc \in Leaving => estop \/ unwritten)

WatchedInv == phase = "recovery" => monitor = "none"

CheckedInv ==
    conf.mode = "paper"
      /\ pc \in {"contracts", "delta", "cycle", "sleep", "doneNotice"} => checked

\* What a snapshot under way has seen of an order that was there before it.
SeenInv ==
    /\ pc = "orders" /\ before # "none" => suspect \/ foreign # "none"
    /\ pc = "executions" /\ before # "none"
         => suspect \/ foreign \in {"held", "closed", "cancelled"}

OpenedInv ==
    /\ phase = "recovery" /\ pc \in {"positions", "orders", "executions",
                                     "contracts", "delta"} => opened
    /\ pc = "doneNotice" => opened

Core ==
    /\ ProcessTypeOK /\ FlagsOK /\ PhaseInv /\ ErrorsInv /\ AttemptInv
    /\ WatchedInv /\ CheckedInv /\ SeenInv /\ OpenedInv

LEMMA ConfType ==
    ASSUME conf \in Configs
    PROVE  conf.mode \in TRADING_MODES /\ conf.once \in BOOLEAN
  BY SessionAssumption

LEMMA LimitType == Limit \in Nat /\ Limit >= 1
  BY SessionAssumption DEF Positive

LEMMA InitCore == Init => Core
<1> SUFFICES ASSUME Init PROVE Core
  OBVIOUS
<1> USE DEF Init
<1>1. ProcessTypeOK
  BY LimitType DEF ProcessTypeOK, ForeignStatus, PC
<1>2. FlagsOK
  BY DEF FlagsOK
<1>3. PhaseInv /\ ErrorsInv /\ AttemptInv /\ WatchedInv /\ CheckedInv /\ SeenInv
      /\ OpenedInv
  BY DEF PhaseInv, ErrorsInv, AttemptInv, WatchedInv, CheckedInv, SeenInv,
         OpenedInv, Trying
<1> QED  BY <1>1, <1>2, <1>3 DEF Core

LEMMA StartupSteps ==
    ASSUME Core, Start \/ StartAnnounced \/ Connect \/ RequestFails
    PROVE  Core'
<1> USE LimitType DEF Core, ProcessTypeOK, FlagsOK, PhaseInv, ErrorsInv,
    AttemptInv, WatchedInv, CheckedInv, SeenInv, OpenedInv, Trying, Leaving,
    Notify, GoOn, Leave, Raise, FailClosed, StartCycle, PC, Requests, Notices,
    Blocking, recoveryVars, linkVars, stopVars, accountVars, Paper
<1>1. CASE Start  BY <1>1 DEF Start
<1>2. CASE StartAnnounced  BY <1>2 DEF StartAnnounced
<1>3. CASE Connect  BY <1>3 DEF Connect, AfterConnect
<1>4. CASE RequestFails  BY <1>4 DEF RequestFails
<1> QED  BY <1>1, <1>2, <1>3, <1>4

LEMMA CheckSteps ==
    ASSUME Core, ReadPositions \/ ReadOrders \/ ReadExecutions
    PROVE  Core'
<1> USE LimitType DEF Core, ProcessTypeOK, FlagsOK, PhaseInv, ErrorsInv,
    AttemptInv, WatchedInv, CheckedInv, SeenInv, OpenedInv, Trying, Leaving,
    Notify, GoOn, Leave, Raise, FailClosed, StartCycle, PC, Requests, Notices,
    Blocking, recoveryVars, linkVars, stopVars, accountVars, Paper
<1>1. CASE ReadPositions  BY <1>1 DEF ReadPositions, ForeignStatus
<1>2. CASE ReadOrders
  <2> USE <1>2 DEF ReadOrders, ForeignStatus
  <2>1. ProcessTypeOK'  OBVIOUS
  <2>2. FlagsOK'  OBVIOUS
  <2>3. PhaseInv' /\ ErrorsInv' /\ AttemptInv'  OBVIOUS
  <2>4. WatchedInv' /\ CheckedInv'  OBVIOUS
  <2>5. SeenInv' /\ OpenedInv'  OBVIOUS
  <2> QED  BY <2>1, <2>2, <2>3, <2>4, <2>5
<1>3. CASE ReadExecutions
  <2> USE <1>3 DEF ReadExecutions, Reconciled, ForeignStatus
  <2>1. ProcessTypeOK'  OBVIOUS
  <2>2. FlagsOK'  OBVIOUS
  <2>3. PhaseInv' /\ ErrorsInv' /\ AttemptInv'  OBVIOUS
  <2>4. WatchedInv' /\ CheckedInv'  OBVIOUS
  <2>5. SeenInv' /\ OpenedInv'  OBVIOUS
  <2> QED  BY <2>1, <2>2, <2>3, <2>4, <2>5
<1> QED  BY <1>1, <1>2, <1>3

LEMMA LoopSteps ==
    ASSUME Core, Contracts \/ LivePreflight \/ CycleSucceeds \/ Wake
                \/ CycleFails
    PROVE  Core'
<1> USE LimitType DEF Core, ProcessTypeOK, FlagsOK, PhaseInv, ErrorsInv,
    AttemptInv, WatchedInv, CheckedInv, SeenInv, OpenedInv, Trying, Leaving,
    Notify, GoOn, Leave, Raise, FailClosed, StartCycle, PC, Requests, Notices,
    Blocking, recoveryVars, linkVars, stopVars, accountVars, Paper
<1>1. CASE Contracts  BY <1>1 DEF Contracts, MonitorTask
<1>2. CASE LivePreflight  BY <1>2 DEF LivePreflight
<1>3. CASE CycleSucceeds  BY <1>3 DEF CycleSucceeds
<1>4. CASE Wake  BY <1>4 DEF Wake
<1>5. CASE CycleFails
  <2> USE <1>5 DEF CycleFails
  <2>1. ProcessTypeOK'  OBVIOUS
  <2>2. FlagsOK'  OBVIOUS
  <2>3. PhaseInv' /\ ErrorsInv' /\ AttemptInv'  OBVIOUS
  <2>4. WatchedInv' /\ CheckedInv'  OBVIOUS
  <2>5. SeenInv' /\ OpenedInv'  OBVIOUS
  <2> QED  BY <2>1, <2>2, <2>3, <2>4, <2>5
<1> QED  BY <1>1, <1>2, <1>3, <1>4, <1>5

LEMMA RecoverySteps ==
    ASSUME Core, FailureAnnounced \/ AttemptAnnounced \/ Reconnect
                \/ Recovered \/ AttemptOver
    PROVE  Core'
<1> USE LimitType DEF Core, ProcessTypeOK, FlagsOK, PhaseInv, ErrorsInv,
    AttemptInv, WatchedInv, CheckedInv, SeenInv, OpenedInv, Trying, Leaving,
    Notify, GoOn, Leave, Raise, FailClosed, StartCycle, PC, Requests, Notices,
    Blocking, recoveryVars, linkVars, stopVars, accountVars, Paper
<1>1. CASE FailureAnnounced  BY <1>1 DEF FailureAnnounced
<1>2. CASE AttemptAnnounced
  <2> USE <1>2 DEF AttemptAnnounced
  <2>1. ProcessTypeOK'  OBVIOUS
  <2>2. FlagsOK'  OBVIOUS
  <2>3. PhaseInv' /\ ErrorsInv' /\ AttemptInv'  OBVIOUS
  <2>4. WatchedInv' /\ CheckedInv'  OBVIOUS
  <2>5. SeenInv' /\ OpenedInv'  OBVIOUS
  <2> QED  BY <2>1, <2>2, <2>3, <2>4, <2>5
<1>3. CASE Reconnect
  <2> USE <1>3 DEF Reconnect
  <2>1. ProcessTypeOK'  OBVIOUS
  <2>2. FlagsOK'  OBVIOUS
  <2>3. PhaseInv' /\ ErrorsInv' /\ AttemptInv'  OBVIOUS
  <2>4. WatchedInv' /\ CheckedInv'  OBVIOUS
  <2>5. SeenInv' /\ OpenedInv'  OBVIOUS
  <2> QED  BY <2>1, <2>2, <2>3, <2>4, <2>5
<1>4. CASE Recovered
  <2> USE <1>4 DEF Recovered, Healthy, MonitorTask
  <2>1. ProcessTypeOK'  OBVIOUS
  <2>2. FlagsOK'  OBVIOUS
  <2>3. PhaseInv' /\ ErrorsInv' /\ AttemptInv'  OBVIOUS
  <2>4. WatchedInv' /\ CheckedInv'  OBVIOUS
  <2>5. SeenInv' /\ OpenedInv'  OBVIOUS
  <2> QED  BY <2>1, <2>2, <2>3, <2>4, <2>5
<1>5. CASE AttemptOver
  <2> USE <1>5 DEF AttemptOver
  <2>1. ProcessTypeOK'
    <3>1. CASE Accepted(Required) /\ attempt < Limit
      BY <3>1
    <3>2. CASE ~(Accepted(Required) /\ attempt < Limit)
      <4>1. FailClosed /\ UNCHANGED <<attempt, conf, phase, errors, foreign, before>>
        BY <3>2
      <4>2. pc' \in {"errorNotice", "stopNotice"} /\ monitor' \in {monitor, "none"}
        BY <4>1
      <4> QED  BY <4>1, <4>2
    <3> QED  BY <3>1, <3>2
  <2>2. FlagsOK'  OBVIOUS
  <2>3. PhaseInv' /\ ErrorsInv' /\ AttemptInv'  OBVIOUS
  <2>4. WatchedInv' /\ CheckedInv'  OBVIOUS
  <2>5. SeenInv' /\ OpenedInv'  OBVIOUS
  <2> QED  BY <2>1, <2>2, <2>3, <2>4, <2>5
<1> QED  BY <1>1, <1>2, <1>3, <1>4, <1>5

LEMMA EndSteps ==
    ASSUME Core, StopAnnounced \/ RecoveryAnnounced \/ ErrorAnnounced
                \/ Shutdown \/ MailStep
    PROVE  Core'
<1> USE LimitType DEF Core, ProcessTypeOK, FlagsOK, PhaseInv, ErrorsInv,
    AttemptInv, WatchedInv, CheckedInv, SeenInv, OpenedInv, Trying, Leaving,
    Notify, GoOn, Leave, Raise, FailClosed, StartCycle, PC, Requests, Notices,
    Blocking, recoveryVars, linkVars, stopVars, accountVars, Paper
<1>1. CASE StopAnnounced
  <2> USE <1>1 DEF StopAnnounced, StopAccepted
  <2>1. ProcessTypeOK'  OBVIOUS
  <2>2. FlagsOK'  OBVIOUS
  <2>3. PhaseInv' /\ ErrorsInv' /\ AttemptInv'  OBVIOUS
  <2>4. WatchedInv' /\ CheckedInv'  OBVIOUS
  <2>5. SeenInv' /\ OpenedInv'  OBVIOUS
  <2> QED  BY <2>1, <2>2, <2>3, <2>4, <2>5
<1>2. CASE RecoveryAnnounced
  <2> USE <1>2 DEF RecoveryAnnounced
  <2>1. ProcessTypeOK'  OBVIOUS
  <2>2. FlagsOK'  OBVIOUS
  <2>3. PhaseInv' /\ ErrorsInv' /\ AttemptInv'  OBVIOUS
  <2>4. WatchedInv' /\ CheckedInv'  OBVIOUS
  <2>5. SeenInv' /\ OpenedInv'  OBVIOUS
  <2> QED  BY <2>1, <2>2, <2>3, <2>4, <2>5
<1>3. CASE ErrorAnnounced
  <2> USE <1>3 DEF ErrorAnnounced
  <2>1. ProcessTypeOK'  OBVIOUS
  <2>2. FlagsOK'  OBVIOUS
  <2>3. PhaseInv' /\ ErrorsInv' /\ AttemptInv'  OBVIOUS
  <2>4. WatchedInv' /\ CheckedInv'  OBVIOUS
  <2>5. SeenInv' /\ OpenedInv'  OBVIOUS
  <2> QED  BY <2>1, <2>2, <2>3, <2>4, <2>5
<1>4. CASE Shutdown
  <2> USE <1>4 DEF Shutdown
  <2>1. ProcessTypeOK'  OBVIOUS
  <2>2. FlagsOK'  OBVIOUS
  <2>3. PhaseInv' /\ ErrorsInv' /\ AttemptInv'  OBVIOUS
  <2>4. WatchedInv' /\ CheckedInv'  OBVIOUS
  <2>5. SeenInv' /\ OpenedInv'  OBVIOUS
  <2> QED  BY <2>1, <2>2, <2>3, <2>4, <2>5
<1>5. CASE MailStep  BY <1>5 DEF MailStep
<1> QED  BY <1>1, <1>2, <1>3, <1>4, <1>5

LEMMA AroundSteps ==
    ASSUME Core, ConnectionDrops \/ ForeignMoves \/ MonitorActs
    PROVE  Core'
<1> USE LimitType DEF Core, ProcessTypeOK, FlagsOK, PhaseInv, ErrorsInv,
    AttemptInv, WatchedInv, CheckedInv, SeenInv, OpenedInv, Trying, Leaving,
    Notify, GoOn, Leave, Raise, FailClosed, StartCycle, PC, Requests, Notices,
    Blocking, recoveryVars, linkVars, stopVars, accountVars, Paper
<1>1. CASE ConnectionDrops
  <2> USE <1>1 DEF ConnectionDrops
  <2>1. ProcessTypeOK'  OBVIOUS
  <2>2. FlagsOK'  OBVIOUS
  <2>3. PhaseInv' /\ ErrorsInv' /\ AttemptInv'  OBVIOUS
  <2>4. WatchedInv' /\ CheckedInv'  OBVIOUS
  <2>5. SeenInv' /\ OpenedInv'  OBVIOUS
  <2> QED  BY <2>1, <2>2, <2>3, <2>4, <2>5
<1>2. CASE ForeignMoves  BY <1>2 DEF ForeignMoves, ForeignStatus
<1>3. CASE MonitorActs
  <2> USE <1>3, ConfType DEF MonitorActs
  <2>1. ProcessTypeOK'  OBVIOUS
  <2>2. FlagsOK'  OBVIOUS
  <2>3. PhaseInv' /\ ErrorsInv' /\ AttemptInv'  OBVIOUS
  <2>4. WatchedInv' /\ CheckedInv'  OBVIOUS
  <2>5. SeenInv' /\ OpenedInv'  OBVIOUS
  <2> QED  BY <2>1, <2>2, <2>3, <2>4, <2>5
<1> QED  BY <1>1, <1>2, <1>3

----------------------------------------------------------------------------
(* Both parts together.                                                     *)

IInv == Core /\ MailInv

LEMMA MailSteps == MailInv /\ [Next]_vars => MailInv'
<1> SUFFICES ASSUME MailInv, [Next]_vars PROVE MailInv'
  OBVIOUS
<1>1. ASSUME UNCHANGED mailVars PROVE MailInv'
  BY <1>1 DEF mailVars, MailInv, MailTypeOK, Progress, DeliveredToAll
<1>2. Send \/ Settle \/ Sending => MailInv'
  BY SendInv, SettleInv, SendingInv
<1>3. Around \/ UNCHANGED vars => UNCHANGED mailVars
  BY DEF Around, ConnectionDrops, ForeignMoves, MonitorActs, vars
<1>4. /\ Leave \/ Raise \/ FailClosed => Send
      /\ \A task : StartCycle(task) => Send \/ Settle
  BY DEF Leave, Raise, FailClosed, StartCycle, Notify, GoOn
<1>5. Start \/ StartAnnounced \/ Connect \/ RequestFails => Send \/ Settle
  BY <1>4 DEF Start, StartAnnounced, Connect, RequestFails, Notify, GoOn
<1>6. ReadPositions \/ ReadOrders \/ ReadExecutions => Send \/ Settle
  BY <1>4 DEF ReadPositions, ReadOrders, ReadExecutions, GoOn
<1>7. Contracts \/ LivePreflight \/ CycleSucceeds \/ Wake \/ CycleFails
        => Send \/ Settle
  BY <1>4 DEF Contracts, LivePreflight, CycleSucceeds, Wake, CycleFails, Notify,
     GoOn
<1>8. FailureAnnounced \/ AttemptAnnounced \/ Reconnect \/ Recovered
        \/ AttemptOver => Send \/ Settle
  BY <1>4 DEF FailureAnnounced, AttemptAnnounced, Reconnect, Recovered,
     AttemptOver, Notify, GoOn
<1>9. StopAnnounced \/ RecoveryAnnounced \/ ErrorAnnounced \/ Shutdown
        => Send \/ Settle
  BY <1>4 DEF StopAnnounced, RecoveryAnnounced, ErrorAnnounced, Shutdown, GoOn
<1>10. MailStep => Sending
  BY DEF MailStep
<1> QED
  BY <1>1, <1>2, <1>3, <1>5, <1>6, <1>7, <1>8, <1>9, <1>10 DEF Next, Main

LEMMA CoreSteps == Core /\ [Next]_vars => Core'
<1> SUFFICES ASSUME Core, [Next]_vars PROVE Core'
  OBVIOUS
<1>1. ASSUME UNCHANGED vars PROVE Core'
  BY <1>1 DEF vars, recoveryVars, linkVars, stopVars, accountVars, Core,
     ProcessTypeOK, FlagsOK, PhaseInv, ErrorsInv, AttemptInv, WatchedInv,
     CheckedInv, SeenInv, OpenedInv
<1> QED
  BY <1>1, StartupSteps, CheckSteps, LoopSteps, RecoverySteps, EndSteps,
     AroundSteps DEF Next, Main, Around

LEMMA InitMail == Init => MailInv
<1>1. 1 \in Chat /\ Chats \in Nat
  BY DeliveryAssumption DEF Chat
<1> QED
  BY <1>1 DEF Init, NoMail, MailInv, MailTypeOK, Progress, DeliveredToAll

LEMMA Invariance == Spec => []IInv
<1>1. Init => IInv
  BY InitCore, InitMail DEF IInv
<1>2. IInv /\ [Next]_vars => IInv'
  BY CoreSteps, MailSteps DEF IInv
<1> QED  BY <1>1, <1>2, PTL DEF Spec

\* Every reachable state has its type; in particular the count of repeated
\* errors never passes one.
THEOREM TypeCorrect == Spec => []TypeOK
<1>1. IInv => TypeOK
  BY DEF IInv, Core, ProcessTypeOK, FlagsOK, MailInv, TypeOK
<1> QED  BY <1>1, Invariance, PTL

\* A bot that trades does so on a connection whose account was checked,
\* whatever broke and was recovered.
THEOREM TradesChecked == Spec => []TradesOnCheckedAccount
<1>1. IInv => TradesOnCheckedAccount
  BY DEF IInv, Core, CheckedInv, TradesOnCheckedAccount, Paper
<1> QED  BY <1>1, Invariance, PTL

\* A process that ends during a recovery leaves the emergency stop behind, unless
\* writing it has failed.
THEOREM FailsClosed == Spec => []RecoveryFailsClosed
<1>1. IInv => RecoveryFailsClosed
  BY DEF IInv, Core, ProcessTypeOK, AttemptInv, Leaving, RecoveryFailsClosed
<1> QED  BY <1>1, Invariance, PTL

\* No monitor is at work while the connection is replaced: what ran before the
\* failure is withdrawn before the first attempt.
THEOREM MonitorWithdrawn == Spec => []NoMonitorInRecovery
<1>1. IInv => NoMonitorInRecovery
  BY DEF IInv, Core, WatchedInv, NoMonitorInRecovery
<1> QED  BY <1>1, Invariance, PTL

\* A notification that counts as delivered has reached every chat.
THEOREM AllChats == Spec => []DeliveredToAll
<1>1. IInv => DeliveredToAll
  BY DEF IInv, MailInv, Progress
<1> QED  BY <1>1, Invariance, PTL

\* An order that was in the account when a snapshot began is seen by one of
\* its requests, unless it was cancelled without a position.
THEOREM SnapshotWhole == Spec => SnapshotComplete
<1>1. ASSUME IInv, [Next]_vars, checked', ~checked
      PROVE  before = "none" \/ foreign = "cancelled"
  <2>1. ~UNCHANGED checked
    BY <1>1
  <2>2. ReadExecutions
    BY <1>1, <2>1 DEF Next, Main, Around, Start, StartAnnounced, Connect,
       RequestFails, ReadPositions, ReadOrders, Contracts, LivePreflight,
       CycleSucceeds, Wake, CycleFails, FailureAnnounced, AttemptAnnounced,
       Reconnect, Recovered, AttemptOver, StopAnnounced, RecoveryAnnounced,
       ErrorAnnounced, Shutdown, MailStep, ConnectionDrops, ForeignMoves,
       MonitorActs, vars, accountVars
  <2>3. pc = "executions" /\ Reconciled
    BY <2>1, <2>2 DEF ReadExecutions
  <2> QED
    BY <1>1, <2>3 DEF IInv, Core, SeenInv, Reconciled
<1>2. IInv /\ [Next]_vars
      => [checked' /\ ~checked => before = "none" \/ foreign = "cancelled"]_vars
  BY <1>1
<1> QED  BY <1>2, Invariance, PTL DEF Spec, SnapshotComplete

\* A recovery ends on a connection that was opened after the failure.
THEOREM NewConnection == Spec => RecoveredOnNewConnection
<1>1. IInv /\ [Next]_vars => [pc' = "doneNotice" => opened']_vars
  BY CoreSteps DEF IInv, Core, OpenedInv
<1> QED  BY <1>1, Invariance, PTL DEF Spec, RecoveredOnNewConnection
=============================================================================
