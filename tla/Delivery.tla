------------------------------- MODULE Delivery -------------------------------
(***************************************************************************)
(* One Telegram notification (src/src/notifications/notifier.py): it goes  *)
(* to every configured chat in turn, to each with a number of attempts.    *)
(*                                                                         *)
(* An attempt whose answer is lost may have delivered the message all the  *)
(* same.  The attempt fails with an error of the notifier, which is retried, *)
(* or with one that _post_send_message does not translate, which goes past  *)
(* the remaining attempts and chats to the caller.                         *)
(***************************************************************************)
EXTENDS Settings

CONSTANTS
    Chats,       \* the number of chat_ids
    MaxRetries,  \* telegram.max_retries
    Enabled,     \* telegram.enabled
    OddErrors    \* an answer may be such that reading it raises another error

ASSUME DeliveryAssumption ==
    /\ Chats \in Nat \ {0}
    /\ [enabled |-> Enabled, chat_ids |-> IF Enabled THEN Chats ELSE 0,
        max_retries |-> MaxRetries, require_critical_delivery |-> TRUE]
          \in TelegramSettings
    /\ OddErrors \in BOOLEAN

VARIABLES
    mail,    \* where the message is
    chat,    \* the chat it is sent to
    tries,   \* failed attempts at that chat
    missed,  \* failed_count
    got      \* history: how often each chat has received it

mailVars == <<mail, chat, tries, missed, got>>

\* What a send ends with: TelegramSendResult, or an error.
Ended == {"delivered", "failed", "unattempted", "error"}
Chat == 1..Chats

Blank(phase) ==
    /\ mail' = phase
    /\ chat' = 1
    /\ tries' = 0
    /\ missed' = 0
    /\ got' = [c \in Chat |-> 0]

NoMail ==
    /\ mail = "none"
    /\ chat = 1
    /\ tries = 0
    /\ missed = 0
    /\ got = [c \in Chat |-> 0]

\* send_message
Send == Blank(IF Enabled THEN "sending" ELSE "unattempted")

\* The caller has taken the result.
Settle == Blank("none")

Received(arrived) ==
    got' = IF arrived THEN [got EXCEPT ![chat] = @ + 1] ELSE got

\* Mutant: one chat is enough.
NextChatAny(failures) ==
    IF chat < Chats
    THEN chat' = chat + 1 /\ tries' = 0 /\ missed' = failures /\ mail' = mail
    ELSE /\ mail' = IF failures < Chats THEN "delivered" ELSE "failed"
         /\ missed' = failures
         /\ UNCHANGED <<chat, tries>>

\* The loop of send_message over chat_ids goes on, with this many failures.
NextChat(failures) ==
    IF chat < Chats
    THEN chat' = chat + 1 /\ tries' = 0 /\ missed' = failures /\ mail' = mail
    ELSE /\ mail' = IF failures = 0 THEN "delivered" ELSE "failed"
         /\ missed' = failures
         /\ UNCHANGED <<chat, tries>>

Answered ==
    /\ mail = "sending"
    /\ Received(TRUE)
    /\ NextChat(missed)

\* _send_to_chat: a network error, a timeout or a refusal, is tried again.
AttemptFails ==
    /\ mail = "sending"
    /\ \E arrived \in BOOLEAN : Received(arrived)
    /\ IF tries < MaxRetries
       THEN tries' = tries + 1 /\ UNCHANGED <<mail, chat, missed>>
       ELSE NextChat(missed + 1)

\* The answer cannot be decoded, or is no HTTP.
AnswerIsOdd ==
    /\ mail = "sending"
    /\ OddErrors
    /\ \E arrived \in BOOLEAN : Received(arrived)
    /\ mail' = "error"
    /\ UNCHANGED <<chat, tries, missed>>

Sending == Answered \/ AttemptFails \/ AnswerIsOdd

\* _safe_notify: nothing is raised.
Accepted(required) ==
    mail = "delivered" \/ (mail \in Ended /\ ~required)

\* EmergencyStop._notify: nothing is raised.
StopAccepted(required) ==
    \/ mail = "delivered"
    \/ mail \in {"failed", "unattempted"} /\ ~required

----------------------------------------------------------------------------
MailTypeOK ==
    /\ mail \in {"none", "sending"} \cup Ended
    /\ chat \in Chat
    /\ tries \in Nat
    /\ missed \in 0..Chats
    /\ got \in [Chat -> Nat]

\* send_message: a notification that counts as delivered has reached every
\* chat, whatever attempts and answers were lost on the way.
DeliveredToAll == mail = "delivered" => \A c \in Chat : got[c] >= 1

\* _send_to_chat: a message is repeated where an answer was lost, but no chat
\* receives it more often than it is tried.
RepeatsBounded == \A c \in Chat : got[c] <= MaxRetries + 1

\* send_message ("to all configured chats"): a send that was attempted and
\* has ended has tried every chat.
EveryChatTried == mail \in {"delivered", "failed", "error"} => chat = Chats
=============================================================================
