---------------------------- MODULE RunnerRequests ----------------------------
(***************************************************************************)
(* What the provider is sent: the history of ResumableRunner as the last   *)
(* middleware, PatchToolCalls, hands it over.  The providers behind the    *)
(* interface take an assistant message with tool calls only if the answers *)
(* to those calls follow it at once, each of them once.                    *)
(***************************************************************************)
EXTENDS ResumableRunner, PatchToolCalls

Request == Patched(messages)

\* The assumption under which an id tells calls apart.
DistinctIds ==
  /\ \A n \in DOMAIN calls : calls[n].said # BlankId
  /\ \A m, n \in DOMAIN calls : m # n => calls[m].id # calls[n].id

\* Behind the i-th message, an assistant's, there are only answers up to the j-th.
Unbroken(s, i, j) ==
  /\ s[i].role = "assistant"
  /\ \A m \in (i + 1) .. j : s[m].role = "tool"

InBlock(s, i, j) == i < j /\ Unbroken(s, i, j)

\* The answers to id in the block behind the i-th message.
AnswersTo(s, i, id) == {j \in DOMAIN s : InBlock(s, i, j) /\ s[j].ids = <<id>>}

\* Each announced call is answered exactly once, in the block behind.
AnsweredOnce(s) ==
  \A i \in DOMAIN s : s[i].role = "assistant" =>
    \A k \in DOMAIN s[i].ids : \E j \in DOMAIN s : AnswersTo(s, i, s[i].ids[k]) = {j}

\* An answer of the runner to a call of the model's. The calls a skill expands
\* to are announced by no assistant message.
AnswersModel(message) ==
  message.role = "tool" /\ message.call # 0 /\ calls[message.call].said # NoId

\* Whenever the provider is asked, each call that an assistant message of the
\* request announces is answered exactly once and in the block of tool
\* messages right behind it, and every answer of a call the model made bears an
\* id announced there and stands in that block: after interrupts, rejections and
\* resumptions, and after a dropped run that left some of a batch unanswered
\* and a later run that went on behind it.
RequestsPaired ==
  pc = "provider" /\ DistinctIds =>
    LET request == Request
    IN  /\ AnsweredOnce(request)
        /\ \A j \in DOMAIN request : AnswersModel(request[j]) =>
             \E i \in 1 .. (j - 1) :
               /\ InBlock(request, i, j)
               /\ \E k \in DOMAIN request[i].ids : request[j].ids = <<request[i].ids[k]>>

-----------------------------------------------------------------------------
(* What the history keeps, and why the above holds.                          *)

\* The a-th message announces call n.
Announces(a, n) ==
  /\ messages[a].role = "assistant"
  /\ n \in messages[a].call .. (messages[a].call + Len(messages[a].ids) - 1)

\* An id that was announced is the one the call is executed under.
SaidInv ==
  \A n \in DOMAIN calls :
    calls[n].said \notin {NoId, BlankId} => calls[n].id = calls[n].said

\* A tool message bears the id of its call, an assistant message the ids of the
\* calls it announces, which no other one announces.
MessagesInv ==
  /\ \A i \in DOMAIN messages :
       /\ ~initialized => messages[i].role = "user"
       /\ messages[i].role = "tool" => messages[i].ids = <<calls[messages[i].call].id>>
       /\ messages[i].role = "assistant" =>
            /\ messages[i].call > 0
            /\ messages[i].call + Len(messages[i].ids) <= Len(calls) + 1
            /\ \A k \in DOMAIN messages[i].ids :
                 messages[i].ids[k] = calls[messages[i].call + k - 1].said
  /\ \A a, b \in DOMAIN messages :
       a < b /\ messages[a].role = "assistant" /\ messages[b].role = "assistant"
         => messages[a].call + Len(messages[a].ids) <= messages[b].call

\* The answer of an announced call stands in the block of its announcement, and
\* while a call waits for its answer that block is the end of the history.
BlockInv ==
  \A n \in DOMAIN calls : calls[n].said # NoId =>
    /\ \A j \in Answers(n) : \E a \in DOMAIN messages : Announces(a, n) /\ InBlock(messages, a, j)
    /\ n > Settled =>
         \E a \in DOMAIN messages : Announces(a, n) /\ Unbroken(messages, a, Len(messages))

RequestInv == SaidInv /\ MessagesInv /\ BlockInv
=============================================================================
